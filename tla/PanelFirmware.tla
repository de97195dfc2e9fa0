--------------------------- MODULE PanelFirmware ---------------------------
(***************************************************************************)
(* The main loop of a full panel (firmware/housepanel-giga): Wi-Fi, the    *)
(* WebSocket, HELLO, commands, the calendar and doorbell on the display,   *)
(* the memory samples and the watchdog.                                    *)
(*                                                                         *)
(* Time is counted in units of at most one iteration: it passes inside     *)
(* the steps.  A time stamp is represented by its age, which stops growing  *)
(* at the largest value the code compares it with.  Unsigned subtraction   *)
(* of millis() is the true age for 49 days, far longer than any of these.  *)
(* The one place where the stamp itself matters is the test                *)
(* _last_data_rx_ms > 0: a stamp taken when millis() is 0 reads as "none", *)
(* so whether a new stamp counts is a choice.                              *)
(*                                                                         *)
(* The server's side of a socket is what PanelSession sends: nothing but   *)
(* interrupts before HELLO, and a calendar as frames in order.  An update  *)
(* enters the adapter's queue at once, a replay frame by frame: updates    *)
(* may come between the frames of a replayed calendar.  Bytes in flight    *)
(* need no queue: the next frame is chosen when it is read.                *)
(***************************************************************************)
EXTENDS Naturals, Sequences

CONSTANTS
  Lists,       \* calendars the server may send
  Size,        \* frames of each calendar
  Room,        \* lines that _cal_text holds (512 bytes, lines of at most 63)
  Timeouts,    \* doorbell time-outs; 0 means none
  LastTimeout, \* bound: the largest of them
  None,        \* no frame, no calendar
  Retry,       \* between two connection attempts (5 s)
  Stale,       \* silence after which a socket is given up (DATA_STALE_TIMEOUT_MS)
  Period,      \* between two memory samples (60 s)
  Rate,        \* within which the adapter refuses a second sample (5 s)
  Watchdog,    \* the watchdog resets the board (10 s)
  BeginMax,    \* bound: the longest WiFi.begin, whatever it is
  ServiceMax,  \* bounds of the time between two kicks that ota_loop takes,
  WaitMax,     \* ... a round of waiting for the Wi-Fi (display and 50 times 10 ms),
  ConnectMax,  \* ... the connection and its handshake (3 s time-out),
  ReadMax,     \* ... reading a frame (2 s time-out),
  ActMax       \* ... and the rest of an iteration

ASSUME FirmwareAssumption ==
  /\ None \notin Lists /\ Size \in [Lists -> Nat \ {0}]
  /\ Room \in Nat /\ \A l \in Lists : Size[l] <= Room
  /\ Timeouts \subseteq 0..LastTimeout /\ LastTimeout \in Nat
  /\ {Retry, Stale, Period, Rate, Watchdog} \subseteq Nat
  /\ {BeginMax, ServiceMax, WaitMax, ConnectMax, ReadMax, ActMax} \subseteq Nat
  /\ WaitMax > 0 /\ ActMax > 0 /\ Rate <= Period
  \* The comment in setup(): 10 s gives headroom above the handshake and the loop.
  /\ ServiceMax + ReadMax + ActMax < Watchdog
  /\ WaitMax + ReadMax + ActMax < Watchdog
  /\ ConnectMax + ReadMax + ActMax < Watchdog

VARIABLES
  pc,            \* where loop() is
  wifi,          \* WiFi.status() == WL_CONNECTED
  link,          \* the socket: "half" is open for the board alone
  session,       \* what the server heard on it, the calendar it is sending, and
                 \* the one that was cut short by it
  slot,          \* g_last_frame, or None if not g_frame_ready
  age,           \* time since each stamp
  dated,         \* _last_data_rx_ms > 0
  memory_first,  \* ws_client.cpp
  text, bell,    \* _cal_text as lines; the doorbell screen and _doorbell_timeout_ms
  broken,        \* history: a frame of the calendar shown was lost, or came after another's
  refused,       \* history: a sample was refused
  blocked        \* history: time that WiFi.begin took since the last kick

net == <<wifi, link, session>>
display == <<text, bell, broken>>
vars == <<pc, net, slot, age, dated, memory_first, display, refused, blocked>>

Frame(cmd, list, n) == [cmd |-> cmd, list |-> list, n |-> n]
Ring(t) == Frame("DOORBELL", None, t)
CalEvent(l, i) == Frame("CAL_EVENT", l, i)
Data == Frame("DATA", None, 0)    \* WEATHER, WEATHER_DAY, SYSMON_TEMP, TIME
Other == Frame("OTHER", None, 0)  \* TICKER-APPEND, OTA-PAUSE, OTA-RESUME, TIME with epoch 0
Frames == {Data, Other} \cup {Ring(t) : t \in Timeouts}
            \cup UNION {{CalEvent(l, i) : i \in 0..Size[l] - 1} : l \in Lists}

ASSUME NoneAssumption == None \notin Frames

\* The ages kept: data, attempt, sample and bell are the stamps of the code, fed
\* is since the last kick of the watchdog, heard since the server's last sample,
\* rung since the last doorbell command.
Limit == [data |-> Stale + 1, attempt |-> Retry, sample |-> Period, bell |-> LastTimeout,
          fed |-> Watchdog, heard |-> Rate, rung |-> LastTimeout]
Clocks == DOMAIN Limit
Later(ages, d) ==
  [c \in Clocks |-> IF ages[c] + d > Limit[c] THEN Limit[c] ELSE ages[c] + d]

NoSession == [heard |-> "nothing", list |-> None, next |-> 0, cut |-> None, rest |-> 0]
Dark == [on |-> FALSE, timeout |-> 0]

PowerOn ==
  /\ pc = "setup" /\ link = "down" /\ session = NoSession
  /\ slot = None /\ age = [c \in Clocks |-> 0] /\ dated = FALSE
  /\ memory_first = TRUE /\ text = <<>> /\ bell = Dark /\ broken = FALSE
  /\ blocked = 0
Init == PowerOn /\ wifi \in BOOLEAN /\ refused = FALSE

-----------------------------------------------------------------------------
(* Sockets *)

Hang == link' = "down" /\ session' = NoSession

\* ws_connect, ws_send_hello and the stamps that follow; ages are those after it.
\* A HELLO that cannot be written whole ends in socket.stop.
ws_connect(ages) ==
  \/ /\ age' = ages /\ UNCHANGED <<link, session, dated, memory_first>>
  \/ /\ wifi /\ memory_first' = TRUE
     /\ age' = [ages EXCEPT !.data = 0] /\ dated' \in BOOLEAN
     /\ \/ link' = "up" /\ session' = [NoSession EXCEPT !.heard = "hello"]
        \/ Hang

\* setup(): the watchdog starts after the first attempt.
Setup ==
  /\ pc = "setup" /\ wifi /\ pc' = "top"
  /\ ws_connect(age)
  /\ UNCHANGED <<wifi, slot, display, refused, blocked>>

\* Kick and ota_loop.
Top ==
  /\ pc = "top" /\ pc' = "wifi"
  /\ \E d \in 0..ServiceMax : age' = Later([age EXCEPT !.fed = 0], d)
  /\ blocked' = 0
  /\ UNCHANGED <<net, slot, dated, memory_first, display, refused>>

\* wifi_connect starts with WiFi.begin, which blocks without a kick.
wifi_begin ==
  /\ pc = "wifi" /\ ~wifi /\ pc' = "waiting"
  /\ \E d \in 0..BeginMax : age' = Later(age, d) /\ blocked' = blocked + d
  /\ UNCHANGED <<net, slot, dated, memory_first, display, refused>>

\* It returns only with Wi-Fi, and kicks the watchdog in each round of waiting.
wifi_connect ==
  /\ pc = "waiting" /\ ~wifi
  /\ \E d \in 1..WaitMax : age' = Later([age EXCEPT !.fed = 0], d)
  /\ blocked' = 0
  /\ UNCHANGED <<pc, net, slot, dated, memory_first, display, refused>>

\* Mutant of Silent: the socket is trusted as long as it calls itself connected.
Silent_Trusted(ages) == FALSE

Silent(ages) == link # "down" /\ dated /\ ages.data > Stale

\* The check for a socket that is open for the board alone.
CheckStale ==
  /\ pc \in {"wifi", "waiting"} /\ wifi /\ pc' = "connect"
  /\ IF Silent(age) THEN Hang ELSE UNCHANGED <<link, session>>
  /\ UNCHANGED <<wifi, slot, age, dated, memory_first, display, refused, blocked>>

\* Mutant of Kicked: the connection is attempted on the kick of the iteration.
Kicked_Once(ages) == ages

Kicked(ages) == [ages EXCEPT !.fed = 0]

Connect ==
  /\ pc = "connect" /\ pc' = "receive"
  /\ IF link = "down" /\ age.attempt >= Retry
     THEN /\ \E d \in 0..ConnectMax : ws_connect(Later(Kicked([age EXCEPT !.attempt = 0]), d))
          /\ blocked' = 0
     ELSE UNCHANGED <<link, session, age, dated, memory_first, blocked>>
  /\ UNCHANGED <<wifi, slot, display, refused>>

-----------------------------------------------------------------------------
(* Frames *)

\* The next frame of the calendar under way, or of the one another came between.
Continues(f) == f.list = session.list /\ f.n = session.next
Resumes(f) ==
  f.cmd = "CAL_EVENT" /\ session.list = None /\ f.list = session.cut /\ f.n = session.rest

\* What the server may send next: an interrupt; after HELLO any update, the
\* rest of a calendar, or the start of one, also between the frames of another.
Sends(f) ==
  \/ f.cmd = "DOORBELL"
  \/ /\ session.heard # "nothing"
     /\ \/ f \in {Data, Other}
        \/ f.cmd = "CAL_EVENT" /\ (f.n = 0 \/ Continues(f) \/ Resumes(f))

\* An update enters the queue whole, so one calendar at a time is cut short.
Sent(f) ==
  LET s == IF f.n = 0 /\ session.list # None
           THEN [session EXCEPT !.cut = session.list, !.rest = session.next]
           ELSE IF Resumes(f) THEN [session EXCEPT !.cut = None, !.rest = 0] ELSE session
  IN session' = IF f.cmd # "CAL_EVENT" THEN session
                ELSE IF f.n + 1 < Size[f.list]
                THEN [s EXCEPT !.list = f.list, !.next = f.n + 1]
                ELSE [s EXCEPT !.list = None, !.next = 0]

NothingRead ==
  /\ pc = "receive" /\ pc' = "sample"
  /\ UNCHANGED <<net, slot, age, dated, memory_first, display, refused, blocked>>

\* ws_loop reads a frame into the slot, or drops it: the read timed out or it
\* could not be parsed.  Either way the socket stays open.
ws_loop(f) ==
  /\ pc = "receive" /\ link = "up" /\ Sends(f) /\ pc' = "sample"
  /\ Sent(f)
  /\ \E d \in 0..ReadMax : age' = Later(age, d)
  /\ \/ slot' = f /\ broken' = (broken \/ Resumes(f))
     \/ slot' = slot /\ broken' = (broken \/ f.cmd = "CAL_EVENT")
  /\ UNCHANGED <<wifi, link, dated, memory_first, text, bell, refused, blocked>>

\* Mutant of sampled: memory_first is not cleared.
sampled_FirstAgain == memory_first' = TRUE

sampled == memory_first' = FALSE

\* ws_send_memory.  The adapter takes a sample after HELLO, Rate after the last.
\* memory_collect may give up, and the send may fail.
ws_send_memory ==
  /\ pc = "sample" /\ pc' = "act"
  /\ IF link # "down" /\ (memory_first \/ age.sample >= Period)
     THEN /\ sampled
          /\ \/ /\ age' = [age EXCEPT !.sample = 0] /\ UNCHANGED <<link, session, refused>>
             \/ /\ link = "up"
                /\ age' = [age EXCEPT !.sample = 0, !.heard = 0]
                /\ session' = [session EXCEPT !.heard = "sample"]
                /\ refused' = (refused \/ session.heard = "nothing"
                                  \/ (session.heard = "sample" /\ age.heard < Rate))
                /\ UNCHANGED link
             \/ age' = [age EXCEPT !.sample = 0] /\ Hang /\ UNCHANGED refused
     ELSE UNCHANGED <<link, session, age, memory_first, refused>>
  /\ UNCHANGED <<wifi, slot, dated, display, blocked>>

-----------------------------------------------------------------------------
(* The display *)

\* Mutants of shown: the first event does not clear; a full buffer is written past.
shown_NoClear(f) == IF Len(text) < Room THEN Append(text, <<f.list, f.n>>) ELSE text
shown_Overrun(f) == Append(IF f.n = 0 THEN <<>> ELSE text, <<f.list, f.n>>)

\* The calendar after event f.  A line that does not fit is cut; here it is left out.
shown(f) ==
  LET kept == IF f.n = 0 THEN <<>> ELSE text IN
  IF Len(kept) < Room THEN Append(kept, <<f.list, f.n>>) ELSE kept

restarted(ages) == [ages EXCEPT !.rung = 0, !.bell = 0]

\* Mutant of dismissed: the time-out is only looked at when a frame has come.
dismissed_WithFrame(b, ages) ==
  IF slot # None /\ b.on /\ b.timeout > 0 /\ ages.bell >= b.timeout THEN Dark ELSE b

\* The doorbell screen b after the check of its time-out.
dismissed(b, ages) ==
  IF b.on /\ b.timeout > 0 /\ ages.bell >= b.timeout THEN Dark ELSE b

\* The switch over the frame in the slot, then the time-out of the doorbell.
Act ==
  /\ pc = "act" /\ pc' = "top" /\ slot' = None
  /\ \E d \in 1..ActMax :
     \/ /\ (slot = None \/ slot = Other)
        /\ age' = Later(age, d) /\ bell' = dismissed(bell, age)
        /\ UNCHANGED <<dated, text, broken>>
     \/ /\ slot # None /\ slot.cmd = "DOORBELL"
        /\ LET ages == restarted(age) IN
           /\ age' = Later(ages, d)
           /\ bell' = dismissed([on |-> TRUE, timeout |-> slot.n], ages)
        /\ UNCHANGED <<dated, text, broken>>
     \/ /\ slot # None /\ slot.cmd \in {"DATA", "CAL_EVENT"}
        /\ age' = Later([age EXCEPT !.data = 0], d) /\ dated' \in BOOLEAN
        /\ bell' = dismissed(bell, age)
        /\ IF slot.cmd = "CAL_EVENT"
           THEN text' = shown(slot) /\ broken' = (broken /\ slot.n # 0)
           ELSE UNCHANGED <<text, broken>>
  /\ UNCHANGED <<net, memory_first, refused, blocked>>

-----------------------------------------------------------------------------
(* The network and the power supply *)

board == <<pc, slot, age, dated, memory_first, display, refused, blocked>>

WifiChanges == wifi' = ~wifi /\ UNCHANGED <<link, session, board>>

\* The server ends the session, or goes away without a word.
PeerCloses == link # "down" /\ Hang /\ UNCHANGED <<wifi, board>>
PeerVanishes == link = "up" /\ link' = "half" /\ UNCHANGED <<wifi, session, board>>

\* Power supply, watchdog, or the restart that ends an update.
Restart ==
  /\ pc # "setup" /\ pc' = "setup" /\ Hang
  /\ slot' = None /\ age' = [c \in Clocks |-> 0] /\ dated' = FALSE
  /\ memory_first' = TRUE /\ text' = <<>> /\ bell' = Dark /\ broken' = FALSE
  /\ blocked' = 0
  /\ UNCHANGED <<wifi, refused>>

loop ==
  \/ Setup \/ Top \/ wifi_begin \/ wifi_connect \/ CheckStale \/ Connect \/ NothingRead
  \/ (\E f \in Frames : ws_loop(f)) \/ ws_send_memory \/ Act
Environment == WifiChanges \/ PeerCloses \/ PeerVanishes \/ Restart
Next == loop \/ Environment

\* The loop runs on; the network and the server owe it nothing.
Spec == Init /\ [][Next]_vars /\ WF_vars(loop)

-----------------------------------------------------------------------------
(* Properties *)

\* Types.  The calendar never exceeds _cal_text.
TypeOK ==
  /\ pc \in {"setup", "top", "wifi", "waiting", "connect", "receive", "sample", "act"}
  /\ wifi \in BOOLEAN /\ link \in {"down", "up", "half"}
  /\ session \in [heard : {"nothing", "hello", "sample"}, list : Lists \cup {None}, next : Nat,
                  cut : Lists \cup {None}, rest : Nat]
  /\ slot \in Frames \cup {None}
  /\ age \in [Clocks -> Nat] /\ (\A c \in Clocks : age[c] <= Limit[c])
  /\ dated \in BOOLEAN /\ memory_first \in BOOLEAN
  /\ text \in Seq(Lists \X Nat) /\ Len(text) <= Room
  /\ bell \in [on : BOOLEAN, timeout : Timeouts \cup {0}]
  /\ broken \in BOOLEAN /\ refused \in BOOLEAN /\ blocked \in Nat

\* The calendar on the display is a beginning of one calendar the server sent,
\* and all of it that was sent in this session: the events of two are never mixed
\* across updates, reconnects and restarts, and no frame is overwritten in the
\* slot before it is shown.  Until the next calendar comes this is not so if a
\* frame of it was lost, or if the adapter went on with a replayed calendar after
\* an update had come between its frames.
Whole(l, n) == Len(text) = n /\ \A i \in 1..n : text[i] = <<l, i - 1>>
CalendarWhole ==
  ~broken =>
    /\ text = <<>> \/ \E l \in Lists : Len(text) <= Size[l] /\ Whole(l, Len(text))
    /\ (session.list # None /\ (slot = None \/ slot.cmd # "CAL_EVENT")) =>
         Whole(session.list, session.next)

\* The adapter takes every memory sample that reaches it: each session starts
\* with HELLO before the first sample, and samples keep the adapter's distance
\* across reconnects, failed sends and samples that could not be collected.
SamplesAccepted == ~refused

\* The watchdog is fed in time on every path through the loop, the connection
\* attempts, read time-outs and waiting for the Wi-Fi included.  Only WiFi.begin,
\* which the loop cannot kick in, starves it: by taking what the rest of an
\* iteration leaves of the 10 s.
Starved == blocked + ServiceMax + ReadMax + ActMax >= Watchdog
WatchdogFed == age.fed < Watchdog \/ Starved

\* A doorbell screen is dismissed only when the time-out of the latest ring has
\* passed, whatever rings, frames and reconnects came in between.
DoorbellTimed ==
  [][(bell.on /\ ~bell'.on /\ pc' # "setup") =>
       /\ bell.timeout > 0 /\ age.rung >= bell.timeout
       /\ (slot = None \/ slot.cmd # "DOORBELL")]_vars

\* Once the Wi-Fi stays up and nobody rings, a doorbell with a time-out goes away.
DoorbellEnds ==
  (<>[]wifi /\ <>[](slot = None \/ slot.cmd # "DOORBELL"))
    => <>[](bell.on => bell.timeout = 0)

\* While the Wi-Fi stays up, a panel cut off from its server tries to connect
\* again, also if the socket looks open, unless the last stamp reads as none.
Attempting == pc = "connect" /\ link = "down" /\ age.attempt >= Retry
Blind == link = "half" /\ ~dated
CutOffRetries ==
  <>[]wifi => ((link # "up" /\ ~Blind) ~> (Attempting \/ pc = "setup" \/ Blind))
=============================================================================
