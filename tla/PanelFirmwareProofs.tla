------------------------ MODULE PanelFirmwareProofs ------------------------
(***************************************************************************)
(* Theorems about PanelFirmware, for every set of calendars and doorbell   *)
(* time-outs, every buffer that holds a calendar, and all durations that    *)
(* satisfy the assumptions.                                                *)
(***************************************************************************)
EXTENDS PanelFirmware, SequenceTheorems, TLAPS

\* What the server may have heard and may be sending.
Sessions ==
  [heard : {"nothing", "hello", "sample"}, list : Lists \cup {None}, next : Nat,
   cut : Lists \cup {None}, rest : Nat]
\* The clocks within their limits.
Ages == {a \in [Clocks -> Nat] : \A c \in Clocks : a[c] <= Limit[c]}

\* The clocks, and that their limits are numbers.
LEMMA ClockNames ==
  /\ Clocks = {"data", "attempt", "sample", "bell", "fed", "heard", "rung"}
  /\ Limit \in [Clocks -> Nat]
  /\ Limit["fed"] = Watchdog /\ Limit["sample"] = Period /\ Limit["heard"] = Rate
  /\ Limit["bell"] = LastTimeout /\ Limit["rung"] = LastTimeout
BY FirmwareAssumption DEF FirmwareAssumption, Clocks, Limit

\* Time passing keeps the ages within their limits, and adds what passed.
LEMMA LaterAges ==
  ASSUME NEW a \in Ages, NEW d \in Nat
  PROVE  /\ Later(a, d) \in Ages
         /\ \A c \in Clocks : Later(a, d)[c] = IF a[c] + d > Limit[c] THEN Limit[c] ELSE a[c] + d
<1>1. Later(a, d) \in [Clocks -> Nat]
  BY ClockNames DEF Later, Ages
<1>2. \A c \in Clocks : Later(a, d)[c] = IF a[c] + d > Limit[c] THEN Limit[c] ELSE a[c] + d
  BY DEF Later
<1>3. \A c \in Clocks : Later(a, d)[c] <= Limit[c]
  BY <1>2, ClockNames DEF Ages
<1>4. QED
  BY <1>1, <1>2, <1>3 DEF Ages

\* A new stamp has age 0 and leaves the others alone.
LEMMA StampAges ==
  ASSUME NEW a \in Ages, NEW c \in Clocks
  PROVE  /\ [a EXCEPT ![c] = 0] \in Ages
         /\ \A k \in Clocks : [a EXCEPT ![c] = 0][k] = IF k = c THEN 0 ELSE a[k]
BY ClockNames DEF Ages

\* The durations of the steps, as numbers.
LEMMA Durations ==
  /\ ServiceMax \in Nat /\ WaitMax \in Nat /\ ConnectMax \in Nat /\ ReadMax \in Nat /\ ActMax \in Nat
  /\ 0..BeginMax \subseteq Nat /\ 1..WaitMax \subseteq Nat
  /\ 0..ServiceMax \subseteq Nat /\ 0..ConnectMax \subseteq Nat
  /\ 0..ReadMax \subseteq Nat /\ 1..ActMax \subseteq Nat
BY FirmwareAssumption DEF FirmwareAssumption

-----------------------------------------------------------------------------
(* Frames *)

\* A frame that is shown on the calendar is an event of a calendar, and what a
\* doorbell frame carries is a time-out.
LEMMA FrameParts ==
  ASSUME NEW f \in Frames
  PROVE  /\ f.cmd = "CAL_EVENT" => /\ f.list \in Lists /\ f.n \in Nat /\ f.n + 1 \in 1..Room
                                   /\ f.n < Size[f.list] /\ Size[f.list] \in Nat
         /\ f.cmd = "DOORBELL" => f.n \in Timeouts
         /\ f.cmd \in {"CAL_EVENT", "DOORBELL", "DATA", "OTHER"}
         /\ f # None
<1>1. CASE f \in {Data, Other}
  BY <1>1, NoneAssumption DEF Data, Other, Frame
<1>2. CASE \E t \in Timeouts : f = Ring(t)
  BY <1>2, NoneAssumption DEF Ring, Frame
<1>3. ASSUME NEW l \in Lists, NEW i \in 0..Size[l] - 1, f = CalEvent(l, i)
      PROVE  /\ f.cmd = "CAL_EVENT" /\ f.list = l /\ f.n = i
             /\ f.list \in Lists /\ f.n \in Nat /\ f.n + 1 \in 1..Room
             /\ f.n < Size[f.list] /\ Size[f.list] \in Nat /\ f # None
  BY <1>3, FirmwareAssumption, NoneAssumption DEF FirmwareAssumption, CalEvent, Frame
<1>4. f \in {Data, Other} \/ (\E t \in Timeouts : f = Ring(t))
        \/ (\E l \in Lists : \E i \in 0..Size[l] - 1 : f = CalEvent(l, i))
  BY DEF Frames
<1>5. CASE \E l \in Lists : \E i \in 0..Size[l] - 1 : f = CalEvent(l, i)
  BY <1>3, <1>5
<1>6. QED
  BY <1>1, <1>2, <1>4, <1>5

\* After an event the server sends the rest of its calendar, if there is any.
LEMMA SentParts ==
  ASSUME session \in Sessions, NEW f \in Frames, f.cmd = "CAL_EVENT", Sent(f)
  PROVE  /\ session' \in Sessions /\ session'.heard = session.heard
         /\ session'.list # None => session'.list = f.list /\ session'.next = f.n + 1
<1>1. f.list \in Lists /\ f.n + 1 \in Nat
  BY FrameParts
<1>2. PICK s \in Sessions : /\ s.heard = session.heard
                           /\ \/ session' = [s EXCEPT !.list = f.list, !.next = f.n + 1]
                              \/ session' = [s EXCEPT !.list = None, !.next = 0]
  <2> DEFINE s == IF f.n = 0 /\ session.list # None
                  THEN [session EXCEPT !.cut = session.list, !.rest = session.next]
                  ELSE IF Resumes(f) THEN [session EXCEPT !.cut = None, !.rest = 0] ELSE session
  <2>1. s \in Sessions /\ s.heard = session.heard
    BY DEF Sessions
  <2>2. \/ session' = [s EXCEPT !.list = f.list, !.next = f.n + 1]
        \/ session' = [s EXCEPT !.list = None, !.next = 0]
    BY DEF Sent
  <2> HIDE DEF s
  <2>3. QED
    BY <2>1, <2>2
<1>3. CASE session' = [s EXCEPT !.list = f.list, !.next = f.n + 1]
  BY <1>1, <1>2, <1>3 DEF Sessions
<1>4. CASE session' = [s EXCEPT !.list = None, !.next = 0]
  BY <1>2, <1>4 DEF Sessions
<1>5. QED
  BY <1>2, <1>3, <1>4

\* The events shown are events, no more than there is room for.
LEMMA ShownType ==
  ASSUME NEW f \in Frames, f.cmd = "CAL_EVENT", text \in Seq(Lists \X Nat), Len(text) <= Room
  PROVE  shown(f) \in Seq(Lists \X Nat) /\ Len(shown(f)) <= Room
<1>1. <<f.list, f.n>> \in Lists \X Nat /\ Room \in Nat
  BY FrameParts, FirmwareAssumption DEF FirmwareAssumption
<1>2. DEFINE kept == IF f.n = 0 THEN <<>> ELSE text
<1>3. kept \in Seq(Lists \X Nat) /\ Len(kept) <= Room
  BY <1>1
<1>4. HIDE DEF kept
<1>5. CASE Len(kept) < Room
  <2>1. Append(kept, <<f.list, f.n>>) \in Seq(Lists \X Nat)
        /\ Len(Append(kept, <<f.list, f.n>>)) = Len(kept) + 1 /\ Len(kept) \in Nat
    BY <1>1, <1>3
  <2>2. shown(f) = Append(kept, <<f.list, f.n>>)
    BY <1>5 DEF shown, kept
  <2>3. QED
    BY <2>1, <2>2, <1>1, <1>5
<1>6. CASE ~(Len(kept) < Room)
  <2>1. shown(f) = kept
    BY <1>6 DEF shown, kept
  <2>2. QED
    BY <2>1, <1>3
<1>7. QED
  BY <1>5, <1>6

-----------------------------------------------------------------------------
(* Types *)

\* An attempt to connect, made at any ages, leaves the types of what it sets.
LEMMA ConnectType ==
  ASSUME TypeOK
  PROVE  \A a \in Ages : ws_connect(a) =>
           /\ age' \in Ages /\ link' \in {"down", "up", "half"}
           /\ session' \in Sessions
           /\ dated' \in BOOLEAN /\ memory_first' \in BOOLEAN
<1> SUFFICES ASSUME NEW a \in Ages, ws_connect(a)
    PROVE /\ age' \in Ages /\ link' \in {"down", "up", "half"}
          /\ session' \in Sessions
          /\ dated' \in BOOLEAN /\ memory_first' \in BOOLEAN
  OBVIOUS
<1>1. age' \in Ages
  <2>1. [a EXCEPT !["data"] = 0] \in Ages
    BY StampAges, ClockNames
  <2>2. QED
    BY <2>1 DEF ws_connect
<1>2. link' \in {"down", "up", "half"}
  BY DEF ws_connect, Hang, TypeOK
<1>3. session' \in Sessions
  <2>1. session' \in {session, NoSession, [NoSession EXCEPT !.heard = "hello"]}
    BY DEF ws_connect, Hang
  <2>2. QED
    BY <2>1 DEF TypeOK, NoSession, Sessions
<1>4. dated' \in BOOLEAN
  BY DEF ws_connect, TypeOK
<1>5. memory_first' \in BOOLEAN
  BY DEF ws_connect, TypeOK
<1>6. QED
  BY <1>1, <1>2, <1>3, <1>4, <1>5

\* The doorbell screen after the check of its time-out.
LEMMA DismissedType ==
  ASSUME NEW b \in [on : BOOLEAN, timeout : Timeouts \cup {0}], NEW a \in Ages
  PROVE  dismissed(b, a) \in [on : BOOLEAN, timeout : Timeouts \cup {0}]
BY DEF dismissed, Dark

\* The parts of the types that the steps touch.
PcType == pc \in {"setup", "top", "wifi", "waiting", "connect", "receive", "sample", "act"}
LinkType == wifi \in BOOLEAN /\ link \in {"down", "up", "half"}
SessionType ==
  session \in Sessions
SlotType == slot \in Frames \cup {None}
FlagType == dated \in BOOLEAN /\ memory_first \in BOOLEAN /\ broken \in BOOLEAN /\ refused \in BOOLEAN
            /\ blocked \in Nat
TextType == text \in Seq(Lists \X Nat) /\ Len(text) <= Room
BellType == bell \in [on : BOOLEAN, timeout : Timeouts \cup {0}]

\* The types are their parts.
LEMMA TypeParts ==
  TypeOK <=> /\ PcType /\ LinkType /\ SessionType /\ SlotType /\ age \in Ages
             /\ FlagType /\ TextType /\ BellType
BY DEF TypeOK, PcType, LinkType, Sessions, SessionType, SlotType, Ages, FlagType, TextType, BellType

\* The ages with the board just switched on.
LEMMA ZeroAges == [c \in Clocks |-> 0] \in Ages
BY ClockNames DEF Ages

\* A board that was just switched on.
LEMMA PowerOnType ==
  ASSUME PowerOn
  PROVE  PcType /\ link \in {"down"} /\ SessionType /\ SlotType /\ age \in Ages /\ TextType /\ BellType
         /\ dated = FALSE /\ memory_first = TRUE /\ broken = FALSE /\ blocked = 0
<1>1. TextType
  BY FirmwareAssumption DEF PowerOn, TextType, FirmwareAssumption
<1>2. age \in Ages
  BY ZeroAges DEF PowerOn
<1>3. SessionType /\ SlotType /\ BellType
  BY DEF PowerOn, SessionType, SlotType, BellType, Sessions, NoSession, Dark
<1>4. QED
  BY <1>1, <1>2, <1>3 DEF PowerOn, PcType

\* Every behaviour keeps the variables within their types.
THEOREM FirmwareTypeCorrect == Spec => []TypeOK
<1>1. Init => TypeOK
  <2> SUFFICES ASSUME Init PROVE TypeOK
    OBVIOUS
  <2>1. LinkType /\ FlagType
    <3>1. PowerOn /\ wifi \in BOOLEAN /\ refused = FALSE
      BY DEF Init
    <3>2. link = "down" /\ dated = FALSE /\ memory_first = TRUE /\ broken = FALSE /\ blocked = 0
      BY <3>1 DEF PowerOn
    <3>3. QED
      BY <3>1, <3>2 DEF LinkType, FlagType
  <2>2. QED
    BY <2>1, PowerOnType, TypeParts DEF Init
<1>2. TypeOK /\ [Next]_vars => TypeOK'
  <2> SUFFICES ASSUME TypeOK, [Next]_vars PROVE TypeOK'
    OBVIOUS
  <2> USE DEF display, net
  <2>0. PcType /\ LinkType /\ SessionType /\ SlotType /\ age \in Ages /\ FlagType /\ TextType /\ BellType
    BY TypeParts
  <2>s. SUFFICES /\ PcType' /\ LinkType' /\ SessionType' /\ SlotType' /\ age' \in Ages
                 /\ FlagType' /\ TextType' /\ BellType'
    BY DEF TypeOK, PcType, LinkType, Sessions, SessionType, SlotType, Ages, FlagType, TextType, BellType
  <2>1. CASE Setup
    <3>1. ws_connect(age)
      BY <2>1 DEF Setup
    <3>2. age' \in Ages /\ link' \in {"down", "up", "half"} /\ SessionType'
          /\ dated' \in BOOLEAN /\ memory_first' \in BOOLEAN
      BY <3>1, <2>0, ConnectType DEF SessionType
    <3>3. PcType' /\ SlotType' /\ TextType' /\ BellType'
      BY <2>0, <2>1 DEF Setup, PcType, SlotType, TextType, BellType
    <3>4. LinkType' /\ FlagType'
      BY <2>0, <2>1, <3>2 DEF Setup, LinkType, FlagType
    <3>5. QED
      BY <3>2, <3>3, <3>4
  <2>2. CASE Top \/ wifi_connect
    <3>1. [age EXCEPT !["fed"] = 0] \in Ages
      BY <2>0, StampAges, ClockNames
    <3>2. age' \in Ages
      BY <2>2, <3>1, LaterAges, Durations DEF Top, wifi_connect
    <3>3. QED
      BY <2>0, <2>2, <3>2 DEF Top, wifi_connect, PcType, LinkType, SessionType, SlotType, FlagType, TextType, BellType
  <2>w. CASE wifi_begin
    <3>1. PICK d \in 0..BeginMax : age' = Later(age, d) /\ blocked' = blocked + d
      BY <2>w DEF wifi_begin
    <3>2. d \in Nat
      BY Durations
    <3>3. age' \in Ages /\ blocked' \in Nat
      BY <2>0, <3>1, <3>2, LaterAges DEF FlagType
    <3>4. QED
      BY <2>0, <2>w, <3>3 DEF wifi_begin, PcType, LinkType, SessionType, SlotType, FlagType, TextType, BellType
  <2>3. CASE CheckStale
    <3>1. link' \in {"down", "up", "half"} /\ SessionType'
      <4>1. Hang \/ UNCHANGED <<link, session>>
        BY <2>3 DEF CheckStale
      <4>2. QED
        BY <4>1, <2>0 DEF Hang, NoSession, Sessions, SessionType, LinkType
    <3>2. QED
      BY <2>0, <2>3, <3>1 DEF CheckStale, PcType, LinkType, SlotType, FlagType, TextType, BellType
  <2>4. CASE Connect
    <3>1. /\ age' \in Ages /\ link' \in {"down", "up", "half"} /\ SessionType'
          /\ dated' \in BOOLEAN /\ memory_first' \in BOOLEAN
      <4>1. CASE UNCHANGED <<link, session, age, dated, memory_first, blocked>>
        BY <4>1, <2>0 DEF LinkType, SessionType, FlagType
      <4>2. ASSUME NEW d \in 0..ConnectMax,
                   ws_connect(Later(Kicked([age EXCEPT !["attempt"] = 0]), d))
            PROVE  /\ age' \in Ages /\ link' \in {"down", "up", "half"} /\ SessionType'
                   /\ dated' \in BOOLEAN /\ memory_first' \in BOOLEAN
        <5>1. [age EXCEPT !["attempt"] = 0] \in Ages
          BY <2>0, StampAges, ClockNames
        <5>2. Kicked([age EXCEPT !["attempt"] = 0]) \in Ages
          BY <5>1, StampAges, ClockNames DEF Kicked
        <5>3. Later(Kicked([age EXCEPT !["attempt"] = 0]), d) \in Ages
          BY <5>2, LaterAges, Durations
        <5>4. QED
          BY <4>2, <5>3, ConnectType DEF SessionType
      <4>3. QED
        BY <2>4, <4>1, <4>2 DEF Connect
    <3>2. QED
      BY <2>0, <2>4, <3>1 DEF Connect, PcType, LinkType, SlotType, FlagType, TextType, BellType
  <2>5. CASE NothingRead
    BY <2>0, <2>5 DEF NothingRead, PcType, LinkType, SessionType, SlotType, FlagType, TextType, BellType
  <2>6. ASSUME NEW f \in Frames, ws_loop(f)
        PROVE  TypeOK'
    <3>1. age' \in Ages
      BY <2>0, <2>6, LaterAges, Durations DEF ws_loop
    <3>2. SessionType'
      <4>1. CASE f.cmd = "CAL_EVENT"
        BY <4>1, <2>0, <2>6, SentParts DEF ws_loop, SessionType
      <4>2. CASE f.cmd # "CAL_EVENT"
        BY <4>2, <2>0, <2>6 DEF ws_loop, Sent, SessionType
      <4>3. QED
        BY <4>1, <4>2
    <3>3. SlotType' /\ PcType' /\ TextType' /\ BellType' /\ LinkType'
      BY <2>0, <2>6 DEF ws_loop, SlotType, PcType, TextType, BellType, LinkType
    <3>4. broken' \in BOOLEAN
      BY <2>0, <2>6, Zenon DEF ws_loop, FlagType
    <3>5. FlagType'
      BY <3>4, <2>0, <2>6 DEF ws_loop, FlagType
    <3>6. QED
      BY <3>1, <3>2, <3>3, <3>5 DEF TypeOK, PcType, LinkType, Sessions, SessionType, SlotType, Ages, FlagType, TextType, BellType
  <2>7. CASE ws_send_memory
    <3>1. age' \in Ages
      <4>1. [age EXCEPT !["sample"] = 0] \in Ages
        BY <2>0, StampAges, ClockNames
      <4>2. [[age EXCEPT !["sample"] = 0] EXCEPT !["heard"] = 0] \in Ages
        BY <4>1, StampAges, ClockNames
      <4>3. QED
        BY <2>0, <2>7, <4>1, <4>2 DEF ws_send_memory
    <3>2. SessionType'
      <4>1. session' \in {session, NoSession, [session EXCEPT !.heard = "sample"]}
        BY <2>7 DEF ws_send_memory, Hang
      <4>2. QED
        BY <4>1, <2>0 DEF SessionType, Sessions, NoSession
    <3>3. LinkType'
      BY <2>0, <2>7 DEF ws_send_memory, LinkType, Hang
    <3>4. refused' \in BOOLEAN
      BY <2>0, <2>7, Zenon DEF ws_send_memory, FlagType
    <3>5. memory_first' \in BOOLEAN
      BY <2>0, <2>7 DEF ws_send_memory, sampled, FlagType
    <3>6. FlagType' /\ PcType' /\ SlotType' /\ TextType' /\ BellType'
      BY <3>4, <3>5, <2>0, <2>7 DEF ws_send_memory, FlagType, PcType, SlotType, TextType, BellType
    <3>7. QED
      BY <3>1, <3>2, <3>3, <3>6
  <2>8. CASE Act
    <3>1. age' \in Ages
      <4>1. restarted(age) \in Ages
        BY <2>0, StampAges, ClockNames DEF restarted
      <4>2. [age EXCEPT !["data"] = 0] \in Ages
        BY <2>0, StampAges, ClockNames
      <4>3. PICK d \in 1..ActMax, u \in {age, restarted(age), [age EXCEPT !["data"] = 0]} :
              age' = Later(u, d)
        BY <2>8 DEF Act
      <4>4. u \in Ages /\ d \in Nat
        BY <2>0, <4>1, <4>2, Durations
      <4>5. QED
        BY <4>3, <4>4, LaterAges
    <3>2. BellType'
      <4>1. dismissed(bell, age) \in [on : BOOLEAN, timeout : Timeouts \cup {0}]
        BY <2>0, DismissedType DEF BellType
      <4>2. ASSUME slot # None, slot.cmd = "DOORBELL"
            PROVE  dismissed([on |-> TRUE, timeout |-> slot.n], restarted(age))
                     \in [on : BOOLEAN, timeout : Timeouts \cup {0}]
        <5>1. restarted(age) \in Ages
          BY <2>0, StampAges, ClockNames DEF restarted
        <5>2. slot.n \in Timeouts
          BY <2>0, <4>2, FrameParts DEF SlotType
        <5>3. QED
          BY <5>1, <5>2, DismissedType
      <4>3. QED
        BY <2>8, <4>1, <4>2 DEF Act, BellType
    <3>3. TextType'
      <4>1. CASE slot # None /\ slot.cmd = "CAL_EVENT" /\ text' = shown(slot)
        BY <4>1, <2>0, ShownType DEF TextType, SlotType
      <4>2. CASE text' = text
        BY <4>2, <2>0 DEF TextType
      <4>3. QED
        BY <2>8, <4>1, <4>2 DEF Act
    <3>4. dated' \in BOOLEAN
      BY <2>0, <2>8 DEF Act, FlagType
    <3>5. broken' \in BOOLEAN
      BY <2>0, <2>8, Zenon DEF Act, FlagType
    <3>6. FlagType'
      BY <3>4, <3>5, <2>0, <2>8 DEF Act, FlagType
    <3>7. PcType' /\ LinkType' /\ SessionType' /\ SlotType'
      BY <2>0, <2>8 DEF Act, PcType, LinkType, SessionType, SlotType
    <3>8. QED
      BY <3>1, <3>2, <3>3, <3>6, <3>7
  <2>9. CASE Environment
    <3> USE DEF board
    <3>1. CASE WifiChanges
      BY <2>0, <3>1 DEF WifiChanges, PcType, LinkType, SessionType, SlotType, FlagType, TextType, BellType
    <3>2. CASE PeerCloses
      BY <2>0, <3>2 DEF PeerCloses, Hang, NoSession, Sessions, PcType, LinkType, SessionType, SlotType, FlagType, TextType, BellType
    <3>3. CASE PeerVanishes
      BY <2>0, <3>3 DEF PeerVanishes, PcType, LinkType, SessionType, SlotType, FlagType, TextType, BellType
    <3>4. CASE Restart
      <4>1. age' \in Ages
        BY <3>4, ZeroAges DEF Restart
      <4>2. TextType'
        BY <3>4, FirmwareAssumption DEF Restart, TextType, FirmwareAssumption
      <4>3. PcType' /\ LinkType' /\ SessionType' /\ SlotType' /\ FlagType' /\ BellType'
        BY <2>0, <3>4 DEF Restart, Hang, NoSession, Sessions, Dark, PcType, LinkType, SessionType, SlotType, FlagType, BellType
      <4>4. QED
        BY <4>1, <4>2, <4>3
    <3>5. QED
      BY <2>9, <3>1, <3>2, <3>3, <3>4 DEF Environment
  <2>10. CASE UNCHANGED vars
    BY <2>0, <2>10 DEF vars, PcType, LinkType, SessionType, SlotType, FlagType, TextType, BellType
  <2>11. QED
    BY <2>1, <2>2, <2>w, <2>3, <2>4, <2>5, <2>6, <2>7, <2>8, <2>9, <2>10 DEF Next, loop,
       TypeOK, PcType, LinkType, Sessions, SessionType, SlotType, Ages, FlagType, TextType, BellType
<1>3. QED
  BY <1>1, <1>2, PTL DEF Spec
-----------------------------------------------------------------------------
(* Time *)

\* How long the watchdog has waited at most: for t, and before that for ota_loop and
\* WiFi.begin, for a round of waiting or for a connection.
Within(t) ==
  \/ age.fed <= ServiceMax + blocked + t
  \/ age.fed <= WaitMax + t
  \/ age.fed <= ConnectMax + t

\* Its wait at each place in the loop.
Fed ==
  /\ pc = "setup" => age.fed = 0
  /\ pc = "wifi" => age.fed <= ServiceMax /\ blocked = 0
  /\ pc \in {"waiting", "connect", "receive"} => Within(0)
  /\ pc \in {"sample", "act"} => Within(ReadMax)
  /\ pc = "top" => Within(ReadMax + ActMax)

\* The doorbell's stamp is that of the latest ring.
Rung(a) == a["bell"] = a["rung"]

\* The server's last sample is no younger than the board's, or old enough.
Spaced(a) == a["heard"] >= a["sample"] \/ a["heard"] >= Rate

\* Time passing: an upper bound on the watchdog's wait, and two relations between ages kept.
LEMMA LaterKeeps ==
  ASSUME NEW a \in Ages, NEW d \in Nat
  PROVE  /\ Later(a, d) \in Ages /\ Later(a, d)["fed"] <= a["fed"] + d
         /\ Rung(a) => Rung(Later(a, d))
         /\ Spaced(a) => Spaced(Later(a, d))
<1> DEFINE u == Later(a, d)
<1>1. /\ u \in Ages
      /\ \A c \in Clocks : u[c] = IF a[c] + d > Limit[c] THEN Limit[c] ELSE a[c] + d
  BY LaterAges
<1> HIDE DEF u
<1>2. /\ a["fed"] \in Nat /\ a["bell"] \in Nat /\ a["rung"] \in Nat /\ a["heard"] \in Nat
      /\ a["sample"] \in Nat /\ Watchdog \in Nat /\ LastTimeout \in Nat /\ Period \in Nat /\ Rate \in Nat
  BY ClockNames DEF Ages
<1>3. /\ u["fed"] = IF a["fed"] + d > Watchdog THEN Watchdog ELSE a["fed"] + d
      /\ u["bell"] = IF a["bell"] + d > LastTimeout THEN LastTimeout ELSE a["bell"] + d
      /\ u["rung"] = IF a["rung"] + d > LastTimeout THEN LastTimeout ELSE a["rung"] + d
      /\ u["heard"] = IF a["heard"] + d > Rate THEN Rate ELSE a["heard"] + d
      /\ u["sample"] = IF a["sample"] + d > Period THEN Period ELSE a["sample"] + d
  BY <1>1, ClockNames
<1>4. u["fed"] <= a["fed"] + d /\ (Rung(a) => Rung(u))
  BY <1>2, <1>3 DEF Rung
<1>5. Spaced(a) => Spaced(u)
  BY <1>2, <1>3 DEF Spaced
<1>6. QED
  BY <1>1, <1>4, <1>5 DEF u

\* A stamp of the watchdog, of an attempt or of a frame leaves both relations.
LEMMA StampKeeps ==
  ASSUME NEW a \in Ages, NEW c \in {"fed", "attempt", "data"}
  PROVE  /\ [a EXCEPT ![c] = 0] \in Ages
         /\ Rung(a) => Rung([a EXCEPT ![c] = 0])
         /\ Spaced(a) => Spaced([a EXCEPT ![c] = 0])
<1>1. c \in Clocks
  BY ClockNames
<1> DEFINE u == [a EXCEPT ![c] = 0]
<1>2. u \in Ages /\ \A k \in Clocks : u[k] = IF k = c THEN 0 ELSE a[k]
  BY <1>1, StampAges
<1> HIDE DEF u
<1>3. u["bell"] = a["bell"] /\ u["rung"] = a["rung"] /\ u["heard"] = a["heard"]
      /\ (u["sample"] = a["sample"])
  BY <1>2, ClockNames
<1>4. u \in Ages /\ (Rung(a) => Rung(u)) /\ (Spaced(a) => Spaced(u))
  BY <1>2, <1>3 DEF Rung, Spaced
<1>5. QED
  BY <1>4 DEF u

\* The ages of an attempt to connect are those it was made at, but for the stamp of data.
LEMMA ConnectKeeps ==
  \A a \in Ages : ws_connect(a) =>
    /\ age' \in Ages /\ age'["fed"] = a["fed"]
    /\ Rung(a) => Rung(age')
    /\ Spaced(a) => Spaced(age')
<1> SUFFICES ASSUME NEW a \in Ages, ws_connect(a)
    PROVE  /\ age' \in Ages /\ age'["fed"] = a["fed"]
           /\ Rung(a) => Rung(age')
           /\ Spaced(a) => Spaced(age')
  OBVIOUS
<1>1. age' = a \/ age' = [a EXCEPT !["data"] = 0]
  BY DEF ws_connect
<1>2. [a EXCEPT !["data"] = 0]["fed"] = a["fed"]
  BY StampAges, ClockNames
<1>3. QED
  BY <1>1, <1>2, StampKeeps

\* What Connect does to the ages.
LEMMA ConnectAges ==
  ASSUME TypeOK, Connect
  PROVE  /\ age' \in Ages
         /\ (age' = age /\ blocked' = blocked) \/ age'["fed"] <= ConnectMax
         /\ Rung(age) => Rung(age')
         /\ Spaced(age) => Spaced(age')
<1>0. age \in Ages
  BY TypeParts
<1>1. CASE age' = age /\ blocked' = blocked
  BY <1>0, <1>1
<1>2. ASSUME NEW d \in 0..ConnectMax,
             ws_connect(Later(Kicked([age EXCEPT !["attempt"] = 0]), d))
      PROVE  /\ age' \in Ages /\ age'["fed"] <= ConnectMax
             /\ Rung(age) => Rung(age')
             /\ Spaced(age) => Spaced(age')
  <2> DEFINE a == [age EXCEPT !["attempt"] = 0]
             k == [a EXCEPT !["fed"] = 0]
             u == Later(k, d)
  <2>1. a \in Ages /\ (Rung(age) => Rung(a)) /\ (Spaced(age) => Spaced(a))
    BY <1>0, StampKeeps
  <2> HIDE DEF a
  <2>2. k \in Ages /\ (Rung(a) => Rung(k)) /\ (Spaced(a) => Spaced(k))
    BY <2>1, StampKeeps
  <2>3. k["fed"] = 0
    BY <2>1, StampAges, ClockNames
  <2> HIDE DEF k
  <2>4. u \in Ages /\ u["fed"] <= 0 + d /\ (Rung(k) => Rung(u)) /\ (Spaced(k) => Spaced(u))
    BY <2>2, <2>3, LaterKeeps, Durations
  <2>5. ws_connect(u)
    BY <1>2 DEF Kicked, a, k
  <2> HIDE DEF u
  <2>6. age' \in Ages /\ age'["fed"] = u["fed"] /\ (Rung(u) => Rung(age')) /\ (Spaced(u) => Spaced(age'))
    BY <2>4, <2>5, ConnectKeeps
  <2>7. age'["fed"] <= ConnectMax
    BY <2>4, <2>6, Durations, ClockNames DEF Ages
  <2>8. QED
    BY <2>1, <2>2, <2>4, <2>6, <2>7
<1>3. QED
  BY <1>1, <1>2 DEF Connect

\* What Act does to the ages.
LEMMA ActAges ==
  ASSUME TypeOK, Act
  PROVE  /\ age' \in Ages
         /\ age'["fed"] <= age["fed"] + ActMax
         /\ Rung(age) => Rung(age')
         /\ Spaced(age) => Spaced(age')
<1>0. age \in Ages /\ age["fed"] \in Nat /\ ActMax \in Nat
  BY TypeParts, ClockNames, Durations DEF Ages
<1>1. PICK d \in 1..ActMax, u \in {age, restarted(age), [age EXCEPT !["data"] = 0]} : age' = Later(u, d)
  BY DEF Act
<1>2. u \in Ages /\ u["fed"] = age["fed"] /\ (Rung(age) => Rung(u)) /\ (Spaced(age) => Spaced(u))
  <2>1. CASE u = age
    BY <2>1, <1>0
  <2>2. CASE u = [age EXCEPT !["data"] = 0]
    <3>1. u["fed"] = age["fed"]
      BY <2>2, <1>0, StampAges, ClockNames
    <3>2. QED
      BY <3>1, <2>2, <1>0, StampKeeps
  <2>3. CASE u = restarted(age)
    <3>1. [age EXCEPT !["rung"] = 0] \in Ages
      BY <1>0, StampAges, ClockNames
    <3>2. u = [[age EXCEPT !["rung"] = 0] EXCEPT !["bell"] = 0]
      BY <2>3 DEF restarted
    <3>3. u \in Ages
      BY <3>1, <3>2, StampAges, ClockNames
    <3>4. u["fed"] = age["fed"] /\ u["bell"] = 0 /\ u["rung"] = 0
          /\ u["heard"] = age["heard"] /\ u["sample"] = age["sample"]
      <4>1. age \in [Clocks -> Nat]
        BY <1>0 DEF Ages
      <4>2. QED
        BY <4>1, <3>2, ClockNames
    <3>5. QED
      BY <3>3, <3>4 DEF Rung, Spaced
  <2>4. QED
    BY <2>1, <2>2, <2>3
<1>3. d \in Nat /\ d <= ActMax
  BY <1>0
<1>4. age' \in Ages /\ age'["fed"] <= u["fed"] + d /\ (Rung(u) => Rung(age')) /\ (Spaced(u) => Spaced(age'))
  BY <1>1, <1>2, <1>3, LaterKeeps
<1>5. age'["fed"] <= age["fed"] + ActMax
  BY <1>0, <1>2, <1>3, <1>4, ClockNames DEF Ages
<1>6. QED
  BY <1>2, <1>4, <1>5

\* What a kick of the watchdog and time passing do to the ages.
LEMMA KickAges ==
  ASSUME TypeOK, NEW d \in Nat
  PROVE  LET u == Later([age EXCEPT !["fed"] = 0], d) IN
         /\ u \in Ages /\ u["fed"] <= d
         /\ Rung(age) => Rung(u)
         /\ Spaced(age) => Spaced(u)
<1> DEFINE k == [age EXCEPT !["fed"] = 0]
<1>1. k \in Ages /\ (Rung(age) => Rung(k)) /\ (Spaced(age) => Spaced(k))
  BY TypeParts, StampKeeps
<1>2. k["fed"] = 0
  BY TypeParts, StampAges, ClockNames
<1> HIDE DEF k
<1>3. Later(k, d) \in Ages /\ Later(k, d)["fed"] <= 0 + d /\ (Rung(k) => Rung(Later(k, d)))
      /\ (Spaced(k) => Spaced(Later(k, d)))
  BY <1>1, <1>2, LaterKeeps
<1>4. QED
  BY <1>1, <1>3 DEF k

\* The watchdog's wait is bounded at every place in the loop, so it is too long only
\* by the time that WiFi.begin took.
THEOREM WatchdogIsFed == Spec => [](Fed /\ WatchdogFed)
<1>0. /\ ServiceMax \in Nat /\ WaitMax \in Nat /\ ConnectMax \in Nat /\ ReadMax \in Nat /\ ActMax \in Nat
      /\ Watchdog \in Nat /\ WaitMax + ReadMax + ActMax < Watchdog /\ ConnectMax + ReadMax + ActMax < Watchdog
  BY FirmwareAssumption DEF FirmwareAssumption
<1>1. Init => Fed
  BY ClockNames DEF Init, PowerOn, Fed
<1>2. TypeOK /\ Fed /\ [Next]_vars => Fed'
  <2> SUFFICES ASSUME TypeOK, Fed, [Next]_vars PROVE Fed'
    OBVIOUS
  <2>0. age \in Ages /\ age["fed"] \in Nat /\ blocked \in Nat
    BY TypeParts, ClockNames DEF Ages, FlagType
  <2>1. CASE Setup
    <3>1. ws_connect(age)
      BY <2>1 DEF Setup
    <3>2. age'["fed"] = 0
      BY <2>1, <3>1, <2>0, ConnectKeeps DEF Setup, Fed
    <3>3. QED
      BY <2>1, <3>2, <2>0, <1>0 DEF Setup, Fed, Within
  <2>2. CASE wifi_connect
    <3>1. PICK d \in 1..WaitMax : age' = Later([age EXCEPT !["fed"] = 0], d)
      BY <2>2 DEF wifi_connect
    <3>2. age'["fed"] <= d /\ age' \in Ages
      <4>1. d \in Nat
        BY <1>0
      <4>2. QED
        BY <3>1, <4>1, KickAges
    <3>3. age'["fed"] <= WaitMax + 0
      BY <3>2, <1>0, ClockNames DEF Ages
    <3>4. QED
      BY <2>2, <3>3 DEF wifi_connect, Fed, Within
  <2>3. CASE Top
    <3>1. PICK d \in 0..ServiceMax : age' = Later([age EXCEPT !["fed"] = 0], d)
      BY <2>3 DEF Top
    <3>2. age'["fed"] <= d /\ age' \in Ages
      <4>1. d \in Nat
        BY <1>0
      <4>2. QED
        BY <3>1, <4>1, KickAges
    <3>3. age'["fed"] <= ServiceMax
      BY <3>2, <1>0, ClockNames DEF Ages
    <3>4. QED
      BY <2>3, <3>3 DEF Top, Fed
  <2>w. CASE wifi_begin
    <3>1. PICK d \in 0..BeginMax : age' = Later(age, d) /\ blocked' = blocked + d
      BY <2>w DEF wifi_begin
    <3>2. d \in Nat
      BY Durations
    <3>3. age'["fed"] <= age["fed"] + d /\ age' \in Ages
      BY <3>1, <3>2, <2>0, LaterKeeps
    <3>4. age["fed"] <= ServiceMax /\ blocked = 0
      BY <2>w DEF wifi_begin, Fed
    <3>5. age'["fed"] <= ServiceMax + blocked' + 0
      BY <3>1, <3>2, <3>3, <3>4, <2>0, <1>0, ClockNames DEF Ages
    <3>6. QED
      BY <2>w, <3>5 DEF wifi_begin, Fed, Within
  <2>c. CASE CheckStale
    <3>1. Within(0)
      BY <2>c, <2>0, <1>0 DEF CheckStale, Fed, Within
    <3>2. QED
      BY <2>c, <3>1 DEF CheckStale, Fed, Within
  <2>4. CASE Connect
    <3>1. (age' = age /\ blocked' = blocked) \/ age'["fed"] <= ConnectMax
      BY <2>4, ConnectAges
    <3>2. Within(0)'
      BY <2>4, <3>1, <1>0 DEF Connect, Fed, Within
    <3>3. QED
      BY <2>4, <3>2 DEF Connect, Fed
  <2>5. CASE NothingRead
    <3>1. Within(ReadMax)
      BY <2>5, <2>0, <1>0 DEF NothingRead, Fed, Within
    <3>2. QED
      BY <2>5, <3>1 DEF NothingRead, Fed, Within
  <2>6. ASSUME NEW f \in Frames, ws_loop(f)
        PROVE  Fed'
    <3>1. PICK d \in 0..ReadMax : age' = Later(age, d)
      BY <2>6 DEF ws_loop
    <3>2. age'["fed"] <= age["fed"] + d /\ age' \in Ages
      <4>1. d \in Nat
        BY <1>0
      <4>2. QED
        BY <3>1, <4>1, <2>0, LaterKeeps
    <3>3. Within(0) /\ blocked' = blocked /\ pc' = "sample"
      BY <2>6 DEF ws_loop, Fed
    <3>4. age'["fed"] \in Nat
      BY <3>2, ClockNames DEF Ages
    <3>5. Within(ReadMax)'
      BY <3>2, <3>3, <3>4, <2>0, <1>0 DEF Within
    <3>6. QED
      BY <3>3, <3>5 DEF Fed
  <2>7. CASE ws_send_memory
    <3>1. age'["fed"] = age["fed"]
      BY <2>7, <2>0, ClockNames DEF ws_send_memory, Ages
    <3>2. QED
      BY <2>7, <3>1 DEF ws_send_memory, Fed, Within
  <2>8. CASE Act
    <3>1. age'["fed"] <= age["fed"] + ActMax /\ age' \in Ages
      BY <2>8, ActAges
    <3>2. Within(ReadMax) /\ blocked' = blocked /\ pc' = "top"
      BY <2>8 DEF Act, Fed
    <3>3. age'["fed"] \in Nat
      BY <3>1, ClockNames DEF Ages
    <3>4. Within(ReadMax + ActMax)'
      BY <3>1, <3>2, <3>3, <2>0, <1>0 DEF Within
    <3>5. QED
      BY <3>2, <3>4 DEF Fed
  <2>9. CASE WifiChanges \/ PeerCloses \/ PeerVanishes
    BY <2>9 DEF WifiChanges, PeerCloses, PeerVanishes, board, Fed, Within
  <2>10. CASE Restart
    BY <2>10, ClockNames DEF Restart, Fed
  <2>11. CASE UNCHANGED vars
    BY <2>11 DEF vars, Fed, Within
  <2>12. QED
    BY <2>1, <2>2, <2>3, <2>w, <2>c, <2>4, <2>5, <2>6, <2>7, <2>8, <2>9, <2>10, <2>11 DEF Next, loop, Environment
<1>3. TypeOK /\ Fed => WatchdogFed
  <2> SUFFICES ASSUME TypeOK, Fed PROVE WatchdogFed
    OBVIOUS
  <2>1. age["fed"] \in Nat /\ blocked \in Nat /\ PcType
    BY TypeParts, ClockNames DEF Ages, FlagType
  <2>2. Within(ReadMax + ActMax)
    BY <2>1, <1>0 DEF Fed, Within, PcType
  <2>3. QED
    BY <2>1, <2>2, <1>0 DEF Within, WatchdogFed, Starved
<1>4. QED
  BY <1>1, <1>2, <1>3, FirmwareTypeCorrect, PTL DEF Spec

\* A doorbell is dismissed only once the time-out of the latest ring has passed.
THEOREM DoorbellInTime == Spec => DoorbellTimed
<1>1. Init => Rung(age)
  BY ClockNames DEF Init, PowerOn, Rung
<1>2. TypeOK /\ Rung(age) /\ [Next]_vars => Rung(age)'
  <2> SUFFICES ASSUME TypeOK, Rung(age), [Next]_vars PROVE Rung(age')
    BY DEF Rung
  <2>0. age \in Ages
    BY TypeParts
  <2>1. CASE Setup
    BY <2>1, <2>0, ConnectKeeps DEF Setup
  <2>2. CASE wifi_connect \/ Top
    BY <2>2, KickAges, Durations DEF wifi_connect, Top
  <2>3. CASE wifi_begin
    BY <2>3, <2>0, LaterKeeps, Durations DEF wifi_begin
  <2>4. CASE Connect
    BY <2>4, ConnectAges
  <2>5. CASE NothingRead \/ CheckStale \/ WifiChanges \/ PeerCloses \/ PeerVanishes \/ UNCHANGED vars
    BY <2>5 DEF NothingRead, CheckStale, WifiChanges, PeerCloses, PeerVanishes, board, vars
  <2>6. ASSUME NEW f \in Frames, ws_loop(f)
        PROVE  Rung(age')
    BY <2>6, <2>0, LaterKeeps, Durations DEF ws_loop
  <2>7. CASE ws_send_memory
    BY <2>7, <2>0, ClockNames DEF ws_send_memory, Ages, Rung
  <2>8. CASE Act
    BY <2>8, ActAges
  <2>9. CASE Restart
    BY <2>9, ClockNames DEF Restart, Rung
  <2>10. QED
    BY <2>1, <2>2, <2>3, <2>4, <2>5, <2>6, <2>7, <2>8, <2>9 DEF Next, loop, Environment
<1>3. ASSUME TypeOK, Rung(age), [Next]_vars, bell.on, ~bell'.on, pc' # "setup"
      PROVE  /\ bell.timeout > 0 /\ age.rung >= bell.timeout
             /\ (slot = None \/ slot.cmd # "DOORBELL")
  <2>1. Act
    BY <1>3 DEF Next, loop, Environment, Setup, Top, wifi_begin, wifi_connect, CheckStale, Connect, NothingRead, ws_loop,
       ws_send_memory, WifiChanges, PeerCloses, PeerVanishes, Restart, board, display, vars
  <2>2. ASSUME slot # None, slot.cmd = "DOORBELL"
        PROVE  FALSE
    <3>1. bell' = dismissed([on |-> TRUE, timeout |-> slot.n], restarted(age))
      BY <2>1, <2>2 DEF Act, Other, Frame
    <3>2. slot.n \in Nat
      <4>1. slot \in Frames
        BY <1>3, <2>2, TypeParts DEF SlotType
      <4>2. slot.n \in Timeouts
        BY <2>2, <4>1, FrameParts
      <4>3. Timeouts \subseteq 0..LastTimeout /\ LastTimeout \in Nat
        BY FirmwareAssumption DEF FirmwareAssumption
      <4>4. slot.n \in 0..LastTimeout
        BY <4>2, <4>3
      <4>5. QED
        BY <4>4
    <3>3. restarted(age)["bell"] = 0
      BY <1>3, TypeParts, ClockNames DEF restarted, Ages
    <3>4. bell'.on
      BY <3>1, <3>2, <3>3 DEF dismissed
    <3>5. QED
      BY <3>4, <1>3
  <2>3. bell' = dismissed(bell, age)
    BY <2>1, <2>2 DEF Act
  <2>4. bell.timeout > 0 /\ age.bell >= bell.timeout
    BY <2>3, <1>3 DEF dismissed
  <2>5. QED
    BY <2>2, <2>4, <1>3 DEF Rung
<1>4. QED
  BY <1>1, <1>2, <1>3, FirmwareTypeCorrect, PTL DEF Spec, DoorbellTimed

\* Every memory sample the board sends comes after HELLO and apart from the last.
Samples ==
  /\ ~refused
  /\ link = "up" => session.heard # "nothing"
  /\ session.heard = "sample" => ~memory_first /\ Spaced(age)

\* The adapter takes every memory sample that reaches it.
THEOREM SamplesAreAccepted == Spec => [](Samples /\ SamplesAccepted)
<1>1. Init => Samples
  BY DEF Init, PowerOn, NoSession, Samples
<1>2. TypeOK /\ Samples /\ [Next]_vars => Samples'
  <2> SUFFICES ASSUME TypeOK, Samples, [Next]_vars PROVE Samples'
    OBVIOUS
  <2> USE DEF display, net
  <2>0. age \in Ages /\ SessionType
    BY TypeParts
  <2>a. ASSUME NEW a \in Ages, Spaced(age) => Spaced(a), Spaced(a) => Spaced(age'),
               ws_connect(a), UNCHANGED refused
        PROVE  Samples'
    <3>1. \/ UNCHANGED <<link, session, memory_first>>
          \/ session' = NoSession /\ link' = "down"
          \/ session' = [NoSession EXCEPT !.heard = "hello"] /\ link' = "up"
      BY <2>a DEF ws_connect, Hang
    <3>2. CASE UNCHANGED <<link, session, memory_first>>
      BY <2>a, <3>2 DEF Samples
    <3>3. CASE session' = NoSession /\ link' = "down"
      BY <2>a, <3>3 DEF Samples, NoSession
    <3>4. CASE session' = [NoSession EXCEPT !.heard = "hello"] /\ link' = "up"
      BY <2>a, <3>4 DEF Samples, NoSession
    <3>5. QED
      BY <3>1, <3>2, <3>3, <3>4
  <2>b. ASSUME Spaced(age) => Spaced(age'), UNCHANGED <<refused, memory_first>>,
               Hang \/ UNCHANGED <<link, session>>
        PROVE  Samples'
    BY <2>b DEF Samples, Hang, NoSession
  <2>1. CASE Setup
    BY <2>1, <2>0, <2>a, ConnectKeeps DEF Setup
  <2>2. CASE wifi_connect \/ Top
    <3>1. Spaced(age) => Spaced(age')
      BY <2>2, KickAges, Durations DEF wifi_connect, Top
    <3>2. QED
      BY <2>2, <2>b, <3>1 DEF wifi_connect, Top
  <2>w. CASE wifi_begin
    <3>1. Spaced(age) => Spaced(age')
      BY <2>w, <2>0, LaterKeeps, Durations DEF wifi_begin
    <3>2. QED
      BY <2>w, <2>b, <3>1 DEF wifi_begin
  <2>3. CASE CheckStale
    BY <2>3, <2>b DEF CheckStale
  <2>4. CASE Connect
    <3>1. Spaced(age) => Spaced(age')
      BY <2>4, ConnectAges
    <3>2. CASE UNCHANGED <<link, session, age, dated, memory_first, blocked>>
      BY <2>4, <3>2, <2>b DEF Connect
    <3>3. CASE \E d \in 0..ConnectMax : ws_connect(Later(Kicked([age EXCEPT !["attempt"] = 0]), d))
      <4>1. \/ UNCHANGED <<link, session, memory_first>>
            \/ session' = NoSession /\ link' = "down"
            \/ session' = [NoSession EXCEPT !.heard = "hello"] /\ link' = "up"
        BY <3>3 DEF ws_connect, Hang
      <4>2. UNCHANGED refused
        BY <2>4 DEF Connect
      <4>3. CASE UNCHANGED <<link, session, memory_first>>
        BY <4>3, <4>2, <2>b, <3>1
      <4>4. CASE session' = NoSession /\ link' = "down"
        BY <4>4, <4>2 DEF Samples, NoSession
      <4>5. CASE session' = [NoSession EXCEPT !.heard = "hello"] /\ link' = "up"
        BY <4>5, <4>2 DEF Samples, NoSession
      <4>6. QED
        BY <4>1, <4>3, <4>4, <4>5
    <3>4. QED
      BY <2>4, <3>2, <3>3 DEF Connect
  <2>5. CASE NothingRead
    BY <2>5, <2>b DEF NothingRead
  <2>6. ASSUME NEW f \in Frames, ws_loop(f)
        PROVE  Samples'
    <3>1. Spaced(age) => Spaced(age')
      BY <2>6, <2>0, LaterKeeps, Durations DEF ws_loop
    <3>2. session'.heard = session.heard
      <4>1. CASE f.cmd = "CAL_EVENT"
        BY <4>1, <2>6, <2>0, SentParts DEF ws_loop, SessionType
      <4>2. CASE f.cmd # "CAL_EVENT"
        BY <4>2, <2>6 DEF ws_loop, Sent
      <4>3. QED
        BY <4>1, <4>2
    <3>3. QED
      BY <2>6, <3>1, <3>2 DEF ws_loop, Samples
  <2>7. CASE ws_send_memory
    <3>1. CASE UNCHANGED <<link, session, age, memory_first, refused>>
      BY <3>1, <2>b
    <3>2. CASE link # "down" /\ (memory_first \/ age.sample >= Period)
      <4>0. /\ age["heard"] \in Nat /\ age["sample"] \in Nat /\ Period \in Nat /\ Rate \in Nat
            /\ Rate <= Period
        BY <2>0, ClockNames, FirmwareAssumption DEF Ages, FirmwareAssumption
      <4>1. ~memory_first'
        BY <2>7, <3>2 DEF ws_send_memory, sampled
      <4>2. CASE age' = [age EXCEPT !["sample"] = 0] /\ UNCHANGED <<link, session, refused>>
        <5>1. age'["sample"] = 0 /\ age'["heard"] = age["heard"]
          BY <4>2, <2>0, ClockNames DEF Ages
        <5>2. Spaced(age')
          BY <5>1, <4>0 DEF Spaced
        <5>3. QED
          BY <5>2, <4>1, <4>2 DEF Samples
      <4>3. CASE /\ link = "up"
                 /\ age' = [age EXCEPT !["sample"] = 0, !["heard"] = 0]
                 /\ session' = [session EXCEPT !.heard = "sample"]
                 /\ refused' = (refused \/ session.heard = "nothing"
                                   \/ (session.heard = "sample" /\ age.heard < Rate))
                 /\ UNCHANGED link
        <5>1. age'["sample"] = 0 /\ age'["heard"] = 0
          BY <4>3, <2>0, ClockNames DEF Ages
        <5>2. Spaced(age')
          BY <5>1 DEF Spaced
        <5>3. session'.heard = "sample"
          BY <4>3, <2>0 DEF SessionType, Sessions
        <5>4. ~(session.heard = "sample" /\ age.heard < Rate)
          <6>1. SUFFICES ASSUME session.heard = "sample" PROVE ~(age.heard < Rate)
            OBVIOUS
          <6>2. age.sample >= Period /\ Spaced(age)
            BY <6>1, <3>2 DEF Samples
          <6>3. QED
            BY <6>2, <4>0 DEF Spaced
        <5>5. ~refused /\ session.heard # "nothing"
          BY <4>3 DEF Samples
        <5>6. ~refused'
          BY <4>3, <5>4, <5>5, Zenon
        <5>7. QED
          BY <5>2, <5>3, <5>6, <4>1 DEF Samples
      <4>4. CASE Hang /\ UNCHANGED refused
        BY <4>4 DEF Hang, NoSession, Samples
      <4>5. QED
        BY <2>7, <3>2, <4>2, <4>3, <4>4 DEF ws_send_memory
    <3>3. QED
      BY <2>7, <3>1, <3>2 DEF ws_send_memory
  <2>8. CASE Act
    BY <2>8, <2>b, ActAges DEF Act
  <2>9. CASE WifiChanges \/ PeerCloses
    BY <2>9, <2>b DEF WifiChanges, PeerCloses, board
  <2>10. CASE PeerVanishes
    BY <2>10 DEF PeerVanishes, board, Samples
  <2>11. CASE Restart
    BY <2>11 DEF Restart, Hang, NoSession, Samples
  <2>12. CASE UNCHANGED vars
    BY <2>12, <2>b DEF vars
  <2>13. QED
    BY <2>1, <2>2, <2>w, <2>3, <2>4, <2>5, <2>6, <2>7, <2>8, <2>9, <2>10, <2>11, <2>12
       DEF Next, loop, Environment
<1>3. Samples => SamplesAccepted
  BY DEF Samples, SamplesAccepted
<1>4. QED
  BY <1>1, <1>2, <1>3, FirmwareTypeCorrect, PTL DEF Spec
-----------------------------------------------------------------------------
(* The calendar *)

Shows(q, l, n) == Len(q) = n /\ \A i \in 1..n : q[i] = <<l, i - 1>>
Beginning(q) == q = <<>> \/ \E l \in Lists : Len(q) <= Size[l] /\ Shows(q, l, Len(q))

\* Showing the next event of a calendar, or the first of one, shows a beginning of it.
LEMMA ShownNext ==
  ASSUME NEW f \in Frames, f.cmd = "CAL_EVENT", text \in Seq(Lists \X Nat), Len(text) <= Room,
         f.n > 0 => Shows(text, f.list, f.n)
  PROVE  Shows(shown(f), f.list, f.n + 1)
<1>1. f.list \in Lists /\ f.n \in Nat /\ f.n + 1 \in 1..Room /\ Room \in Nat
  BY FrameParts, FirmwareAssumption DEF FirmwareAssumption
<1>2. PICK q \in Seq(Lists \X Nat) : q = IF f.n = 0 THEN <<>> ELSE text
  <2>1. (IF f.n = 0 THEN <<>> ELSE text) \in Seq(Lists \X Nat)
    OBVIOUS
  <2>2. QED
    BY <2>1
<1>3. Shows(q, f.list, f.n)
  <2>1. CASE f.n = 0
    BY <1>2, <2>1 DEF Shows
  <2>2. CASE f.n # 0
    BY <1>1, <1>2, <2>2 DEF Shows
  <2>3. QED
    BY <2>1, <2>2
<1>4. shown(f) = Append(q, <<f.list, f.n>>)
  BY <1>1, <1>2, <1>3 DEF shown, Shows
<1>5. <<f.list, f.n>> \in Lists \X Nat
  BY <1>1
<1>6. SUFFICES Shows(Append(q, <<f.list, f.n>>), f.list, f.n + 1)
  BY <1>4
<1>7. Len(Append(q, <<f.list, f.n>>)) = f.n + 1
  BY <1>2, <1>3, <1>5 DEF Shows
<1>8. ASSUME NEW i \in 1..f.n + 1
      PROVE  Append(q, <<f.list, f.n>>)[i] = <<f.list, i - 1>>
  <2>1. CASE i = f.n + 1
    <3>1. Append(q, <<f.list, f.n>>)[Len(q) + 1] = <<f.list, f.n>>
      BY <1>2, <1>5
    <3>2. Len(q) = f.n /\ i - 1 = f.n
      BY <1>3, <1>1, <2>1 DEF Shows
    <3>3. QED
      BY <3>1, <3>2, <2>1
  <2>2. CASE i # f.n + 1
    <3>1. i \in 1..f.n
      BY <1>1, <2>2
    <3>2. Append(q, <<f.list, f.n>>)[i] = q[i]
      BY <1>2, <1>3, <1>5, <3>1 DEF Shows
    <3>3. QED
      BY <1>3, <3>1, <3>2 DEF Shows
  <2>3. QED
    BY <2>1, <2>2
<1>9. QED
  BY <1>7, <1>8 DEF Shows

\* The slot holds an event of the calendar the server is sending, the next after
\* those shown, and nothing is in it when a frame is read.
Event == slot # None /\ slot.cmd = "CAL_EVENT"
Calendar ==
  /\ slot # None => pc \in {"sample", "act"}
  /\ (Event /\ session.list # None) => slot.list = session.list /\ session.next = slot.n + 1
  /\ ~broken =>
       /\ Beginning(text)
       /\ (session.list # None /\ ~Event) => Shows(text, session.list, session.next)
       /\ (Event /\ slot.n > 0) => Shows(text, slot.list, slot.n)

\* What leaves the slot, the display and the calendar under way alone, or ends the session.
LEMMA CalendarKept ==
  ASSUME Calendar, UNCHANGED <<slot, text, broken>>,
         session'.list = None \/ (session'.list = session.list /\ session'.next = session.next),
         slot # None => pc' \in {"sample", "act"}
  PROVE  Calendar'
<1>1. Event' <=> Event
  BY DEF Event
<1>2. QED
  BY <1>1 DEF Calendar

\* The calendar is whole unless a frame of it was dropped.
THEOREM CalendarIsWhole == Spec => [](Calendar /\ CalendarWhole)
<1>1. Init => Calendar
  BY DEF Init, PowerOn, NoSession, Calendar, Event, Beginning
<1>2. TypeOK /\ Calendar /\ [Next]_vars => Calendar'
  <2> SUFFICES ASSUME TypeOK, Calendar, [Next]_vars PROVE Calendar'
    OBVIOUS
  <2> USE DEF display, net
  <2>0. SessionType /\ SlotType /\ TextType
    BY TypeParts
  <2>1. CASE Setup \/ Connect
    <3>1. session'.list = None \/ (session'.list = session.list /\ session'.next = session.next)
      BY <2>1 DEF Setup, Connect, ws_connect, Hang, NoSession
    <3>2. slot = None
      BY <2>1 DEF Setup, Connect, Calendar
    <3>3. UNCHANGED <<slot, text, broken>>
      BY <2>1 DEF Setup, Connect
    <3>4. QED
      BY <3>1, <3>2, <3>3, CalendarKept
  <2>2. CASE Top \/ wifi_begin \/ wifi_connect \/ NothingRead
    BY <2>2, CalendarKept DEF Top, wifi_begin, wifi_connect, NothingRead, Calendar
  <2>3. CASE CheckStale
    <3>1. session'.list = None \/ (session'.list = session.list /\ session'.next = session.next)
      BY <2>3 DEF CheckStale, Hang, NoSession
    <3>2. slot = None /\ UNCHANGED <<slot, text, broken>>
      BY <2>3 DEF CheckStale, Calendar
    <3>3. QED
      BY <3>1, <3>2, CalendarKept
  <2>4. ASSUME NEW f \in Frames, ws_loop(f)
        PROVE  Calendar'
    <3>0. /\ slot = None /\ text' = text /\ pc' = "sample" /\ f # None /\ ~Event
          /\ Sends(f) /\ Sent(f)
          /\ \/ slot' = f /\ broken' = (broken \/ Resumes(f))
             \/ slot' = None /\ broken' = (broken \/ f.cmd = "CAL_EVENT")
      BY <2>4, FrameParts DEF ws_loop, Calendar, Event
    <3>1. CASE f.cmd # "CAL_EVENT"
      <4>1. session' = session /\ ~Event'
        BY <3>0, <3>1 DEF Sent, Event
      <4>2. broken' <=> broken
        <5>1. ~Resumes(f)
          BY <3>1 DEF Resumes
        <5>2. QED
          BY <3>0, <3>1, <5>1, Zenon
      <4>3. QED
        BY <3>0, <4>1, <4>2 DEF Calendar
    <3>2. CASE f.cmd = "CAL_EVENT" /\ slot' = f /\ broken' = (broken \/ Resumes(f))
      <4>1. f.list \in Lists /\ f.list # None /\ f.n \in Nat
        BY <3>2, FrameParts, FirmwareAssumption DEF FirmwareAssumption
      <4>2. Event' /\ (session'.list # None => f.list = session'.list /\ session'.next = f.n + 1)
        BY <2>0, <3>0, <3>2, SentParts DEF Event, SessionType
      <4>3. ASSUME ~broken', f.n > 0
            PROVE  ~broken /\ Shows(text, f.list, f.n)
        <5>1. ~broken /\ ~Resumes(f)
          BY <3>2, <4>3, Zenon
        <5>2. f.list = session.list /\ f.n = session.next
          BY <3>0, <3>2, <4>1, <4>3, <5>1 DEF Sends, Continues, Data, Other, Frame
        <5>3. QED
          BY <5>1, <5>2, <4>1, <3>0 DEF Calendar
      <4>4. ~broken' => ~broken
        BY <3>2, Zenon
      <4>5. ~broken' => Beginning(text')
        BY <3>0, <4>4 DEF Calendar
      <4>6. QED
        BY <3>0, <3>2, <4>2, <4>3, <4>5 DEF Calendar
    <3>3. CASE f.cmd = "CAL_EVENT" /\ slot' = None /\ broken' = (broken \/ f.cmd = "CAL_EVENT")
      <4>1. broken' /\ ~Event'
        BY <3>3 DEF Event
      <4>2. QED
        BY <3>3, <4>1 DEF Calendar
    <3>4. QED
      BY <3>0, <3>1, <3>2, <3>3
  <2>5. CASE ws_send_memory
    <3>1. session'.list = None \/ (session'.list = session.list /\ session'.next = session.next)
      <4>1. session' \in {session, NoSession, [session EXCEPT !.heard = "sample"]}
        BY <2>5 DEF ws_send_memory, Hang
      <4>2. QED
        BY <4>1, <2>0 DEF SessionType, Sessions, NoSession
    <3>2. UNCHANGED <<slot, text, broken>> /\ pc' = "act"
      BY <2>5 DEF ws_send_memory
    <3>3. QED
      BY <3>1, <3>2, CalendarKept
  <2>6. CASE Act
    <3>0. slot' = None /\ session' = session /\ ~Event'
      BY <2>6 DEF Act, Event
    <3>1. CASE ~Event
      <4>1. UNCHANGED <<text, broken>>
        <5>1. slot = None \/ slot.cmd # "CAL_EVENT"
          BY <3>1 DEF Event
        <5>2. QED
          BY <2>6, <5>1 DEF Act
      <4>2. QED
        BY <3>0, <3>1, <4>1 DEF Calendar
    <3>2. CASE Event
      <4>1. text' = shown(slot) /\ broken' = (broken /\ slot.n # 0)
        BY <2>6, <3>2 DEF Act, Event, Other, Frame
      <4>2. slot \in Frames /\ slot.list \in Lists /\ slot.n \in Nat
            /\ slot.n < Size[slot.list] /\ Size[slot.list] \in Nat
        BY <2>0, <3>2, FrameParts DEF Event, SlotType
      <4>3. ASSUME ~broken'
            PROVE  Shows(text', slot.list, slot.n + 1)
        <5>1. slot.n > 0 => ~broken
          <6>1. slot.n > 0 => slot.n # 0
            BY <4>2
          <6>2. QED
            BY <4>1, <4>3, <6>1, Zenon
        <5>2. slot.n > 0 => Shows(text, slot.list, slot.n)
          BY <5>1, <3>2 DEF Calendar
        <5>3. QED
          BY <4>1, <4>2, <5>2, <2>0, <3>2, ShownNext DEF TextType, Event
      <4>4. ~broken' => Beginning(text')
        <5>1. SUFFICES ASSUME Shows(text', slot.list, slot.n + 1)
                       PROVE  Beginning(text')
          BY <4>3
        <5>2. Len(text') = slot.n + 1 /\ slot.n + 1 <= Size[slot.list]
          BY <5>1, <4>2 DEF Shows
        <5>3. QED
          BY <5>1, <5>2, <4>2 DEF Beginning
      <4>5. (~broken' /\ session.list # None) => Shows(text', session.list, session.next)
        BY <4>3, <3>2 DEF Calendar
      <4>6. QED
        BY <3>0, <4>4, <4>5 DEF Calendar
    <3>3. QED
      BY <3>1, <3>2
  <2>7. CASE WifiChanges \/ PeerCloses \/ PeerVanishes \/ UNCHANGED vars
    <3>1. session'.list = None \/ (session'.list = session.list /\ session'.next = session.next)
      BY <2>7 DEF WifiChanges, PeerCloses, PeerVanishes, Hang, NoSession, vars
    <3>2. UNCHANGED <<pc, slot, text, broken>>
      BY <2>7 DEF WifiChanges, PeerCloses, PeerVanishes, board, vars
    <3>3. QED
      BY <3>1, <3>2, CalendarKept DEF Calendar
  <2>8. CASE Restart
    BY <2>8 DEF Restart, Hang, NoSession, Calendar, Event, Beginning
  <2>9. QED
    BY <2>1, <2>2, <2>3, <2>4, <2>5, <2>6, <2>7, <2>8 DEF Next, loop, Environment
<1>3. Calendar => CalendarWhole
  BY DEF Calendar, CalendarWhole, Event, Beginning, Shows, Whole
<1>4. QED
  BY <1>1, <1>2, <1>3, FirmwareTypeCorrect, PTL DEF Spec
=============================================================================
