------------------------------ MODULE PanelLink ------------------------------
(***************************************************************************)
(* What the transport adapter promises of the updates of one panel,        *)
(* whatever its sessions, queues and tasks go through.  Updates that were  *)
(* accepted stand in one line; the panel is sent the first of the line, so *)
(* in order, each at most once, and only after its HELLO, outside of an    *)
(* OTA update and with no interrupt waiting.  A HELLO or the end of an OTA *)
(* update puts a replay in the place of the line, a new connection clears  *)
(* it.  Nothing else leaves the line but its first, which may be lost.     *)
(***************************************************************************)
EXTENDS Integers, Sequences

CONSTANTS Sessions,    \* connections, as positive numbers
          Room,        \* how long the line may be
          UrgentRoom   \* how many interrupts may wait

VARIABLES
  line,    \* updates on their way, numbered in the order of acceptance
  put,     \* the last update accepted
  sent,    \* the last update sent
  peer,    \* the connection whose panel has said HELLO, or Nobody
  paused,  \* the connection that announced an OTA update, or Nobody
  urgent   \* interrupts waiting

link == <<line, put, sent, peer, paused, urgent>>

Nobody == 0

Init ==
  /\ line = <<>> /\ put = 0 /\ sent = 0
  /\ peer = Nobody /\ paused = Nobody /\ urgent = 0

Put(n) ==
  /\ line' = line \o [i \in 1..n |-> put + i]
  /\ Len(line') <= Room
  /\ put' = put + n
  /\ UNCHANGED <<sent, peer, paused, urgent>>

Send ==
  /\ peer # Nobody /\ paused = Nobody /\ urgent = 0
  /\ line # <<>>
  /\ sent' = Head(line) /\ line' = Tail(line)
  /\ UNCHANGED <<put, peer, paused, urgent>>

Lose ==
  /\ peer # Nobody
  /\ line # <<>>
  /\ line' = Tail(line)
  /\ UNCHANGED <<put, sent, peer, paused, urgent>>

\* The line starts anew with the clock, the first frame of a replay.
Replay ==
  /\ line' = <<put + 1>>
  /\ put' = put + 1

Hello(s) ==
  /\ peer \in {Nobody, s}
  /\ peer' = s
  /\ Replay
  /\ UNCHANGED <<sent, paused, urgent>>

OtaStart(s) ==
  /\ peer \in {Nobody, s} /\ paused \in {Nobody, s}
  /\ paused' = s
  /\ UNCHANGED <<line, put, sent, peer, urgent>>

OtaEnd ==
  /\ paused' = Nobody
  /\ Replay
  /\ UNCHANGED <<sent, peer, urgent>>

\* A panel is taken over only when the connection before it is over.
Connect ==
  /\ peer = Nobody
  /\ line' = <<>> /\ paused' = Nobody
  /\ UNCHANGED <<put, sent, peer, urgent>>

HangUp ==
  /\ peer # Nobody
  /\ peer' = Nobody
  /\ \/ line' = line
     \/ line # <<>> /\ line' = Tail(line)
  /\ UNCHANGED <<put, sent, paused, urgent>>

\* A connection that is over takes the pause it announced with it.
Release ==
  /\ peer = Nobody
  /\ paused' = Nobody
  /\ UNCHANGED <<line, put, sent, peer, urgent>>

Interrupt(n) ==
  /\ urgent + n <= UrgentRoom
  /\ urgent' = urgent + n
  /\ UNCHANGED <<line, put, sent, peer, paused>>

SendInterrupt ==
  /\ urgent > 0
  /\ urgent' = urgent - 1
  /\ UNCHANGED <<line, put, sent, peer, paused>>

Next ==
  \/ \E n \in 1..Room : Put(n)
  \/ Send \/ Lose
  \/ \E s \in Sessions : Hello(s) \/ OtaStart(s)
  \/ OtaEnd \/ Connect \/ HangUp \/ Release
  \/ \E n \in 1..UrgentRoom : Interrupt(n)
  \/ SendInterrupt

Spec == Init /\ [][Next]_link
=============================================================================
