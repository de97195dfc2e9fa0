----------------------------- MODULE OtaUpdate -----------------------------
(***************************************************************************)
(* Firmware updates over Wi-Fi: the receiver on the board                  *)
(* (firmware/housepanel-giga, ota_update.cpp and ota_protocol.cpp), the    *)
(* uploader (tools/panel_firmware.py upload, status) and the TCP           *)
(* connections between them.                                               *)
(*                                                                         *)
(* Several uploads may run against one board.  Every upload has an image   *)
(* of its own, of ImageSize chunks; images may share a Git revision.       *)
(* Both ends give up a connection at any time: their timers, a failed      *)
(* read or write and a lost reply are the same step.  The board may        *)
(* restart at any time and then keeps the files of its staging partition   *)
(* only.  Connections that authenticate are the uploader's: the checks of  *)
(* signatures, digests and identity hold for what it sends.                *)
(***************************************************************************)
EXTENDS Naturals, Sequences, FiniteSets

CONSTANTS
  Uploads,       \* invocations of "panel_firmware.py upload"
  Factory,       \* the image the board has at first
  Revision,      \* the Git revision of every image
  None,          \* no image, connection or reply
  ImageSize,     \* chunks of an image
  Backlog,       \* connections that wait for accept (listen(1), lwIP)
  MaxBoots,      \* bound: boots of the board
  MaxChallenges  \* bound: challenges the board issues

Connections ==
  [by : Uploads, request : 0..MaxChallenges, sent : 0..ImageSize, open : BOOLEAN]
Replies ==
  [text : {"status"}, boot : 1..MaxBoots, nonce : 0..MaxChallenges, then : {"Close"}]
    \cup [text : {"no"}, boot : {0}, nonce : {0}, then : {"Close"}]
    \cup [text : {"accepted"}, boot : {0}, nonce : {0}, then : {"Receive"}]
    \cup [text : {"ok"}, boot : {0}, nonce : {0}, then : {"Install"}]

ASSUME OtaAssumption ==
  /\ Factory \notin Uploads /\ None \notin Uploads \cup {Factory} \cup Connections \cup Replies
  /\ ImageSize \in Nat \ {0} /\ Backlog \in Nat \ {0}
  /\ MaxBoots \in Nat \ {0} /\ MaxChallenges \in Nat

VARIABLES
  ran,        \* external: the images booted; the boot_id is the index of the last
  bin, part,  \* UPDATE.BIN: the upload staged; UPDATE.PART: the chunks written, and whose
  listening,  \* the server socket is open
  backlog,    \* connections not yet accepted
  peer,       \* the connection accepted, or None
  receiving, sink,   \* its header is authorised; OtaReceiver._sink is set
  reply,      \* the reply being sent, or None
  challenge,  \* the last nonce, nonce_valid (and not expired), OtaReceiver._issued
  phase,      \* per upload: how far upload() is, at last what it reports
  before,     \* per upload: boot_id and challenge of its first status
  wire,       \* per upload: the reply that waits on its connection, or None
  armed       \* external: per upload, whether the bootloader took its image

files == <<bin, part>>
link == <<peer, receiving, sink, reply>>
board == <<ran, armed, files, listening, link, challenge>>
host == <<phase, before, wire>>
vars == <<board, backlog, host>>

Images == Uploads \cup {Factory}
Boot == Len(ran)

\* A connection of upload u: request is 0 for a status query, or the challenge
\* its upload header answers; sent counts the chunks that followed the header.
Connection(u, request) == [by |-> u, request |-> request, sent |-> 0, open |-> TRUE]

NoPart == [by |-> None, size |-> 0]
Status(boot, nonce) == [text |-> "status", boot |-> boot, nonce |-> nonce, then |-> "Close"]
Answer(text, then) == [text |-> text, boot |-> 0, nonce |-> 0, then |-> then]

Init ==
  /\ ran = <<Factory>> /\ armed = [u \in Uploads |-> "no"]
  /\ bin = None /\ part = NoPart
  /\ listening = FALSE /\ backlog = <<>>
  /\ peer = None /\ receiving = FALSE /\ sink = FALSE /\ reply = None
  /\ challenge = [nonce |-> 0, valid |-> FALSE, issued |-> FALSE]
  /\ phase = [u \in Uploads |-> "idle"]
  /\ before = [u \in Uploads |-> [boot |-> 0, nonce |-> 0]]
  /\ wire = [u \in Uploads |-> None]

-----------------------------------------------------------------------------
(* The board *)

\* Mutant of closed_peer: the receiver is not aborted.
closed_peer_WithoutAbort ==
  /\ peer' = None /\ receiving' = FALSE /\ reply' = None
  /\ UNCHANGED <<sink, part>>

\* close_peer: aborting the receiver removes the file it has open.
closed_peer ==
  /\ peer' = None /\ receiving' = FALSE /\ sink' = FALSE /\ reply' = None
  /\ part' = IF sink THEN NoPart ELSE part

Listen ==
  /\ ~listening /\ listening' = TRUE
  /\ UNCHANGED <<ran, armed, files, backlog, link, challenge, host>>

\* Wi-Fi is lost, or accept fails.
StopListening ==
  /\ listening /\ listening' = FALSE
  /\ backlog' = <<>> /\ closed_peer
  /\ UNCHANGED <<ran, armed, bin, challenge, host>>

Accept ==
  /\ listening /\ peer = None /\ backlog # <<>>
  /\ peer' = Head(backlog) /\ backlog' = Tail(backlog)
  /\ UNCHANGED <<ran, armed, files, listening, receiving, sink, reply, challenge, host>>

\* A timer of the connection, a failed recv or send, the end of the stream.
DropPeer ==
  /\ peer # None /\ closed_peer
  /\ UNCHANGED <<ran, armed, bin, listening, backlog, challenge, host>>

\* A status query issues a new challenge, unless there is no entropy.
status ==
  /\ peer # None /\ reply = None /\ peer.request = 0
  /\ \/ /\ challenge.nonce < MaxChallenges
        /\ challenge' = [nonce |-> challenge.nonce + 1, valid |-> TRUE, issued |-> TRUE]
        /\ reply' = Status(Boot, challenge.nonce + 1)
     \/ /\ challenge' = [challenge EXCEPT !.valid = FALSE]
        /\ reply' = Status(Boot, 0)
  /\ UNCHANGED <<ran, armed, files, listening, backlog, peer, receiving, sink, host>>

\* 60 s have passed since status.
ChallengeExpires ==
  /\ challenge.valid /\ challenge' = [challenge EXCEPT !.valid = FALSE]
  /\ UNCHANGED <<ran, armed, files, listening, backlog, link, host>>

HasHeader == peer # None /\ reply = None /\ peer.request > 0 /\ ~receiving

Authorised ==
  challenge.valid /\ challenge.issued /\ ~sink /\ peer.request = challenge.nonce

RefuseHeader ==
  /\ HasHeader /\ ~Authorised
  /\ reply' = Answer("no", "Close")
  /\ UNCHANGED <<ran, armed, files, listening, backlog, peer, receiving, sink, challenge, host>>

\* An authenticated attempt consumes its nonce, even if fopen then fails.
begin ==
  /\ HasHeader /\ Authorised
  /\ \/ /\ challenge' = [challenge EXCEPT !.valid = FALSE, !.issued = FALSE]
        /\ receiving' = TRUE /\ sink' = TRUE
        /\ part' = [by |-> peer.by, size |-> 0]
        /\ reply' = Answer("accepted", "Receive")
     \/ /\ challenge' = [challenge EXCEPT !.issued = FALSE]
        /\ part' = NoPart
        /\ reply' = Answer("no", "Close")
        /\ UNCHANGED <<receiving, sink>>
  /\ UNCHANGED <<ran, armed, bin, listening, backlog, peer, host>>

HasChunk == /\ peer # None /\ reply = None /\ receiving /\ sink
            /\ part.size < peer.sent
LastChunk == part.size + 1 = ImageSize

feed ==
  /\ HasChunk /\ ~LastChunk
  /\ part' = [part EXCEPT !.size = @ + 1]
  /\ UNCHANGED <<ran, armed, bin, listening, backlog, link, challenge, host>>

\* Mutant of finish: the rename is left to replace the old file, which FAT does not do.
finish_WithoutRemove ==
  /\ HasChunk /\ LastChunk
  /\ bin' = IF bin = None THEN part.by ELSE bin
  /\ part' = NoPart /\ sink' = FALSE
  /\ reply' = Answer("ok", "Install")
  /\ UNCHANGED <<ran, armed, listening, backlog, peer, receiving, challenge, host>>

\* finish replaces UPDATE.BIN by the file received.
finish ==
  /\ HasChunk /\ LastChunk
  /\ bin' = part.by /\ part' = NoPart /\ sink' = FALSE
  /\ reply' = Answer("ok", "Install")
  /\ UNCHANGED <<ran, armed, listening, backlog, peer, receiving, challenge, host>>

\* A write fails, or a step of finish: the old UPDATE.BIN is gone if the rename did.
StorageFails ==
  /\ HasChunk
  /\ bin' \in IF LastChunk THEN {bin, None} ELSE {bin}
  /\ part' = NoPart /\ sink' = FALSE
  /\ reply' = Answer("no", "Close")
  /\ UNCHANGED <<ran, armed, listening, backlog, peer, receiving, challenge, host>>

Delivered == wire' = IF peer.open THEN [wire EXCEPT ![peer.by] = reply] ELSE wire

\* flush_reply sends the rest of a reply that does not end in an update.
flush_reply ==
  /\ peer # None /\ reply # None /\ Delivered
  /\ \/ /\ reply.then = "Receive" /\ reply' = None
        /\ UNCHANGED <<peer, receiving, sink, part>>
     \/ reply.then = "Close" /\ closed_peer
  /\ UNCHANGED <<ran, armed, bin, listening, backlog, challenge, phase, before>>

\* A restart of the board: its memory is lost, a file stays as written.
Reboots(image) ==
  /\ Boot < MaxBoots
  /\ ran' = Append(ran, image)
  /\ listening' = FALSE /\ backlog' = <<>>
  /\ peer' = None /\ receiving' = FALSE /\ sink' = FALSE /\ reply' = None
  /\ challenge' = [challenge EXCEPT !.valid = FALSE, !.issued = FALSE]

\* The reply to a staged image is out: the bootloader is armed and the board
\* restarts into the staged image, or arming fails.
flush_and_install ==
  /\ peer # None /\ reply # None /\ reply.then = "Install" /\ Delivered
  /\ \/ Reboots(bin) /\ armed' = [armed EXCEPT ![bin] = "done"] /\ part' = part
     \/ /\ closed_peer /\ armed' = [armed EXCEPT ![bin] = "failed"]
        /\ UNCHANGED <<ran, listening, backlog, challenge>>
  /\ UNCHANGED <<bin, phase, before>>

\* Power or the watchdog.
Reset ==
  /\ Reboots(ran[Boot])
  /\ UNCHANGED <<armed, files, host>>

\* Power is lost between the remove and the rename of finish.
ResetInFinish ==
  /\ HasChunk /\ LastChunk /\ Reboots(ran[Boot])
  /\ bin' = None /\ part' = [part EXCEPT !.size = @ + 1]
  /\ UNCHANGED <<armed, host>>

-----------------------------------------------------------------------------
(* The uploader *)

Mine(u, c) == c.by = u /\ c.open

Connected(u) == \/ peer # None /\ Mine(u, peer)
                \/ \E i \in DOMAIN backlog : Mine(u, backlog[i])

Hung(u, c) == IF Mine(u, c) THEN [c EXCEPT !.open = FALSE] ELSE c

\* u closes its connection, wherever it is; the board may still read what was sent.
HangUp(u) ==
  /\ backlog' = [i \in DOMAIN backlog |-> Hung(u, backlog[i])]
  /\ peer' = IF peer = None THEN None ELSE Hung(u, peer)
  /\ wire' = [wire EXCEPT ![u] = None]

\* upload() goes on from p to q.
Steps(u, p, q) == phase[u] = p /\ phase' = [phase EXCEPT ![u] = q]

BoardStays == UNCHANGED <<ran, armed, files, listening, receiving, sink, reply, challenge>>

\* create_connection, and the request sent at once.
Connect(u, request) ==
  /\ listening /\ Len(backlog) < Backlog
  /\ backlog' = Append(backlog, Connection(u, request))
  /\ UNCHANGED <<peer, before, wire>> /\ BoardStays

Query(u) == Steps(u, "idle", "asking") /\ Connect(u, 0)
SendHeader(u) == Steps(u, "ready", "authorizing") /\ Connect(u, before[u].nonce)
Poll(u) == Steps(u, "polling", "confirming") /\ Connect(u, 0)

Reads(u, text) == wire[u] # None /\ wire[u].text = text

\* The first status names the boot and the challenge; a board without one is not ready.
QueryAnswered(u) ==
  /\ Reads(u, "status")
  /\ \/ /\ wire[u].nonce # 0 /\ Steps(u, "asking", "ready")
        /\ before' = [before EXCEPT ![u] = [boot |-> wire[u].boot, nonce |-> wire[u].nonce]]
     \/ /\ wire[u].nonce = 0 /\ Steps(u, "asking", "failed")
        /\ UNCHANGED before
  /\ HangUp(u) /\ BoardStays

HeaderAccepted(u) ==
  /\ Reads(u, "accepted") /\ Steps(u, "authorizing", "sending")
  /\ wire' = [wire EXCEPT ![u] = None]
  /\ UNCHANGED <<backlog, peer, before>> /\ BoardStays

\* sendall of the ciphertext, chunk by chunk.
SendChunk(u) ==
  /\ peer # None /\ Mine(u, peer) /\ peer.sent < ImageSize
  /\ peer' = [peer EXCEPT !.sent = @ + 1]
  /\ Steps(u, "sending", IF peer'.sent = ImageSize THEN "acking" ELSE "sending")
  /\ UNCHANGED <<backlog, before, wire>> /\ BoardStays

\* The board has closed already, and the host's TCP takes the rest all the same.
SendLost(u) ==
  /\ ~Connected(u) /\ Steps(u, "sending", "acking")
  /\ UNCHANGED <<backlog, peer, before, wire>> /\ BoardStays

\* The board's answer to the header or to the image is a refusal.
Refused(u) ==
  /\ Reads(u, "no")
  /\ \/ Steps(u, "authorizing", "failed") \/ Steps(u, "acking", "failed")
  /\ HangUp(u)
  /\ UNCHANGED before /\ BoardStays

Acknowledged(u) ==
  /\ Reads(u, "ok") /\ Steps(u, "acking", "polling")
  /\ HangUp(u)
  /\ UNCHANGED before /\ BoardStays

NewBoot(u) == /\ Revision[ran[wire[u].boot]] = Revision[u]
              /\ wire[u].boot # before[u].boot
              /\ wire[u].nonce # 0

PollAnswered(u) ==
  /\ Reads(u, "status")
  /\ Steps(u, "confirming", IF NewBoot(u) THEN "success" ELSE "polling")
  /\ HangUp(u)
  /\ UNCHANGED before /\ BoardStays

\* Mutant of ConnectionFails: a missing acknowledgement is a failure.
ConnectionFails_WithoutAck(u) ==
  /\ \/ \E p \in {"idle", "asking", "ready", "authorizing", "sending", "acking"} :
          Steps(u, p, "failed")
     \/ Steps(u, "confirming", "polling")
  /\ HangUp(u)
  /\ UNCHANGED before /\ BoardStays

\* Mutant of ConnectionFails: the acknowledgement is awaited without a timeout.
ConnectionFails_WaitsForAck(u) ==
  /\ \/ \E p \in {"idle", "asking", "ready", "authorizing", "sending"} : Steps(u, p, "failed")
     \/ Steps(u, "confirming", "polling")
  /\ HangUp(u)
  /\ UNCHANGED before /\ BoardStays

\* An OSError or ValueError: before the image is out the upload has failed; from
\* then on the outcome is for the polls to find out.
ConnectionFails(u) ==
  /\ \/ \E p \in {"idle", "asking", "ready", "authorizing", "sending"} : Steps(u, p, "failed")
     \/ Steps(u, "acking", "polling")
     \/ Steps(u, "confirming", "polling")
  /\ HangUp(u)
  /\ UNCHANGED before /\ BoardStays

\* 180 s of polls: the result is uncertain.
DeadlinePasses(u) ==
  /\ Steps(u, "polling", "uncertain")
  /\ UNCHANGED <<board, backlog, before, wire>>

-----------------------------------------------------------------------------
Board ==
  \/ Listen \/ StopListening \/ Accept \/ DropPeer
  \/ status \/ ChallengeExpires \/ RefuseHeader \/ begin
  \/ feed \/ finish \/ StorageFails \/ flush_reply \/ flush_and_install
  \/ Reset \/ ResetInFinish

upload(u) ==
  \/ Query(u) \/ QueryAnswered(u) \/ SendHeader(u) \/ HeaderAccepted(u)
  \/ SendChunk(u) \/ SendLost(u) \/ Refused(u) \/ Acknowledged(u)
  \/ Poll(u) \/ PollAnswered(u) \/ ConnectionFails(u) \/ DeadlinePasses(u)

Next == Board \/ \E u \in Uploads : upload(u)

Spec == Init /\ [][Next]_vars

\* Every wait of the uploader has a timeout, and its deadline stays passed.
FairSpec == Spec /\ \A u \in Uploads :
                      WF_vars(upload(u)) /\ SF_vars(DeadlinePasses(u))

-----------------------------------------------------------------------------
(* Properties *)

Over == {"success", "failed", "uncertain"}
Phases == {"idle", "asking", "ready", "authorizing", "sending", "acking",
           "polling", "confirming"} \cup Over

\* The variables have their types, and their bounds: an upload sends its image once
\* (ota_update.cpp, ota_protocol.cpp and panel_firmware.py).
TypeOK ==
  /\ ran \in Seq(Images) /\ Boot \in 1..MaxBoots
  /\ armed \in [Uploads -> {"no", "failed", "done"}]
  /\ bin \in Uploads \cup {None}
  /\ part \in [by : Uploads, size : 0..ImageSize] \cup {NoPart}
  /\ listening \in BOOLEAN
  /\ backlog \in Seq(Connections) /\ Len(backlog) <= Backlog
  /\ peer \in Connections \cup {None}
  /\ receiving \in BOOLEAN /\ sink \in BOOLEAN
  /\ reply \in Replies \cup {None}
  /\ challenge \in [nonce : 0..MaxChallenges, valid : BOOLEAN, issued : BOOLEAN]
  /\ phase \in [Uploads -> Phases]
  /\ before \in [Uploads -> [boot : 0..MaxBoots, nonce : 0..MaxChallenges]]
  /\ wire \in [Uploads -> Replies \cup {None}]

\* Nothing of a connection outlives it: with no peer the receiver is idle and no
\* reply is due, and an open file is the peer's (close_peer, OtaReceiver::abort).
\* A receiver left open would refuse every later update until a restart.
CleanSlate ==
  /\ peer = None => ~receiving /\ ~sink /\ reply = None
  /\ sink => part.by = peer.by /\ receiving

\* The reply that ends in an update is for the image now staged: never an older
\* UPDATE.BIN, and never with a file still open (FileSink::finish, flush_reply).
StagedIsCurrent ==
  peer # None /\ reply # None /\ reply.then = "Install" =>
    bin = peer.by /\ ~sink /\ peer.sent = ImageSize

Result(u) == IF phase[u] \in Over THEN phase[u] ELSE "pending"

Abstract == INSTANCE AtomicUpdate
              WITH installed <- {u \in Uploads : armed[u] = "done"},
                   began <- [u \in Uploads |-> before[u].boot],
                   result <- [u \in Uploads |-> Result(u)]

\* Board, uploader and connections together are an atomic update: an image enters
\* the panel whole, by the boot addressed, at most once and never after upload()
\* has raised; upload() returns only when a later boot runs its revision.
Atomic == Abstract!Spec

\* upload() ends, whatever the board and the network do.
UploadEnds == <>(\A u \in Uploads : phase[u] \in Over)
=============================================================================
