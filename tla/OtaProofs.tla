----------------------------- MODULE OtaProofs -----------------------------
(***************************************************************************)
(* Theorems about OtaUpdate, for any number of uploads, boots, challenges, *)
(* chunks and pending connections, and any revisions of the images: types, *)
(* the two invariants of the board's storage, and, in the last part, that  *)
(* it implements AtomicUpdate.                                             *)
(***************************************************************************)
EXTENDS OtaUpdate, TLAPS

-----------------------------------------------------------------------------
(* Types *)

\* The answers of the board are replies.
LEMMA AnswerType ==
  /\ Answer("no", "Close") \in Replies
  /\ Answer("accepted", "Receive") \in Replies
  /\ Answer("ok", "Install") \in Replies
BY DEF Answer, Replies

\* Closing a connection changes nothing but its open mark.
LEMMA HungType ==
  ASSUME NEW c \in Connections, NEW u
  PROVE  /\ Hung(u, c) \in Connections
         /\ Hung(u, c).by = c.by /\ Hung(u, c).request = c.request
         /\ Hung(u, c).sent = c.sent
         /\ Hung(u, c).open => c.open /\ c.by # u
         /\ c.open /\ c.by # u => Hung(u, c).open
BY DEF Hung, Mine, Connections

\* Hanging up keeps every connection but its open mark.
LEMMA HangUpType ==
  ASSUME TypeOK, NEW u \in Uploads, HangUp(u)
  PROVE  /\ backlog' \in Seq(Connections) /\ Len(backlog') = Len(backlog)
         /\ DOMAIN backlog' = DOMAIN backlog
         /\ \A i \in DOMAIN backlog : backlog[i] \in Connections /\ backlog'[i] = Hung(u, backlog[i])
         /\ peer' \in Connections \cup {None}
         /\ peer' = None <=> peer = None
         /\ peer # None => peer \in Connections /\ peer' = Hung(u, peer)
         /\ wire' \in [Uploads -> Replies \cup {None}]
         /\ wire' = [wire EXCEPT ![u] = None]
<1>1. /\ DOMAIN backlog = 1..Len(backlog)
      /\ Len(backlog) \in Nat
      /\ \A i \in DOMAIN backlog : backlog[i] \in Connections
  BY DEF TypeOK
<1>2. backlog' = [i \in 1..Len(backlog) |-> Hung(u, backlog[i])]
  BY <1>1 DEF HangUp
<1>3. \A i \in 1..Len(backlog) : Hung(u, backlog[i]) \in Connections
  BY <1>1, HungType
<1>4. backlog' \in Seq(Connections) /\ Len(backlog') = Len(backlog)
  BY <1>1, <1>2, <1>3
<1>5. /\ peer' \in Connections \cup {None}
      /\ peer' = None <=> peer = None
      /\ peer # None => peer \in Connections /\ peer' = Hung(u, peer)
  BY HungType, OtaAssumption DEF HangUp, TypeOK, OtaAssumption
<1>6. wire' \in [Uploads -> Replies \cup {None}] /\ wire' = [wire EXCEPT ![u] = None]
  BY DEF HangUp, TypeOK
<1>7. QED
  BY <1>1, <1>2, <1>4, <1>5, <1>6

\* The empty backlog.
LEMMA EmptyType ==
  /\ <<>> \in Seq(Connections) /\ Len(<<>>) = 0 /\ DOMAIN <<>> = {}
OBVIOUS

Challenge == [nonce : 0..MaxChallenges, valid : BOOLEAN, issued : BOOLEAN]

\* A chunk changes nothing of the peer but its count.
LEMMA ChunkType ==
  ASSUME TypeOK, NEW u \in Uploads, SendChunk(u)
  PROVE  /\ peer \in Connections /\ peer' \in Connections /\ peer' # None
         /\ peer'.by = peer.by /\ peer'.request = peer.request /\ peer'.open = peer.open
         /\ peer'.sent = peer.sent + 1 /\ peer.by = u /\ peer.sent < ImageSize
<1>1. peer \in Connections /\ peer.sent < ImageSize
  BY DEF SendChunk, TypeOK
<1>2. peer.sent + 1 \in 0..ImageSize
  BY <1>1, OtaAssumption DEF Connections, OtaAssumption
<1>3. peer' = [peer EXCEPT !.sent = peer.sent + 1]
  BY DEF SendChunk
<1>4. peer' \in Connections
  BY <1>1, <1>2, <1>3 DEF Connections
<1>5. peer' # None
  BY <1>4, OtaAssumption DEF OtaAssumption
<1>6. QED
  BY <1>1, <1>3, <1>4, <1>5 DEF SendChunk, Mine, Connections

\* What a restart leaves of the board's memory.
LEMMA RebootType ==
  ASSUME TypeOK, \E image \in Images : Reboots(image)
  PROVE  /\ ran' \in Seq(Images) /\ Boot' = Boot + 1 /\ Boot' \in 1..MaxBoots
         /\ listening' = FALSE /\ backlog' = <<>> /\ backlog' \in Seq(Connections)
         /\ Len(backlog') = 0 /\ peer' = None
         /\ receiving' = FALSE /\ sink' = FALSE /\ reply' = None
         /\ challenge' \in Challenge
         /\ challenge'.nonce = challenge.nonce /\ challenge'.issued = FALSE
<1> USE OtaAssumption DEF OtaAssumption
<1>1. PICK image \in Images : Reboots(image)
  OBVIOUS
<1>2. ran' \in Seq(Images) /\ Boot' = Boot + 1 /\ Boot' \in 1..MaxBoots
  <2>1. ran \in Seq(Images) /\ Len(ran) \in 1..MaxBoots /\ Len(ran) < MaxBoots
    BY <1>1 DEF Reboots, TypeOK, Boot
  <2>2. ran' = Append(ran, image)
    BY <1>1 DEF Reboots
  <2>3. ran' \in Seq(Images) /\ Len(ran') = Len(ran) + 1
    BY <2>1, <2>2
  <2>4. QED
    BY <2>1, <2>3 DEF Boot
<1>3. challenge \in Challenge
  BY DEF TypeOK, Challenge
<1>4. /\ challenge' \in Challenge
      /\ challenge'.nonce = challenge.nonce /\ challenge'.issued = FALSE
  BY <1>1, <1>3 DEF Reboots, Challenge
<1>5. QED
  BY <1>1, <1>2, <1>4, EmptyType DEF Reboots

\* A restart keeps the types, if what it leaves on the board has them.
LEMMA RebootTyped ==
  ASSUME TypeOK, \E image \in Images : Reboots(image),
         UNCHANGED <<phase, before>>,
         armed' \in [Uploads -> {"no", "failed", "done"}],
         bin' \in Uploads \cup {None},
         part' \in [by : Uploads, size : 0..ImageSize] \cup {NoPart},
         wire' \in [Uploads -> Replies \cup {None}]
  PROVE  TypeOK'
<1>1. /\ ran' \in Seq(Images) /\ Boot' \in 1..MaxBoots
      /\ backlog' \in Seq(Connections) /\ Len(backlog') = 0
  BY RebootType
<1>2. listening' \in BOOLEAN /\ receiving' \in BOOLEAN /\ sink' \in BOOLEAN
  BY RebootType
<1>3. peer' \in Connections \cup {None} /\ reply' \in Replies \cup {None}
  BY RebootType
<1>4. challenge' \in [nonce : 0..MaxChallenges, valid : BOOLEAN, issued : BOOLEAN]
  BY RebootType DEF Challenge
<1>5. Len(backlog') <= Backlog
  BY <1>1, OtaAssumption DEF OtaAssumption
<1>6. QED
  BY <1>1, <1>2, <1>3, <1>4, <1>5 DEF TypeOK

\* A new connection is the last of the backlog.
LEMMA ConnectType ==
  ASSUME TypeOK, NEW u \in Uploads, NEW request \in 0..MaxChallenges, Connect(u, request)
  PROVE  /\ backlog' \in Seq(Connections) /\ Len(backlog') = Len(backlog) + 1
         /\ Len(backlog') <= Backlog
         /\ \A i \in 1..Len(backlog) : backlog'[i] = backlog[i]
         /\ backlog'[Len(backlog) + 1] = Connection(u, request)
<1>1. Connection(u, request) \in Connections
  BY OtaAssumption DEF OtaAssumption, Connection, Connections
<1>2. QED
  BY <1>1, OtaAssumption DEF OtaAssumption, Connect, TypeOK

\* A step of the board keeps the types.
LEMMA BoardTyped ==
  ASSUME TypeOK, CleanSlate, StagedIsCurrent, Board
  PROVE  TypeOK'
<1> USE OtaAssumption DEF OtaAssumption
<1>1. NoPart \in [by : Uploads, size : 0..ImageSize] \cup {NoPart}
  OBVIOUS
<1>2. CASE Listen
  BY <1>2 DEF Listen, files, link, host, TypeOK, Boot
<1>3. CASE StopListening
  <2>1. part' = part \/ part' = NoPart
    BY <1>3 DEF StopListening, closed_peer
  <2>2. backlog' \in Seq(Connections) /\ Len(backlog') = 0
    BY <1>3, EmptyType DEF StopListening
  <2>3. QED
    <3>1. /\ UNCHANGED <<ran, armed, bin, challenge, host>> /\ listening' = FALSE
          /\ peer' = None /\ receiving' = FALSE /\ sink' = FALSE /\ reply' = None
      BY <1>3 DEF StopListening, closed_peer
    <3>2. /\ listening' \in BOOLEAN /\ receiving' \in BOOLEAN /\ sink' \in BOOLEAN
      BY <3>1
    <3>3. peer' \in Connections \cup {None} /\ reply' \in Replies \cup {None}
      BY <3>1
    <3>4. UNCHANGED <<ran, armed, bin, challenge, phase, before, wire>>
      BY <3>1 DEF host
    <3>5. part' \in [by : Uploads, size : 0..ImageSize] \cup {NoPart}
      BY <2>1 DEF TypeOK
    <3>6. QED
      BY <2>2, <3>2, <3>3, <3>4, <3>5 DEF TypeOK, Boot
<1>4. CASE Accept
  BY <1>4 DEF Accept, files, host, TypeOK, Boot
<1>5. CASE DropPeer
  BY <1>5 DEF DropPeer, closed_peer, host, TypeOK, Boot
<1>6. CASE status
  <2>1. /\ reply' \in Replies
        /\ challenge' \in [nonce : 0..MaxChallenges, valid : BOOLEAN, issued : BOOLEAN]
    <3>1. \/ /\ challenge.nonce < MaxChallenges
             /\ challenge' = [nonce |-> challenge.nonce + 1, valid |-> TRUE, issued |-> TRUE]
             /\ reply' = Status(Boot, challenge.nonce + 1)
          \/ /\ challenge' = [challenge EXCEPT !.valid = FALSE]
             /\ reply' = Status(Boot, 0)
      BY <1>6 DEF status
    <3>2. challenge.nonce \in 0..MaxChallenges /\ Boot \in 1..MaxBoots
      BY DEF TypeOK
    <3>3. \A n \in 0..MaxChallenges : Status(Boot, n) \in Replies
      BY <3>2 DEF Status, Replies
    <3>4. challenge' \in [nonce : 0..MaxChallenges, valid : BOOLEAN, issued : BOOLEAN]
      <4>1. challenge \in [nonce : 0..MaxChallenges, valid : BOOLEAN, issued : BOOLEAN]
        BY DEF TypeOK
      <4>2. [challenge EXCEPT !.valid = FALSE]
              \in [nonce : 0..MaxChallenges, valid : BOOLEAN, issued : BOOLEAN]
        BY <4>1
      <4>3. challenge.nonce < MaxChallenges =>
              [nonce |-> challenge.nonce + 1, valid |-> TRUE, issued |-> TRUE]
                \in [nonce : 0..MaxChallenges, valid : BOOLEAN, issued : BOOLEAN]
        BY <3>2
      <4>4. QED
        BY <3>1, <4>2, <4>3
    <3>5. reply' \in Replies
      BY <3>1, <3>2, <3>3
    <3>6. QED
      BY <3>4, <3>5
  <2>2. QED
    BY <1>6, <2>1 DEF status, files, host, TypeOK, Boot
<1>7. CASE ChallengeExpires
  BY <1>7 DEF ChallengeExpires, files, link, host, TypeOK, Boot
<1>8. CASE RefuseHeader
  BY <1>8, AnswerType DEF RefuseHeader, files, host, TypeOK, Boot
<1>9. CASE begin
  <2>1. peer \in Connections
    BY <1>9 DEF begin, HasHeader, TypeOK
  <2>2. [by |-> peer.by, size |-> 0] \in [by : Uploads, size : 0..ImageSize]
    BY <2>1 DEF Connections
  <2>3. challenge' \in [nonce : 0..MaxChallenges, valid : BOOLEAN, issued : BOOLEAN]
    <3>1. challenge \in [nonce : 0..MaxChallenges, valid : BOOLEAN, issued : BOOLEAN]
      BY DEF TypeOK
    <3>2. /\ [challenge EXCEPT !.valid = FALSE, !.issued = FALSE]
               \in [nonce : 0..MaxChallenges, valid : BOOLEAN, issued : BOOLEAN]
          /\ [challenge EXCEPT !.issued = FALSE]
               \in [nonce : 0..MaxChallenges, valid : BOOLEAN, issued : BOOLEAN]
      BY <3>1
    <3>3. \/ challenge' = [challenge EXCEPT !.valid = FALSE, !.issued = FALSE]
          \/ challenge' = [challenge EXCEPT !.issued = FALSE]
      BY <1>9 DEF begin
    <3>4. QED
      BY <3>2, <3>3
  <2>4. part' \in [by : Uploads, size : 0..ImageSize] \cup {NoPart}
    BY <1>9, <2>2 DEF begin
  <2>5. reply' \in Replies /\ receiving' \in BOOLEAN /\ sink' \in BOOLEAN
    <3>1. reply' = Answer("accepted", "Receive") \/ reply' = Answer("no", "Close")
      BY <1>9 DEF begin
    <3>2. \/ receiving' = TRUE /\ sink' = TRUE
          \/ receiving' = receiving /\ sink' = sink
      BY <1>9 DEF begin
    <3>3. QED
      BY <3>1, <3>2, AnswerType DEF TypeOK
  <2>6. QED
    BY <1>9, <2>3, <2>4, <2>5 DEF begin, host, TypeOK, Boot
<1>10. ASSUME HasChunk
       PROVE  /\ peer \in Connections /\ part.by = peer.by /\ part.by \in Uploads
              /\ part \in [by : Uploads, size : 0..ImageSize]
              /\ part.size + 1 \in 0..ImageSize
  <2>1. peer \in Connections /\ part.by = peer.by
    BY <1>10 DEF HasChunk, TypeOK, CleanSlate
  <2>2. part # NoPart
    BY <2>1 DEF NoPart, Connections
  <2>3. part \in [by : Uploads, size : 0..ImageSize]
    BY <2>2 DEF TypeOK
  <2>4. peer.sent \in 0..ImageSize /\ part.size < peer.sent
    BY <1>10, <2>1 DEF HasChunk, Connections
  <2>5. part.size + 1 \in 0..ImageSize
    BY <2>3, <2>4
  <2>6. QED
    BY <2>1, <2>3, <2>5
<1>11. CASE feed
  <2>1. part' \in [by : Uploads, size : 0..ImageSize]
    BY <1>11, <1>10 DEF feed
  <2>2. QED
    BY <1>11, <2>1 DEF feed, link, host, TypeOK, Boot
<1>12. CASE finish
  BY <1>12, <1>10, AnswerType DEF finish, host, TypeOK, Boot
<1>13. CASE StorageFails
  <2>1. bin' \in Uploads \cup {None}
    BY <1>13 DEF StorageFails, TypeOK
  <2>2. QED
    BY <1>13, <2>1, AnswerType DEF StorageFails, host, TypeOK, Boot
<1>14. CASE flush_reply
  <2>1. wire' \in [Uploads -> Replies \cup {None}]
    BY <1>14 DEF flush_reply, Delivered, TypeOK
  <2>2. /\ peer' \in Connections \cup {None}
        /\ receiving' \in BOOLEAN /\ sink' \in BOOLEAN /\ reply' \in Replies \cup {None}
    <3>1. \/ reply' = None /\ UNCHANGED <<peer, receiving, sink>>
          \/ peer' = None /\ receiving' = FALSE /\ sink' = FALSE /\ reply' = None
      BY <1>14 DEF flush_reply, closed_peer
    <3>2. peer' \in Connections \cup {None} /\ reply' \in Replies \cup {None}
      BY <3>1 DEF TypeOK
    <3>3. receiving' \in BOOLEAN /\ sink' \in BOOLEAN
      BY <3>1 DEF TypeOK
    <3>4. QED
      BY <3>2, <3>3
  <2>3. part' = part \/ part' = NoPart
    BY <1>14 DEF flush_reply, closed_peer
  <2>4. QED
    BY <1>14, <2>1, <2>2, <2>3 DEF flush_reply, TypeOK, Boot
<1>15. CASE flush_and_install
  <2>1. peer \in Connections /\ bin = peer.by /\ bin \in Uploads
    BY <1>15 DEF flush_and_install, StagedIsCurrent, TypeOK, Connections
  <2>2. wire' \in [Uploads -> Replies \cup {None}]
    BY <1>15 DEF flush_and_install, Delivered, TypeOK
  <2>3. armed' \in [Uploads -> {"no", "failed", "done"}]
    <3>1. \/ armed' = [armed EXCEPT ![bin] = "done"]
          \/ armed' = [armed EXCEPT ![bin] = "failed"]
      BY <1>15 DEF flush_and_install
    <3>2. QED
      <4>1. armed \in [Uploads -> {"no", "failed", "done"}]
        BY DEF TypeOK
      <4>2. QED
        BY <3>1, <4>1
  <2>4. CASE Reboots(bin) /\ part' = part
    <3>1. \E image \in Images : Reboots(image)
      BY <2>1, <2>4 DEF Images
    <3>2. UNCHANGED <<bin, part, phase, before>>
      BY <1>15, <2>4 DEF flush_and_install
    <3>3. QED
      BY <2>2, <2>3, <3>1, <3>2, RebootTyped DEF TypeOK
  <2>5. CASE closed_peer /\ UNCHANGED <<ran, listening, backlog, challenge>>
    BY <1>15, <2>2, <2>3, <2>5 DEF flush_and_install, closed_peer, TypeOK, Boot
  <2>6. QED
    BY <1>15, <2>4, <2>5 DEF flush_and_install
<1>16. ran[Boot] \in Images
  BY DEF TypeOK, Boot
<1>17. CASE Reset
  <2>1. UNCHANGED <<armed, files, host>> /\ \E image \in Images : Reboots(image)
    BY <1>16, <1>17 DEF Reset
  <2>2. QED
    BY <2>1, RebootTyped DEF files, host, TypeOK
<1>18. CASE ResetInFinish
  <2>1. part' \in [by : Uploads, size : 0..ImageSize]
    BY <1>18, <1>10 DEF ResetInFinish
  <2>2. QED
    <3>1. UNCHANGED <<armed, host>> /\ bin' = None /\ \E image \in Images : Reboots(image)
      BY <1>16, <1>18 DEF ResetInFinish
    <3>2. QED
      BY <2>1, <3>1, RebootTyped DEF host, TypeOK
<1>19. QED
  BY <1>2, <1>3, <1>4, <1>5, <1>6, <1>7, <1>8, <1>9, <1>11, <1>12, <1>13, <1>14,
     <1>15, <1>17, <1>18 DEF Board

\* A step of an uploader keeps the types.
LEMMA UploadTyped ==
  ASSUME TypeOK, NEW u \in Uploads, upload(u)
  PROVE  TypeOK'
<1> USE OtaAssumption DEF OtaAssumption, BoardStays, files, Boot
<1>1. ASSUME NEW q \in Phases, NEW p, Steps(u, p, q)
      PROVE  phase' \in [Uploads -> Phases]
  BY <1>1 DEF Steps, TypeOK
<1>2. CASE Query(u) \/ SendHeader(u) \/ Poll(u)
  <2>1. before[u].nonce \in 0..MaxChallenges /\ 0 \in 0..MaxChallenges
    BY DEF TypeOK
  <2>2. phase' \in [Uploads -> Phases]
    BY <1>1, <1>2 DEF Query, SendHeader, Poll, Phases
  <2>3. PICK request \in 0..MaxChallenges : Connect(u, request)
    BY <1>2, <2>1 DEF Query, SendHeader, Poll
  <2>4. QED
    BY <2>2, <2>3, ConnectType DEF Connect, TypeOK
<1>3. CASE QueryAnswered(u)
  <2>1. phase' \in [Uploads -> Phases]
    BY <1>1, <1>3 DEF QueryAnswered, Phases, Over
  <2>2. before' \in [Uploads -> [boot : 0..MaxBoots, nonce : 0..MaxChallenges]]
    <3>1. wire[u] \in Replies
      BY <1>3 DEF QueryAnswered, Reads, TypeOK
    <3>2. wire[u].boot \in 0..MaxBoots /\ wire[u].nonce \in 0..MaxChallenges
      BY <3>1 DEF Replies
    <3>3. QED
      <4>1. [boot |-> wire[u].boot, nonce |-> wire[u].nonce]
              \in [boot : 0..MaxBoots, nonce : 0..MaxChallenges]
        BY <3>2
      <4>2. \/ before' = before
            \/ before' = [before EXCEPT ![u] = [boot |-> wire[u].boot, nonce |-> wire[u].nonce]]
        BY <1>3 DEF QueryAnswered
      <4>3. before \in [Uploads -> [boot : 0..MaxBoots, nonce : 0..MaxChallenges]]
        BY DEF TypeOK
      <4>4. QED
        BY <4>1, <4>2, <4>3
  <2>3. QED
    BY <1>3, <2>1, <2>2, HangUpType DEF QueryAnswered, TypeOK
<1>4. CASE HeaderAccepted(u)
  BY <1>4, <1>1 DEF HeaderAccepted, TypeOK, Phases
<1>5. CASE SendChunk(u)
  <2>1. phase' \in [Uploads -> Phases]
    BY <1>1, <1>5 DEF SendChunk, Phases
  <2>2. peer' \in Connections
    BY <1>5, ChunkType
  <2>3. QED
    BY <1>5, <2>1, <2>2 DEF SendChunk, TypeOK
<1>6. CASE SendLost(u)
  BY <1>6, <1>1 DEF SendLost, TypeOK, Phases
<1>7. CASE Refused(u) \/ Acknowledged(u) \/ PollAnswered(u) \/ ConnectionFails(u)
  <2>1. phase' \in [Uploads -> Phases]
    BY <1>1, <1>7 DEF Refused, Acknowledged, PollAnswered, ConnectionFails, Phases, Over
  <2>2. HangUp(u) /\ UNCHANGED before /\ BoardStays
    BY <1>7 DEF Refused, Acknowledged, PollAnswered, ConnectionFails
  <2>3. QED
    BY <2>1, <2>2, HangUpType DEF TypeOK
<1>8. CASE DeadlinePasses(u)
  BY <1>8, <1>1 DEF DeadlinePasses, TypeOK, Phases, Over, board, link
<1>9. QED
  BY <1>2, <1>3, <1>4, <1>5, <1>6, <1>7, <1>8 DEF upload

-----------------------------------------------------------------------------
(* The board between connections *)

\* The board closes what it has opened (close_peer).
LEMMA BoardKeepsClean ==
  ASSUME TypeOK, CleanSlate, StagedIsCurrent, Board
  PROVE  CleanSlate' /\ StagedIsCurrent'
<1> USE OtaAssumption DEF OtaAssumption
<1>1. CASE Listen \/ ChallengeExpires
  BY <1>1 DEF Listen, ChallengeExpires, files, link, CleanSlate, StagedIsCurrent
<1>2. CASE closed_peer
  BY <1>2 DEF closed_peer, CleanSlate, StagedIsCurrent
<1>3. CASE \E image \in Images : Reboots(image)
  BY <1>3 DEF Reboots, CleanSlate, StagedIsCurrent
<1>4. CASE Accept
  BY <1>4 DEF Accept, files, CleanSlate, StagedIsCurrent
<1>5. CASE status \/ RefuseHeader
  <2>1. reply'.then = "Close" /\ peer # None /\ UNCHANGED <<bin, part, peer, receiving, sink>>
    BY <1>5 DEF status, Status, RefuseHeader, HasHeader, Answer, files
  <2>2. QED
    BY <2>1 DEF CleanSlate, StagedIsCurrent
<1>6. CASE begin
  <2>1. reply'.then \in {"Close", "Receive"} /\ peer # None /\ UNCHANGED <<bin, peer>>
    BY <1>6 DEF begin, HasHeader, Answer
  <2>2. \/ sink' /\ receiving' /\ part'.by = peer.by
        \/ ~sink'
    BY <1>6 DEF begin, HasHeader, Authorised
  <2>3. QED
    BY <2>1, <2>2 DEF CleanSlate, StagedIsCurrent
<1>7. CASE feed
  <2>1. part'.by = part.by
    BY <1>7 DEF feed, TypeOK, NoPart
  <2>2. QED
    BY <1>7, <2>1 DEF feed, link, HasChunk, CleanSlate, StagedIsCurrent
<1>8. CASE finish
  <2>1. peer \in Connections /\ part.by = peer.by /\ part.size < peer.sent
    BY <1>8 DEF finish, HasChunk, CleanSlate, TypeOK
  <2>2. part \in [by : Uploads, size : 0..ImageSize]
    BY <2>1 DEF TypeOK, NoPart, Connections
  <2>3. peer.sent = ImageSize
    BY <1>8, <2>1, <2>2 DEF finish, LastChunk, Connections
  <2>4. /\ peer # None /\ bin' = peer.by /\ ~sink'
        /\ UNCHANGED <<peer, receiving>>
    BY <1>8, <2>1 DEF finish, HasChunk
  <2>5. QED
    BY <2>3, <2>4 DEF CleanSlate, StagedIsCurrent
<1>9. CASE StorageFails
  <2>1. /\ reply'.then = "Close" /\ peer # None /\ ~sink'
        /\ UNCHANGED <<peer, receiving>>
    BY <1>9 DEF StorageFails, HasChunk, Answer
  <2>2. QED
    BY <2>1 DEF CleanSlate, StagedIsCurrent
<1>10. CASE flush_reply /\ ~closed_peer
  BY <1>10 DEF flush_reply, CleanSlate, StagedIsCurrent
<1>11. ran[Boot] \in Images
  BY DEF TypeOK, Boot
<1>12. CASE flush_and_install
  <2>1. bin \in Images
    BY <1>12 DEF flush_and_install, StagedIsCurrent, TypeOK, Connections, Images
  <2>2. QED
    BY <1>2, <1>3, <1>12, <2>1 DEF flush_and_install
<1>13. QED
  BY <1>1, <1>2, <1>3, <1>4, <1>5, <1>6, <1>7, <1>8, <1>9, <1>10, <1>11, <1>12
     DEF Board, StopListening, DropPeer, Reset, ResetInFinish

\* What an uploader may do to the connection the board has accepted.
LEMMA UploadOnPeer ==
  ASSUME TypeOK, NEW u \in Uploads, upload(u)
  PROVE  /\ peer' = None <=> peer = None
         /\ peer # None => /\ peer'.by = peer.by /\ peer'.request = peer.request
                           /\ peer'.open => peer.open
                           /\ \/ peer'.sent = peer.sent
                              \/ peer.sent < ImageSize /\ phase[peer.by] = "sending"
                                   /\ peer.by = u
         /\ UNCHANGED <<ran, armed, bin, part, listening, receiving, sink, reply, challenge>>
<1> USE DEF BoardStays, files
<1>1. CASE Query(u) \/ SendHeader(u) \/ Poll(u) \/ HeaderAccepted(u) \/ SendLost(u)
             \/ DeadlinePasses(u)
  BY <1>1 DEF Query, SendHeader, Poll, Connect, HeaderAccepted, SendLost, DeadlinePasses,
     board, link
<1>2. CASE SendChunk(u)
  BY <1>2, ChunkType DEF SendChunk, Steps
<1>3. CASE HangUp(u) /\ BoardStays
  BY <1>3, HangUpType, HungType
<1>4. QED
  BY <1>1, <1>2, <1>3 DEF upload, QueryAnswered, Refused, Acknowledged, PollAnswered,
     ConnectionFails

\* An uploader opens and closes nothing on the board.
LEMMA UploadKeepsClean ==
  ASSUME TypeOK, CleanSlate, StagedIsCurrent, NEW u \in Uploads, upload(u)
  PROVE  CleanSlate' /\ StagedIsCurrent'
<1>1. peer # None /\ reply # None /\ reply.then = "Install" => peer'.sent = peer.sent
  BY UploadOnPeer DEF StagedIsCurrent, TypeOK, Connections
<1>2. QED
  BY <1>1, UploadOnPeer DEF CleanSlate, StagedIsCurrent

CleanInv == TypeOK /\ CleanSlate /\ StagedIsCurrent

\* The types, and the two invariants of the board, hold of every reachable state.
THEOREM OtaClean == Spec => []CleanInv
<1>1. Init => CleanInv
  <2> SUFFICES ASSUME Init PROVE CleanInv
    OBVIOUS
  <2> USE OtaAssumption DEF OtaAssumption, Init
  <2>1. ran \in Seq(Images) /\ Boot \in 1..MaxBoots
    BY DEF Boot, Images
  <2>2. backlog \in Seq(Connections) /\ Len(backlog) <= Backlog
    BY EmptyType
  <2>3. receiving \in BOOLEAN /\ sink \in BOOLEAN /\ listening \in BOOLEAN
    OBVIOUS
  <2>4. challenge \in [nonce : 0..MaxChallenges, valid : BOOLEAN, issued : BOOLEAN]
    OBVIOUS
  <2>5. /\ phase \in [Uploads -> Phases]
        /\ armed \in [Uploads -> {"no", "failed", "done"}]
        /\ wire \in [Uploads -> Replies \cup {None}]
    BY DEF Phases
  <2>6. before \in [Uploads -> [boot : 0..MaxBoots, nonce : 0..MaxChallenges]]
    OBVIOUS
  <2>7. TypeOK
    BY <2>1, <2>2, <2>3, <2>4, <2>5, <2>6 DEF TypeOK
  <2>8. QED
    BY <2>7 DEF CleanInv, CleanSlate, StagedIsCurrent
<1>2. CleanInv /\ [Next]_vars => CleanInv'
  <2> SUFFICES ASSUME CleanInv, [Next]_vars PROVE CleanInv'
    OBVIOUS
  <2>1. CASE Board
    BY <2>1, BoardTyped, BoardKeepsClean DEF CleanInv
  <2>2. ASSUME NEW u \in Uploads, upload(u) PROVE CleanInv'
    BY <2>2, UploadTyped, UploadKeepsClean DEF CleanInv
  <2>3. CASE UNCHANGED vars
    <3>1. TypeOK'
      BY <2>3 DEF CleanInv, TypeOK, vars, board, host, files, link, Boot
    <3>2. QED
      BY <2>3, <3>1 DEF CleanInv, CleanSlate, StagedIsCurrent, vars, board, files, link
  <2>4. QED
    BY <2>1, <2>2, <2>3 DEF Next
<1>3. QED
  BY <1>1, <1>2, PTL DEF Spec

\* The types of the variables and the bounds of the model (TypeOK of OtaUpdate).
THEOREM OtaTypeCorrect == Spec => []TypeOK
<1>1. CleanInv => TypeOK
  BY DEF CleanInv
<1>2. QED
  BY <1>1, OtaClean, PTL

\* Nothing of a connection outlives it (close_peer).
THEOREM BoardIsClean == Spec => []CleanSlate
<1>1. CleanInv => CleanSlate
  BY DEF CleanInv
<1>2. QED
  BY <1>1, OtaClean, PTL

\* The board restarts only into the image it acknowledged (FileSink::finish, flush_reply).
THEOREM StagedIsInstalled == Spec => []StagedIsCurrent
<1>1. CleanInv => StagedIsCurrent
  BY DEF CleanInv
<1>2. QED
  BY <1>1, OtaClean, PTL

-----------------------------------------------------------------------------
(* OtaUpdate implements AtomicUpdate *)

Early == {"idle", "asking", "ready"}
Talking == {"asking", "authorizing", "sending", "acking", "confirming"}
Sent == {"acking", "polling", "confirming", "uncertain", "success"}

\* A connection agrees with how far its upload is; one with a header precedes the
\* arming of the image.
ConnectionOf(c) ==
  /\ c.open => phase[c.by] \in Talking
  /\ c.request > 0 => /\ phase[c.by] \notin Early /\ armed[c.by] = "no"
                      /\ c.request = before[c.by].nonce
                      /\ c.sent = ImageSize => phase[c.by] \in Sent

\* An upload has one connection that carries its header.
ConnectionInv ==
  /\ \A i \in 1..Len(backlog) : ConnectionOf(backlog[i]) /\ backlog[i].sent = 0
  /\ peer # None => ConnectionOf(peer)
  /\ \A i, j \in 1..Len(backlog) :
       i # j /\ backlog[i].request > 0 /\ backlog[j].request > 0 =>
         backlog[i].by # backlog[j].by
  /\ \A i \in 1..Len(backlog) :
       peer # None /\ peer.request > 0 /\ backlog[i].request > 0 =>
         backlog[i].by # peer.by

\* The board acts for the boot that the peer addressed.
BoardInv ==
  /\ receiving => peer.request > 0 /\ before[peer.by].boot = Boot
  /\ reply # None =>
       /\ reply.text = "status" => reply.boot = Boot /\ reply.nonce <= challenge.nonce
       /\ reply.text = "no" => peer.request > 0
       /\ reply.text = "ok" => receiving

\* Boot b answered with challenge n: a challenge that is issued is of this boot.
Issued(b, n) ==
  /\ b <= Boot /\ n <= challenge.nonce
  /\ challenge.issued /\ n = challenge.nonce /\ n > 0 => b = Boot

NoHeader(u) ==
  /\ ~(peer # None /\ peer.by = u /\ peer.request > 0)
  /\ \A i \in 1..Len(backlog) : ~(backlog[i].by = u /\ backlog[i].request > 0)

\* What waits to be read by upload u.
WireOf(u) == wire[u] # None =>
  /\ phase[u] \in Talking
  /\ wire[u].text = "status" =>
       /\ Issued(wire[u].boot, wire[u].nonce)
       /\ phase[u] = "confirming" => wire[u].boot >= before[u].boot
  /\ wire[u].text = "no" => armed[u] = "no" /\ NoHeader(u)

WireInv == \A u \in Uploads : WireOf(u)

\* What upload u knows, and what may have become of its image by then.
HostOf(u) ==
  /\ phase[u] \in {"idle", "asking", "ready", "authorizing", "sending", "failed"} =>
       armed[u] = "no"
  /\ phase[u] \in {"idle", "asking"} => before[u].boot = 0 /\ before[u].nonce = 0
  /\ phase[u] \notin {"idle", "asking", "failed"} => before[u].boot > 0
  /\ Issued(before[u].boot, before[u].nonce)
  /\ phase[u] = "success" => before[u].boot < Boot

HostInv == \A u \in Uploads : HostOf(u)

IInv == CleanInv /\ ConnectionInv /\ BoardInv /\ WireInv /\ HostInv

\* The types of what the sequences and functions hold (TypeOK).
LEMMA ElementTypes ==
  ASSUME TypeOK
  PROVE  /\ Len(backlog) \in Nat /\ DOMAIN backlog = 1..Len(backlog)
         /\ \A i \in 1..Len(backlog) : backlog[i] \in Connections
         /\ peer # None => peer \in Connections
         /\ reply # None => reply \in Replies
         /\ \A u \in Uploads :
              /\ before[u].boot \in 0..MaxBoots /\ before[u].nonce \in 0..MaxChallenges
              /\ wire[u] # None => wire[u] \in Replies
         /\ challenge.nonce \in Nat /\ Boot \in Nat
BY OtaAssumption DEF OtaAssumption, TypeOK

\* The text of a reply says what follows it (reply, after_reply).
LEMMA ReplyFields ==
  ASSUME NEW r \in Replies
  PROVE  /\ r.boot \in Nat /\ r.nonce \in Nat
         /\ r.text = "status" => r.boot > 0
         /\ r.then = "Close" <=> r.text \in {"status", "no"}
         /\ r.then = "Install" <=> r.text = "ok"
BY OtaAssumption DEF OtaAssumption, Replies

-----------------------------------------------------------------------------
(* Steps of the board *)

\* The boot number and the challenge only grow, so what was issued stays issued.
LEMMA IssuedStable ==
  ASSUME TypeOK, StagedIsCurrent, Board
  PROVE  /\ Boot' \in Nat /\ Boot' >= Boot
         /\ challenge'.nonce \in Nat /\ challenge'.nonce >= challenge.nonce
         /\ \A b, n \in Nat : Issued(b, n) => Issued(b, n)'
<1> USE ElementTypes
<1>1. CASE status
  <2>1. /\ Boot' = Boot
        /\ \/ challenge'.nonce = challenge.nonce + 1
           \/ challenge'.nonce = challenge.nonce /\ challenge'.issued = challenge.issued
    BY <1>1 DEF status, TypeOK, Boot
  <2>2. QED
    BY <2>1 DEF Issued
<1>2. CASE \E image \in Images : Reboots(image)
  <2>1. Boot' = Boot + 1 /\ challenge'.nonce = challenge.nonce /\ ~challenge'.issued
    BY <1>2, RebootType
  <2>2. QED
    BY <2>1 DEF Issued
<1>3. CASE /\ Boot' = Boot /\ challenge'.nonce = challenge.nonce
           /\ challenge'.issued => challenge.issued
  BY <1>3 DEF Issued
<1>4. CASE ChallengeExpires \/ begin
  <2>1. Boot' = Boot /\ challenge \in Challenge
    BY <1>4 DEF ChallengeExpires, begin, Boot, TypeOK, Challenge
  <2>2. challenge'.nonce = challenge.nonce /\ (challenge'.issued => challenge.issued)
    BY <1>4, <2>1 DEF ChallengeExpires, begin, Challenge
  <2>3. QED
    BY <1>3, <2>1, <2>2
<1>5. ran[Boot] \in Images
  BY DEF TypeOK, Boot
<1>6. CASE Reset \/ ResetInFinish
  BY <1>2, <1>5, <1>6 DEF Reset, ResetInFinish
<1>7. CASE flush_and_install
  <2>1. bin \in Images
    BY <1>7 DEF flush_and_install, StagedIsCurrent, TypeOK, Connections, Images
  <2>2. QED
    BY <1>2, <1>3, <1>7, <2>1 DEF flush_and_install, Boot
<1>8. CASE Listen \/ StopListening \/ Accept \/ DropPeer \/ RefuseHeader \/ feed
             \/ finish \/ StorageFails \/ flush_reply
  BY <1>3, <1>8 DEF Listen, StopListening, Accept, DropPeer, RefuseHeader, feed, finish,
     StorageFails, flush_reply, Boot
<1>9. QED
  BY <1>1, <1>4, <1>6, <1>7, <1>8 DEF Board

\* What a step of the board does to the connections: they stay, go, or one is
\* accepted; the peer's image is armed when it goes.
Stays == UNCHANGED <<armed, peer, backlog>>
Drops == UNCHANGED armed /\ peer' = None /\ (UNCHANGED backlog \/ backlog' = <<>>)
Arms ==
  /\ peer # None /\ peer.request > 0 /\ peer.sent = ImageSize
  /\ peer.by \in Uploads /\ before[peer.by].boot = Boot
  /\ \E a \in {"failed", "done"} : armed' = [armed EXCEPT ![peer.by] = a]
  /\ peer' = None /\ (UNCHANGED backlog \/ backlog' = <<>>)

\* Every step of the board is one of these four for the connections.
LEMMA BoardConnections ==
  ASSUME TypeOK, StagedIsCurrent, BoardInv, Board
  PROVE  UNCHANGED <<phase, before>> /\ (Stays \/ Drops \/ (UNCHANGED armed /\ Accept) \/ Arms)
<1>1. CASE flush_and_install
  <2>1. /\ peer # None /\ bin = peer.by /\ peer.sent = ImageSize
        /\ reply # None /\ reply.text = "ok"
    BY <1>1, ElementTypes, ReplyFields DEF flush_and_install, StagedIsCurrent
  <2>2. peer.by \in Uploads /\ peer.request > 0 /\ before[peer.by].boot = Boot
    BY <2>1, ElementTypes DEF BoardInv, Connections
  <2>3. /\ \E a \in {"failed", "done"} : armed' = [armed EXCEPT ![peer.by] = a]
        /\ peer' = None /\ (UNCHANGED backlog \/ backlog' = <<>>)
        /\ UNCHANGED <<phase, before>>
    BY <1>1, <2>1 DEF flush_and_install, Reboots, closed_peer
  <2>4. QED
    BY <2>1, <2>2, <2>3 DEF Arms
<1>2. CASE Reset \/ ResetInFinish \/ StopListening \/ DropPeer
  <2>1. /\ UNCHANGED <<phase, before, armed>>
        /\ peer' = None /\ (UNCHANGED backlog \/ backlog' = <<>>)
    BY <1>2 DEF Reset, ResetInFinish, Reboots, StopListening, DropPeer, closed_peer, host
  <2>2. QED
    BY <2>1 DEF Drops
<1>3. CASE Accept
  BY <1>3 DEF Accept, host
<1>4. CASE Listen \/ status \/ ChallengeExpires \/ RefuseHeader \/ begin
             \/ feed \/ finish \/ StorageFails
  <2>1. UNCHANGED <<phase, before, armed, peer, backlog>>
    BY <1>4 DEF Listen, status, ChallengeExpires, RefuseHeader, begin, feed, finish,
       StorageFails, link, host
  <2>2. QED
    BY <2>1 DEF Stays
<1>5. CASE flush_reply
  <2>1. /\ UNCHANGED <<phase, before, armed, backlog>>
        /\ peer' = None \/ UNCHANGED peer
    BY <1>5 DEF flush_reply, closed_peer
  <2>2. QED
    BY <2>1 DEF Stays, Drops
<1>6. QED
  BY <1>1, <1>2, <1>3, <1>4, <1>5 DEF Board

\* accept takes the connection that waits longest.
LEMMA AcceptType ==
  ASSUME TypeOK, Accept
  PROVE  /\ peer = None /\ peer' = backlog[1] /\ Len(backlog) > 0
         /\ Len(backlog') = Len(backlog) - 1
         /\ \A i \in 1..Len(backlog') : i + 1 \in 1..Len(backlog) /\ backlog'[i] = backlog[i + 1]
<1>1. backlog \in Seq(Connections) /\ backlog # <<>>
  BY DEF TypeOK, Accept
<1>2. peer = None /\ peer' = Head(backlog) /\ backlog' = Tail(backlog)
  BY DEF Accept
<1>3. QED
  BY <1>1, <1>2

\* The board never leaves a header with an image that is armed.
LEMMA BoardKeepsConnections ==
  ASSUME TypeOK, StagedIsCurrent, ConnectionInv, BoardInv, Board
  PROVE  ConnectionInv'
<1>1. UNCHANGED <<phase, before>>
  BY BoardConnections
<1>2. CASE Stays
  BY <1>1, <1>2 DEF Stays, ConnectionInv, ConnectionOf
<1>3. CASE peer' = None /\ backlog' = <<>>
  <2>1. Len(backlog') = 0
    BY <1>3, EmptyType
  <2>2. QED
    BY <1>3, <2>1 DEF ConnectionInv
<1>4. CASE UNCHANGED armed /\ peer' = None /\ UNCHANGED backlog
  BY <1>1, <1>4 DEF ConnectionInv, ConnectionOf
<1>5. CASE UNCHANGED armed /\ Accept
  <2>1. \A c : ConnectionOf(c) => ConnectionOf(c)'
    BY <1>1, <1>5 DEF ConnectionOf
  <2>2. 1 \in 1..Len(backlog)
    BY <1>5, AcceptType, ElementTypes
  <2>3. /\ peer' = backlog[1] /\ Len(backlog') = Len(backlog) - 1 /\ Len(backlog) \in Nat
        /\ \A i \in 1..Len(backlog') : i + 1 \in 1..Len(backlog) /\ backlog'[i] = backlog[i + 1]
    BY <1>5, AcceptType, ElementTypes
  <2>4. ConnectionOf(peer)'
    BY <2>1, <2>2, <2>3 DEF ConnectionInv, ConnectionOf
  <2>5. \A i \in 1..Len(backlog') : ConnectionOf(backlog[i])' /\ backlog'[i].sent = 0
    <3>1. \A i \in 1..Len(backlog) : ConnectionOf(backlog[i]) /\ backlog[i].sent = 0
      BY DEF ConnectionInv
    <3>2. \A i \in 1..Len(backlog') :
            ConnectionOf(backlog[i + 1]) /\ backlog[i + 1].sent = 0 /\ backlog'[i] = backlog[i + 1]
      BY <2>3, <3>1
    <3>3. QED
      BY <2>1, <3>2 DEF ConnectionOf
  <2>6. \A i, j \in 1..Len(backlog') :
          i # j /\ backlog'[i].request > 0 /\ backlog'[j].request > 0 =>
            backlog'[i].by # backlog'[j].by
    <3> SUFFICES ASSUME NEW i \in 1..Len(backlog'), NEW j \in 1..Len(backlog'), i # j,
                        backlog'[i].request > 0, backlog'[j].request > 0
                 PROVE  backlog'[i].by # backlog'[j].by
      OBVIOUS
    <3>1. /\ i + 1 \in 1..Len(backlog) /\ backlog'[i] = backlog[i + 1]
          /\ j + 1 \in 1..Len(backlog) /\ backlog'[j] = backlog[j + 1] /\ i + 1 # j + 1
      BY <2>3
    <3>2. QED
      BY <3>1 DEF ConnectionInv
  <2>7. \A i \in 1..Len(backlog') :
          peer'.request > 0 /\ backlog'[i].request > 0 => backlog'[i].by # peer'.by
    <3> SUFFICES ASSUME NEW i \in 1..Len(backlog'),
                        peer'.request > 0, backlog'[i].request > 0
                 PROVE  backlog'[i].by # peer'.by
      OBVIOUS
    <3>1. i + 1 \in 1..Len(backlog) /\ backlog'[i] = backlog[i + 1] /\ i + 1 # 1
      BY <2>3
    <3>2. QED
      BY <2>2, <2>3, <3>1 DEF ConnectionInv
  <2>8. QED
    BY <2>4, <2>5, <2>6, <2>7 DEF ConnectionInv
<1>6. CASE Arms /\ UNCHANGED backlog
  <2>1. PICK a : armed' = [armed EXCEPT ![peer.by] = a]
    BY <1>6 DEF Arms
  <2>2. \A i \in 1..Len(backlog) :
          backlog[i].request > 0 => armed'[backlog[i].by] = armed[backlog[i].by]
    BY <1>6, <2>1, ElementTypes DEF Arms, ConnectionInv, TypeOK, Connections
  <2>3. peer' = None
    BY <1>6 DEF Arms
  <2>4. QED
    BY <1>1, <1>6, <2>2, <2>3 DEF ConnectionInv, ConnectionOf
<1>7. QED
  BY <1>2, <1>3, <1>4, <1>5, <1>6, BoardConnections DEF Drops, Arms

\* The board authorises a stream only for the boot that issued its challenge.
LEMMA BoardKeepsBoard ==
  ASSUME TypeOK, CleanSlate, StagedIsCurrent, ConnectionInv, BoardInv, HostInv, Board
  PROVE  BoardInv'
<1>1. UNCHANGED before
  BY BoardConnections
<1>2. CASE closed_peer \/ \E image \in Images : Reboots(image)
  BY <1>2 DEF closed_peer, Reboots, BoardInv
<1>3. CASE begin
  <2>1. /\ peer # None /\ peer.request > 0 /\ challenge.issued
        /\ peer.request = challenge.nonce /\ peer \in Connections
    BY <1>3, ElementTypes DEF begin, HasHeader, Authorised
  <2>2. peer.by \in Uploads /\ peer.request = before[peer.by].nonce
    BY <2>1 DEF ConnectionInv, ConnectionOf, Connections
  <2>3. before[peer.by].boot = Boot
    BY <2>1, <2>2 DEF HostInv, HostOf, Issued
  <2>4. /\ UNCHANGED <<ran, peer>>
        /\ reply'.text \in {"accepted", "no"}
    BY <1>3 DEF begin, Answer
  <2>5. QED
    BY <1>1, <2>1, <2>3, <2>4 DEF BoardInv, Boot
<1>4. CASE status
  <2>1. /\ reply'.text = "status" /\ reply'.boot = Boot
        /\ reply'.nonce <= challenge'.nonce
    <3>1. \/ /\ challenge' = [nonce |-> challenge.nonce + 1, valid |-> TRUE, issued |-> TRUE]
             /\ reply' = Status(Boot, challenge.nonce + 1)
          \/ /\ challenge' = [challenge EXCEPT !.valid = FALSE]
             /\ reply' = Status(Boot, 0)
      BY <1>4 DEF status
    <3>2. challenge \in Challenge /\ challenge.nonce \in Nat
      BY ElementTypes DEF TypeOK, Challenge
    <3>3. [challenge EXCEPT !.valid = FALSE].nonce = challenge.nonce
      BY <3>2 DEF Challenge
    <3>4. CASE challenge' = [challenge EXCEPT !.valid = FALSE] /\ reply' = Status(Boot, 0)
      BY <3>2, <3>3, <3>4 DEF Status
    <3>5. CASE /\ challenge' = [nonce |-> challenge.nonce + 1, valid |-> TRUE, issued |-> TRUE]
               /\ reply' = Status(Boot, challenge.nonce + 1)
      BY <3>2, <3>5 DEF Status
    <3>6. QED
      BY <3>1, <3>4, <3>5
  <2>2. UNCHANGED <<ran, peer, receiving>>
    BY <1>4 DEF status
  <2>3. QED
    BY <1>1, <2>1, <2>2 DEF BoardInv, Boot
<1>5. CASE RefuseHeader
  <2>1. reply'.text = "no" /\ peer.request > 0 /\ UNCHANGED <<ran, peer, receiving>>
    BY <1>5 DEF RefuseHeader, HasHeader, Answer
  <2>2. QED
    BY <1>1, <2>1 DEF BoardInv, Boot
<1>6. CASE finish \/ StorageFails
  <2>1. /\ reply'.text \in {"ok", "no"} /\ receiving
        /\ UNCHANGED <<ran, peer, receiving>>
    BY <1>6 DEF finish, StorageFails, HasChunk, Answer
  <2>2. QED
    BY <1>1, <2>1 DEF BoardInv, Boot
<1>7. CASE Listen \/ feed
  BY <1>1, <1>7 DEF Listen, feed, link, BoardInv, Boot
<1>8. CASE Accept
  <2>1. ~receiving' /\ reply' = None
    BY <1>8 DEF Accept, CleanSlate
  <2>2. QED
    BY <2>1 DEF BoardInv
<1>9. CASE ChallengeExpires
  <2>1. challenge \in Challenge /\ challenge' = [challenge EXCEPT !.valid = FALSE]
    BY <1>9 DEF ChallengeExpires, TypeOK, Challenge
  <2>2. challenge'.nonce = challenge.nonce
    BY <2>1 DEF Challenge
  <2>3. QED
    BY <1>1, <1>9, <2>2 DEF ChallengeExpires, link, BoardInv, Boot
<1>10. CASE flush_reply /\ ~closed_peer
  <2>1. reply' = None /\ UNCHANGED <<ran, peer, receiving>>
    BY <1>10 DEF flush_reply
  <2>2. QED
    BY <1>1, <2>1 DEF BoardInv, Boot
<1>11. ran[Boot] \in Images
  BY DEF TypeOK, Boot
<1>12. CASE flush_and_install
  <2>1. bin \in Images
    BY <1>12 DEF flush_and_install, StagedIsCurrent, TypeOK, Connections, Images
  <2>2. QED
    BY <1>2, <1>12, <2>1 DEF flush_and_install
<1>13. CASE Reset \/ ResetInFinish \/ StopListening \/ DropPeer
  BY <1>2, <1>11, <1>13 DEF Reset, ResetInFinish, StopListening, DropPeer
<1>14. QED
  BY <1>2, <1>3, <1>4, <1>5, <1>6, <1>7, <1>8, <1>9, <1>10, <1>12, <1>13 DEF Board

\* An upload with no header on its way gets none from the board, nor is it armed.
LEMMA NoHeaderStable ==
  ASSUME TypeOK, StagedIsCurrent, BoardInv, Board, NEW u \in Uploads, NoHeader(u)
  PROVE  NoHeader(u)' /\ armed'[u] = armed[u]
<1>1. CASE Stays
  BY <1>1 DEF Stays, NoHeader
<1>2. ASSUME peer' = None, UNCHANGED backlog
      PROVE  NoHeader(u)'
  BY <1>2 DEF NoHeader
<1>3. ASSUME peer' = None, backlog' = <<>>
      PROVE  NoHeader(u)'
  <2>1. Len(backlog') = 0
    BY <1>3, EmptyType
  <2>2. QED
    BY <1>3, <2>1 DEF NoHeader
<1>4. CASE UNCHANGED armed /\ Accept
  <2>1. 1 \in 1..Len(backlog)
    BY <1>4, AcceptType, ElementTypes
  <2>2. QED
    BY <1>4, <2>1, AcceptType, ElementTypes DEF NoHeader
<1>5. CASE Arms
  <2>1. peer.by # u
    BY <1>5 DEF Arms, NoHeader
  <2>2. armed'[u] = armed[u]
    BY <1>5, <2>1 DEF Arms, TypeOK
  <2>3. QED
    BY <1>2, <1>3, <1>5, <2>2 DEF Arms
<1>6. QED
  BY <1>1, <1>2, <1>3, <1>4, <1>5, BoardConnections DEF Stays, Drops

\* What the board delivers is true of the upload it goes to.
LEMMA BoardKeepsWire ==
  ASSUME TypeOK, CleanSlate, StagedIsCurrent, ConnectionInv, BoardInv, WireInv, HostInv,
         Board, NEW u \in Uploads
  PROVE  WireOf(u)'
<1>1. UNCHANGED <<phase, before>>
  BY BoardConnections
<1>2. CASE wire'[u] = wire[u]
  <2>1. wire[u] # None => wire[u].boot \in Nat /\ wire[u].nonce \in Nat
    BY ElementTypes, ReplyFields
  <2>2. wire[u] # None /\ wire[u].text = "status" => Issued(wire[u].boot, wire[u].nonce)'
    BY <1>2, <2>1, IssuedStable DEF WireInv, WireOf, Issued
  <2>3. wire[u] # None /\ wire[u].text = "no" => armed'[u] = "no" /\ NoHeader(u)'
    BY NoHeaderStable DEF WireInv, WireOf
  <2>4. QED
    BY <1>1, <1>2, <2>2, <2>3 DEF WireInv, WireOf
<1>3. CASE wire'[u] # wire[u]
  <2>1. /\ flush_reply \/ flush_and_install
        /\ Delivered
    BY <1>3 DEF Board, Listen, StopListening, Accept, DropPeer, status, ChallengeExpires,
       RefuseHeader, begin, feed, finish, StorageFails, Reset, ResetInFinish,
       flush_reply, flush_and_install, host
  <2>2. peer # None /\ reply # None
    BY <2>1 DEF flush_reply, flush_and_install
  <2>3. peer.open /\ peer.by = u /\ wire'[u] = reply
    BY <1>3, <2>1 DEF Delivered, TypeOK
  <2>4. reply \in Replies /\ peer \in Connections
    BY <2>2, ElementTypes
  <2>5. phase'[u] \in Talking
    BY <1>1, <2>2, <2>3 DEF ConnectionInv, ConnectionOf
  <2>6. CASE reply.text = "status"
    <3>1. reply.boot = Boot /\ reply.nonce <= challenge.nonce
      BY <2>2, <2>6 DEF BoardInv
    <3>2. before[u].boot <= Boot
      BY DEF HostInv, HostOf, Issued
    <3>3. UNCHANGED <<ran, challenge>>
      BY <2>1, <2>4, <2>6, ReplyFields DEF flush_reply, flush_and_install
    <3>4. Issued(reply.boot, reply.nonce)
      BY <3>1, ElementTypes DEF Issued
    <3>5. Issued(wire[u].boot, wire[u].nonce)'
      BY <2>3, <3>3, <3>4 DEF Issued, Boot
    <3>6. wire'[u].text = "status" /\ wire'[u].boot >= before'[u].boot
      BY <1>1, <2>3, <2>6, <3>1, <3>2, ElementTypes
    <3>7. QED
      BY <2>5, <3>5, <3>6 DEF WireOf
  <2>7. CASE reply.text = "no"
    <3>1. peer.request > 0
      BY <2>2, <2>7 DEF BoardInv
    <3>2. flush_reply /\ closed_peer
      BY <2>1, <2>4, <2>7, ReplyFields DEF flush_reply, flush_and_install, Replies
    <3>3. UNCHANGED <<armed, backlog>> /\ peer' = None
      BY <3>2 DEF flush_reply, closed_peer
    <3>4. armed[u] = "no" /\ \A i \in 1..Len(backlog) :
                               ~(backlog[i].by = u /\ backlog[i].request > 0)
      BY <2>2, <2>3, <3>1 DEF ConnectionInv, ConnectionOf
    <3>5. armed'[u] = "no" /\ NoHeader(u)'
      BY <3>3, <3>4 DEF NoHeader
    <3>6. QED
      BY <2>3, <2>5, <2>7, <3>5 DEF WireOf
  <2>8. QED
    BY <2>3, <2>5, <2>6, <2>7 DEF WireOf
<1>4. QED
  BY <1>2, <1>3

\* The board arms an image only while its upload has neither failed nor succeeded.
LEMMA BoardKeepsHost ==
  ASSUME TypeOK, StagedIsCurrent, ConnectionInv, BoardInv, HostInv, Board,
         NEW u \in Uploads
  PROVE  HostOf(u)'
<1>1. UNCHANGED <<phase, before>>
  BY BoardConnections
<1>2. before[u].boot \in Nat /\ before[u].nonce \in Nat
  BY ElementTypes, OtaAssumption DEF OtaAssumption
<1>3. Issued(before[u].boot, before[u].nonce)'
  BY <1>1, <1>2, IssuedStable DEF HostInv, HostOf, Issued
<1>4. armed'[u] = armed[u] \/ phase[u] \in Sent
  <2>1. CASE Arms
    BY <2>1 DEF Arms, ConnectionInv, ConnectionOf, TypeOK
  <2>2. CASE ~Arms
    BY <2>2, BoardConnections DEF Stays, Drops
  <2>3. QED
    BY <2>1, <2>2
<1>5. Boot' >= Boot /\ Boot' \in Nat
  BY IssuedStable
<1>6. QED
  BY <1>1, <1>2, <1>3, <1>4, <1>5, ElementTypes DEF HostInv, HostOf, Sent
-----------------------------------------------------------------------------
(* Steps of the uploader *)

\* What a step of one upload does to the phases, and to what it knows.
LEMMA UploadMoves ==
  ASSUME TypeOK, NEW u \in Uploads, upload(u)
  PROVE  /\ \A v \in Uploads \ {u} :
              phase'[v] = phase[v] /\ before'[v] = before[v] /\ wire'[v] = wire[v]
         /\ phase[u] \notin Early => phase'[u] \notin Early /\ UNCHANGED before
         /\ phase[u] \in Sent => phase'[u] \in Sent \/ Refused(u)
         /\ phase[u] \in Talking => phase'[u] \in Talking \/ HangUp(u)
         /\ UNCHANGED <<ran, armed, receiving, reply, challenge>>
<1>1. UNCHANGED <<ran, armed, receiving, reply, challenge>>
  BY UploadOnPeer
<1>2. \A v \in Uploads \ {u} :
        phase'[v] = phase[v] /\ before'[v] = before[v] /\ wire'[v] = wire[v]
  <2>1. \A v \in Uploads \ {u} : phase'[v] = phase[v]
    BY DEF upload, Query, QueryAnswered, SendHeader, HeaderAccepted, SendChunk, SendLost,
       Refused, Acknowledged, Poll, PollAnswered, ConnectionFails, DeadlinePasses, Steps, TypeOK
  <2>2. \A v \in Uploads \ {u} : before'[v] = before[v]
    BY DEF upload, Query, QueryAnswered, SendHeader, HeaderAccepted, SendChunk, SendLost,
       Refused, Acknowledged, Poll, PollAnswered, ConnectionFails, DeadlinePasses, Connect, TypeOK
  <2>3. \A v \in Uploads \ {u} : wire'[v] = wire[v]
    BY DEF upload, Query, QueryAnswered, SendHeader, HeaderAccepted, SendChunk, SendLost,
       Refused, Acknowledged, Poll, PollAnswered, ConnectionFails, DeadlinePasses, Connect,
       HangUp, TypeOK
  <2>4. QED
    BY <2>1, <2>2, <2>3
<1>3. \A p, q : Steps(u, p, q) => phase[u] = p /\ phase'[u] = q
  BY DEF Steps, TypeOK
<1>4. CASE Query(u) \/ SendHeader(u) \/ Poll(u)
  BY <1>1, <1>2, <1>3, <1>4 DEF Query, SendHeader, Poll, Connect, Early, Sent, Talking
<1>5. CASE QueryAnswered(u)
  BY <1>1, <1>2, <1>3, <1>5 DEF QueryAnswered, Early, Sent, Talking
<1>6. CASE HeaderAccepted(u) \/ SendChunk(u) \/ SendLost(u)
  BY <1>1, <1>2, <1>3, <1>6 DEF HeaderAccepted, SendChunk, SendLost, Early, Sent, Talking
<1>7. CASE Refused(u)
  BY <1>1, <1>2, <1>3, <1>7 DEF Refused, Early, Sent, Talking
<1>8. CASE Acknowledged(u) \/ PollAnswered(u)
  BY <1>1, <1>2, <1>3, <1>8 DEF Acknowledged, PollAnswered, Early, Sent, Talking
<1>9. CASE ConnectionFails(u)
  BY <1>1, <1>2, <1>3, <1>9 DEF ConnectionFails, Early, Sent, Talking
<1>10. CASE DeadlinePasses(u)
  BY <1>1, <1>2, <1>3, <1>10 DEF DeadlinePasses, Early, Sent, Talking
<1>11. QED
  BY <1>4, <1>5, <1>6, <1>7, <1>8, <1>9, <1>10 DEF upload

\* What such a step does to the connections: they stay, u closes its own, it opens
\* one, or the peer has a chunk more.
LEMMA UploadConnections ==
  ASSUME TypeOK, NEW u \in Uploads, upload(u)
  PROVE  \/ UNCHANGED <<peer, backlog>>
         \/ HangUp(u)
         \/ \E request \in 0..MaxChallenges :
              /\ Connect(u, request) /\ phase'[u] \in Talking /\ phase[u] \notin Talking
              /\ request > 0 => /\ phase[u] = "ready" /\ phase'[u] = "authorizing"
                                /\ request = before[u].nonce
         \/ SendChunk(u) /\ UNCHANGED backlog
<1>1. \A p, q : Steps(u, p, q) => phase[u] = p /\ phase'[u] = q
  BY DEF Steps, TypeOK
<1>2. CASE Query(u) \/ Poll(u)
  <2>1. 0 \in 0..MaxChallenges
    BY OtaAssumption DEF OtaAssumption
  <2>2. Connect(u, 0) /\ phase'[u] \in Talking /\ phase[u] \notin Talking
    BY <1>1, <1>2 DEF Query, Poll, Talking
  <2>3. QED
    BY <2>1, <2>2
<1>3. CASE SendHeader(u)
  <2>1. before[u].nonce \in 0..MaxChallenges
    BY ElementTypes
  <2>2. /\ Connect(u, before[u].nonce) /\ phase'[u] \in Talking /\ phase[u] \notin Talking
        /\ phase[u] = "ready" /\ phase'[u] = "authorizing"
    BY <1>1, <1>3 DEF SendHeader, Talking
  <2>3. QED
    BY <2>1, <2>2
<1>4. CASE HeaderAccepted(u) \/ SendLost(u) \/ DeadlinePasses(u)
  BY <1>4 DEF HeaderAccepted, SendLost, DeadlinePasses, board, link
<1>5. QED
  BY <1>2, <1>3, <1>4 DEF upload, QueryAnswered, SendChunk, Refused, Acknowledged,
     PollAnswered, ConnectionFails

\* A connection stays in agreement with its upload when the upload takes a step.
LEMMA ConnectionStable ==
  ASSUME TypeOK, WireInv, NEW u \in Uploads, upload(u),
         NEW c \in Connections, NEW d \in Connections, ConnectionOf(c),
         c.request > 0 /\ c.by = u => ~NoHeader(u),
         d.by = c.by, d.request = c.request,
         d.open => c.open /\ (HangUp(u) => c.by # u),
         d.sent = c.sent \/ (c.by = u /\ (d.sent = ImageSize => phase'[u] \in Sent))
  PROVE  ConnectionOf(d)'
<1>1. CASE c.by # u
  BY <1>1, UploadMoves DEF ConnectionOf, Connections
<1>2. CASE c.by = u
  <2>1. d.open => phase'[u] \in Talking
    BY <1>2, UploadMoves DEF ConnectionOf
  <2>2. c.request > 0 => ~Refused(u)
    BY <1>2 DEF Refused, Reads, WireInv, WireOf
  <2>3. c.request > 0 => /\ phase'[u] \notin Early /\ armed'[u] = "no"
                         /\ c.request = before'[u].nonce
    BY <1>2, UploadMoves DEF ConnectionOf
  <2>4. c.request > 0 /\ c.sent = ImageSize => phase'[u] \in Sent
    BY <1>2, <2>2, UploadMoves DEF ConnectionOf
  <2>5. QED
    BY <1>2, <2>1, <2>3, <2>4 DEF ConnectionOf
<1>3. QED
  BY <1>1, <1>2

\* An upload sends its header once and keeps its connection until it is over.
LEMMA UploadKeepsConnections ==
  ASSUME TypeOK, ConnectionInv, WireInv, HostInv, NEW u \in Uploads, upload(u)
  PROVE  ConnectionInv'
<1> USE ElementTypes
<1>1. /\ \A i \in 1..Len(backlog) :
           ConnectionOf(backlog[i]) /\ (backlog[i].request > 0 => ~NoHeader(backlog[i].by))
      /\ peer # None => ConnectionOf(peer) /\ (peer.request > 0 => ~NoHeader(peer.by))
  BY DEF ConnectionInv, NoHeader
<1>2. CASE HangUp(u)
  <2>1. /\ Len(backlog') = Len(backlog) /\ (peer' = None <=> peer = None)
        /\ \A i \in 1..Len(backlog) : backlog'[i] = Hung(u, backlog[i])
        /\ peer # None => peer' = Hung(u, peer)
    BY <1>2, HangUpType
  <2>2. \A c \in Connections :
          /\ Hung(u, c) \in Connections
          /\ Hung(u, c).by = c.by /\ Hung(u, c).request = c.request
          /\ Hung(u, c).sent = c.sent
          /\ Hung(u, c).open => c.open /\ c.by # u
    BY HungType
  <2>3. \A c, d \in Connections :
          d = Hung(u, c) /\ ConnectionOf(c) /\ (c.request > 0 => ~NoHeader(c.by)) =>
            ConnectionOf(d)'
    BY <1>2, <2>2, ConnectionStable
  <2>4. \A i \in 1..Len(backlog) : backlog'[i] \in Connections
    BY <2>1, <2>2
  <2>5. peer # None => peer' \in Connections
    BY <2>1, <2>2
  <2>6. \A i \in 1..Len(backlog') : ConnectionOf(backlog[i])'
    BY <1>1, <2>1, <2>3, <2>4 DEF ConnectionOf
  <2>7. peer' # None => ConnectionOf(peer)'
    BY <1>1, <2>1, <2>3, <2>5 DEF ConnectionOf
  <2>8. \A i, j \in 1..Len(backlog') :
          i # j /\ backlog'[i].request > 0 /\ backlog'[j].request > 0 =>
            backlog'[i].by # backlog'[j].by
    BY <2>1, <2>2 DEF ConnectionInv
  <2>9. \A i \in 1..Len(backlog') :
          peer' # None /\ peer'.request > 0 /\ backlog'[i].request > 0 =>
            backlog'[i].by # peer'.by
    BY <2>1, <2>2 DEF ConnectionInv
  <2>10. \A i \in 1..Len(backlog') : backlog'[i].sent = 0
    BY <2>1, <2>2 DEF ConnectionInv
  <2>11. QED
    BY <2>6, <2>7, <2>8, <2>9, <2>10 DEF ConnectionInv
<1>3. ASSUME ~HangUp(u)
      PROVE  \A c \in Connections :
               ConnectionOf(c) /\ (c.request > 0 => ~NoHeader(c.by)) => ConnectionOf(c)'
  BY <1>3, ConnectionStable
<1>4. CASE ~HangUp(u) /\ UNCHANGED <<peer, backlog>>
  <2>1. \A i \in 1..Len(backlog) : ConnectionOf(backlog[i])'
    BY <1>1, <1>3, <1>4 DEF ConnectionOf
  <2>2. peer # None => ConnectionOf(peer)'
    BY <1>1, <1>3, <1>4 DEF ConnectionOf
  <2>3. QED
    BY <1>4, <2>1, <2>2 DEF ConnectionInv
<1>5. ASSUME ~HangUp(u), NEW request \in 0..MaxChallenges, Connect(u, request),
             phase'[u] \in Talking,
             request > 0 => /\ phase[u] = "ready" /\ phase'[u] = "authorizing"
                            /\ request = before[u].nonce
      PROVE  ConnectionInv'
  <2> DEFINE c == Connection(u, request)
  <2>1. /\ Len(backlog') = Len(backlog) + 1 /\ backlog'[Len(backlog) + 1] = c
        /\ \A i \in 1..Len(backlog) : backlog'[i] = backlog[i]
        /\ UNCHANGED <<peer, before>>
    BY <1>5, ConnectType DEF Connect
  <2>2. c.by = u /\ c.request = request /\ c.sent = 0
    BY DEF Connection
  <2>3. request > 0 => NoHeader(u) /\ armed[u] = "no"
    BY <1>5 DEF NoHeader, ConnectionInv, ConnectionOf, HostInv, HostOf, Early
  <2>4. UNCHANGED armed
    BY UploadMoves
  <2>5. ConnectionOf(c)'
    BY <1>5, <2>1, <2>2, <2>3, <2>4, OtaAssumption DEF OtaAssumption, ConnectionOf, Early
  <2> HIDE DEF c
  <2>6. \A i \in 1..Len(backlog) : ConnectionOf(backlog[i])' /\ backlog'[i].sent = 0
    BY <1>1, <1>3, <1>5, <2>1 DEF ConnectionOf, ConnectionInv
  <2>7. ConnectionOf(backlog[Len(backlog)])' /\ backlog'[Len(backlog')].sent = 0
    BY <2>1, <2>2, <2>5 DEF ConnectionOf
  <2>8. peer' # None => ConnectionOf(peer)'
    BY <1>1, <1>3, <1>5, <2>1 DEF ConnectionOf
  <2>9. \A i, j \in 1..Len(backlog') :
          i # j /\ backlog'[i].request > 0 /\ backlog'[j].request > 0 =>
            backlog'[i].by # backlog'[j].by
    BY <2>1, <2>2, <2>3 DEF ConnectionInv, NoHeader
  <2>10. \A i \in 1..Len(backlog') :
           peer' # None /\ peer'.request > 0 /\ backlog'[i].request > 0 =>
             backlog'[i].by # peer'.by
    BY <2>1, <2>2, <2>3 DEF ConnectionInv, NoHeader
  <2>11. \A i \in 1..Len(backlog') : ConnectionOf(backlog[i])' /\ backlog'[i].sent = 0
    BY <2>1, <2>6, <2>7
  <2>12. QED
    BY <2>8, <2>9, <2>10, <2>11 DEF ConnectionInv
<1>6. CASE ~HangUp(u) /\ SendChunk(u) /\ UNCHANGED backlog
  <2>1. /\ peer \in Connections /\ peer' \in Connections /\ peer' # None /\ peer # None
        /\ peer'.by = peer.by /\ peer'.request = peer.request /\ peer'.open = peer.open
        /\ peer'.sent = peer.sent + 1 /\ peer.by = u
    BY <1>6, ChunkType DEF SendChunk
  <2>2. peer'.sent = ImageSize => phase'[u] \in Sent
    BY <1>6 DEF SendChunk, Steps, Sent, TypeOK
  <2>3. ConnectionOf(peer) /\ (peer.request > 0 => ~NoHeader(peer.by))
    BY <1>1, <2>1
  <2>4. \A d \in Connections :
          /\ d.by = peer.by /\ d.request = peer.request /\ d.open = peer.open
          /\ d.sent = ImageSize => phase'[u] \in Sent
          => ConnectionOf(d)'
    BY <1>6, <2>1, <2>3, ConnectionStable
  <2>5. ConnectionOf(peer)'
    BY <2>1, <2>2, <2>4 DEF ConnectionOf
  <2>6. \A i \in 1..Len(backlog) : ConnectionOf(backlog[i])'
    BY <1>1, <1>3, <1>6 DEF ConnectionOf
  <2>7. QED
    BY <1>6, <2>1, <2>5, <2>6 DEF ConnectionInv
<1>7. QED
  BY <1>2, <1>4, <1>5, <1>6, UploadConnections

\* An upload never changes the boot it addresses while the board receives it.
LEMMA UploadKeepsBoard ==
  ASSUME TypeOK, CleanSlate, ConnectionInv, BoardInv, NEW u \in Uploads, upload(u)
  PROVE  BoardInv'
<1>1. /\ peer' = None <=> peer = None
      /\ peer # None => peer'.by = peer.by /\ peer'.request = peer.request
      /\ UNCHANGED <<ran, receiving, reply, challenge>>
  BY UploadOnPeer
<1>2. receiving => peer # None
  BY DEF CleanSlate
<1>3. receiving => before'[peer.by] = before[peer.by]
  <2>1. receiving => phase[peer.by] \notin Early /\ peer.by \in Uploads
    BY <1>2, ElementTypes DEF BoardInv, ConnectionInv, ConnectionOf, Connections
  <2>2. QED
    BY <2>1, UploadMoves
<1>4. reply # None => peer # None
  BY DEF CleanSlate
<1>5. receiving' => peer'.request > 0 /\ before'[peer'.by].boot = Boot'
  BY <1>1, <1>2, <1>3 DEF BoardInv, Boot
<1>6. QED
  BY <1>1, <1>4, <1>5 DEF BoardInv, Boot

\* A header is sent for the upload that takes the step, and only when it is ready.
LEMMA NoHeaderHolds ==
  ASSUME TypeOK, NEW u \in Uploads, upload(u), NEW v \in Uploads, NoHeader(v),
         u # v \/ phase[u] # "ready"
  PROVE  NoHeader(v)'
<1> USE ElementTypes
<1>1. /\ peer' = None <=> peer = None
      /\ peer # None => peer'.by = peer.by /\ peer'.request = peer.request
  BY UploadOnPeer
<1>2. CASE UNCHANGED backlog
  BY <1>1, <1>2 DEF NoHeader
<1>3. CASE HangUp(u)
  <2>1. /\ Len(backlog') = Len(backlog)
        /\ \A i \in 1..Len(backlog) :
             backlog'[i].by = backlog[i].by /\ backlog'[i].request = backlog[i].request
    BY <1>3, HangUpType, HungType
  <2>2. QED
    BY <1>1, <2>1 DEF NoHeader
<1>4. ASSUME NEW request \in 0..MaxChallenges, Connect(u, request),
             request > 0 => phase[u] = "ready"
      PROVE  NoHeader(v)'
  <2>1. /\ Len(backlog') = Len(backlog) + 1
        /\ \A i \in 1..Len(backlog) : backlog'[i] = backlog[i]
        /\ backlog'[Len(backlog) + 1] = Connection(u, request)
    BY <1>4, ConnectType
  <2>2. Connection(u, request).by = u /\ Connection(u, request).request = request
    BY DEF Connection
  <2>3. QED
    BY <1>1, <1>4, <2>1, <2>2, OtaAssumption DEF OtaAssumption, NoHeader
<1>5. QED
  BY <1>2, <1>3, <1>4, UploadConnections

\* An upload hangs up before what waits for it could become untrue.
LEMMA UploadKeepsWire ==
  ASSUME TypeOK, WireInv, NEW u \in Uploads, upload(u), NEW v \in Uploads
  PROVE  WireOf(v)'
<1>1. UNCHANGED <<ran, armed, challenge>>
  BY UploadMoves
<1>2. CASE v # u
  <2>1. phase'[v] = phase[v] /\ before'[v] = before[v] /\ wire'[v] = wire[v]
    BY <1>2, UploadMoves
  <2>2. NoHeader(v) => NoHeader(v)'
    BY <1>2, NoHeaderHolds
  <2>3. QED
    BY <1>1, <2>1, <2>2 DEF WireInv, WireOf, Issued, Boot
<1>3. CASE v = u
  <2>1. CASE wire'[u] = None
    BY <1>3, <2>1 DEF WireOf
  <2>2. CASE wire'[u] # None
    <3>1. ~HangUp(u) /\ wire'[u] = wire[u]
      BY <2>2 DEF upload, Query, QueryAnswered, SendHeader, HeaderAccepted, SendChunk,
         SendLost, Refused, Acknowledged, Poll, PollAnswered, ConnectionFails,
         DeadlinePasses, Connect, HangUp, TypeOK
    <3>2. phase[u] \in Talking
      BY <2>2, <3>1 DEF WireInv, WireOf
    <3>3. SendChunk(u) \/ SendLost(u)
      BY <2>2, <3>1, <3>2 DEF upload, Query, QueryAnswered, SendHeader, HeaderAccepted,
         Refused, Acknowledged, Poll, PollAnswered, ConnectionFails,
         DeadlinePasses, Steps, Talking, TypeOK
    <3>4. phase[u] = "sending" /\ phase'[u] \in {"sending", "acking"}
      BY <3>3 DEF SendChunk, SendLost, Steps, TypeOK
    <3>5. NoHeader(u) => NoHeader(u)'
      BY <3>4, NoHeaderHolds
    <3>6. QED
      BY <1>1, <1>3, <3>1, <3>4, <3>5 DEF WireInv, WireOf, Issued, Boot, Talking
  <2>3. QED
    BY <2>1, <2>2
<1>4. QED
  BY <1>2, <1>3

\* An upload reports only what it has read.
LEMMA UploadKeepsHost ==
  ASSUME TypeOK, WireInv, HostInv, NEW u \in Uploads, upload(u), NEW v \in Uploads
  PROVE  HostOf(v)'
<1>1. UNCHANGED <<ran, armed, challenge>>
  BY UploadMoves
<1>2. CASE v # u
  BY <1>1, <1>2, UploadMoves DEF HostInv, HostOf, Issued, Boot
<1>3. \A p, q : Steps(u, p, q) => phase[u] = p /\ phase'[u] = q
  BY DEF Steps, TypeOK
<1>4. CASE v = u /\ QueryAnswered(u)
  <2>1. wire[u] \in Replies /\ wire[u].text = "status" /\ wire[u].boot > 0
    BY <1>4, ElementTypes, ReplyFields DEF QueryAnswered, Reads
  <2>2. Issued(wire[u].boot, wire[u].nonce)
    BY <1>4, <2>1 DEF QueryAnswered, Reads, WireInv, WireOf
  <2>3. phase[u] = "asking"
    BY <1>3, <1>4 DEF QueryAnswered
  <2>4. CASE /\ phase'[u] = "ready"
             /\ before' = [before EXCEPT ![u] = [boot |-> wire[u].boot, nonce |-> wire[u].nonce]]
    <3>1. before'[u].boot = wire[u].boot /\ before'[u].nonce = wire[u].nonce
      BY <2>4 DEF TypeOK
    <3>2. QED
      BY <1>1, <1>4, <2>1, <2>2, <2>3, <2>4, <3>1 DEF HostInv, HostOf, Issued, Boot
  <2>5. CASE phase'[u] = "failed" /\ UNCHANGED before
    BY <1>1, <1>4, <2>3, <2>5 DEF HostInv, HostOf, Issued, Boot
  <2>6. QED
    BY <1>3, <1>4, <2>4, <2>5 DEF QueryAnswered
<1>5. CASE v = u /\ Refused(u)
  <2>1. armed[u] = "no"
    BY <1>5 DEF Refused, Reads, WireInv, WireOf
  <2>2. phase'[u] = "failed" /\ UNCHANGED before
    BY <1>3, <1>5 DEF Refused
  <2>3. QED
    BY <1>1, <1>5, <2>1, <2>2 DEF HostInv, HostOf, Issued, Boot
<1>6. CASE v = u /\ PollAnswered(u)
  <2>1. phase[u] = "confirming" /\ UNCHANGED before
        /\ phase'[u] = IF NewBoot(u) THEN "success" ELSE "polling"
    BY <1>3, <1>6 DEF PollAnswered
  <2>2. /\ wire[u].boot \in Nat /\ before[u].boot \in Nat /\ Boot \in Nat
        /\ wire[u].boot <= Boot /\ wire[u].boot >= before[u].boot
    BY <1>6, <2>1, ElementTypes, ReplyFields, OtaAssumption
       DEF OtaAssumption, PollAnswered, Reads, WireInv, WireOf, Issued
  <2>3. NewBoot(u) => before[u].boot < Boot
    BY <2>2 DEF NewBoot
  <2>4. QED
    BY <1>1, <1>6, <2>1, <2>3 DEF HostInv, HostOf, Issued, Boot
<1>7. CASE v = u /\ (Query(u) \/ SendHeader(u) \/ Poll(u))
  <2>1. UNCHANGED before
    BY <1>7 DEF Query, SendHeader, Poll, Connect
  <2>2. QED
    BY <1>1, <1>3, <1>7, <2>1 DEF Query, SendHeader, Poll, HostInv, HostOf, Issued, Boot
<1>8. CASE v = u /\ (HeaderAccepted(u) \/ SendChunk(u) \/ SendLost(u) \/ Acknowledged(u))
  BY <1>1, <1>3, <1>8 DEF HeaderAccepted, SendChunk, SendLost, Acknowledged,
     HostInv, HostOf, Issued, Boot
<1>9. CASE v = u /\ (ConnectionFails(u) \/ DeadlinePasses(u))
  BY <1>1, <1>3, <1>9 DEF ConnectionFails, DeadlinePasses, HostInv, HostOf, Issued, Boot
<1>10. QED
  BY <1>2, <1>4, <1>5, <1>6, <1>7, <1>8, <1>9 DEF upload

-----------------------------------------------------------------------------
(* The invariant of board, uploaders and connections *)

\* Connections, replies and uploads agree with each other in every reachable state.
THEOREM OtaInvariant == Spec => []IInv
<1>1. Init => ConnectionInv /\ BoardInv /\ WireInv /\ HostInv
  <2> SUFFICES ASSUME Init PROVE ConnectionInv /\ BoardInv /\ WireInv /\ HostInv
    OBVIOUS
  <2>1. Boot = 1
    BY DEF Init, Boot
  <2>2. ConnectionInv
    BY DEF Init, ConnectionInv
  <2>3. BoardInv
    BY DEF Init, BoardInv
  <2>4. WireInv
    BY DEF Init, WireInv, WireOf
  <2>5. \A u \in Uploads : /\ phase[u] = "idle" /\ armed[u] = "no"
                           /\ before[u].boot = 0 /\ before[u].nonce = 0
    BY DEF Init
  <2>6. HostInv
    BY <2>1, <2>5 DEF Init, HostInv, HostOf, Issued
  <2>7. QED
    BY <2>2, <2>3, <2>4, <2>6
<1>2. IInv /\ CleanInv' /\ [Next]_vars => IInv'
  <2> SUFFICES ASSUME IInv, CleanInv', [Next]_vars PROVE IInv'
    OBVIOUS
  <2>1. TypeOK /\ CleanSlate /\ StagedIsCurrent
    BY DEF IInv, CleanInv
  <2>2. CASE Board
    <3>1. ConnectionInv' /\ BoardInv'
      BY <2>1, <2>2, BoardKeepsConnections, BoardKeepsBoard DEF IInv
    <3>2. \A u \in Uploads : WireOf(u)' /\ HostOf(u)'
      BY <2>1, <2>2, BoardKeepsWire, BoardKeepsHost DEF IInv
    <3>3. QED
      BY <3>1, <3>2 DEF IInv, WireInv, HostInv
  <2>3. ASSUME NEW u \in Uploads, upload(u) PROVE IInv'
    <3>1. ConnectionInv' /\ BoardInv'
      BY <2>1, <2>3, UploadKeepsConnections, UploadKeepsBoard DEF IInv
    <3>2. \A v \in Uploads : WireOf(v)' /\ HostOf(v)'
      BY <2>1, <2>3, UploadKeepsWire, UploadKeepsHost DEF IInv
    <3>3. QED
      BY <3>1, <3>2 DEF IInv, WireInv, HostInv
  <2>4. CASE UNCHANGED vars
    <3>1. UNCHANGED <<ran, armed, backlog, peer, receiving, reply, challenge, phase, before, wire>>
      BY <2>4 DEF vars, board, host, link
    <3>2. ConnectionInv' /\ BoardInv'
      BY <3>1 DEF IInv, ConnectionInv, ConnectionOf, BoardInv, Boot
    <3>3. WireInv' /\ HostInv'
      BY <3>1 DEF IInv, WireInv, WireOf, NoHeader, HostInv, HostOf, Issued, Boot
    <3>4. QED
      BY <3>2, <3>3 DEF IInv
  <2>5. QED
    BY <2>2, <2>3, <2>4 DEF Next
<1>3. CleanInv /\ ConnectionInv /\ BoardInv /\ WireInv /\ HostInv => IInv
  BY DEF IInv
<1>4. QED
  BY <1>1, <1>2, <1>3, OtaClean, PTL DEF Spec

-----------------------------------------------------------------------------
(* The refinement *)

\* A step that changes nothing an operator sees is a stutter of AtomicUpdate.
LEMMA Stutters ==
  ASSUME UNCHANGED ran,
         \A u \in Uploads : /\ armed'[u] = "done" <=> armed[u] = "done"
                            /\ before'[u].boot = before[u].boot
                            /\ Result(u)' = Result(u)
  PROVE  UNCHANGED Abstract!vars
<1>1. {u \in Uploads : armed'[u] = "done"} = {u \in Uploads : armed[u] = "done"}
  OBVIOUS
<1>2. [u \in Uploads |-> before'[u].boot] = [u \in Uploads |-> before[u].boot]
  OBVIOUS
<1>3. [u \in Uploads |-> Result(u)]' = [u \in Uploads |-> Result(u)]
  OBVIOUS
<1>4. QED
  BY <1>1, <1>2, <1>3 DEF Abstract!vars

\* The board restarts, into its own image or into the one staged.
LEMMA BoardSimulates ==
  ASSUME IInv, Board
  PROVE  [Abstract!Next]_Abstract!vars
<1> USE DEF IInv, CleanInv
<1>1. UNCHANGED <<phase, before>>
  BY BoardConnections
<1>2. \A u \in Uploads : before'[u].boot = before[u].boot /\ Result(u)' = Result(u)
  BY <1>1 DEF Result
<1>3. CASE Reset \/ ResetInFinish
  <2>1. UNCHANGED armed /\ ran' = Append(ran, ran[Len(ran)])
    BY <1>3 DEF Reset, ResetInFinish, Reboots, Boot
  <2>2. Abstract!Restart
    <3>1. [u \in Uploads |-> before'[u].boot] = [u \in Uploads |-> before[u].boot]
      BY <1>2
    <3>2. [u \in Uploads |-> Result(u)]' = [u \in Uploads |-> Result(u)]
      BY <1>2
    <3>3. QED
      BY <2>1, <3>1, <3>2 DEF Abstract!Restart
  <2>3. QED
    BY <2>2 DEF Abstract!Next
<1>4. CASE flush_and_install
  <2>1. /\ peer # None /\ bin = peer.by /\ peer.sent = ImageSize /\ bin \in Uploads
        /\ reply # None /\ reply.text = "ok" /\ peer \in Connections
    BY <1>4, ElementTypes, ReplyFields DEF flush_and_install, StagedIsCurrent, Connections
  <2>2. peer.request > 0 /\ before[bin].boot = Boot
    BY <2>1 DEF BoardInv
  <2>3. armed[bin] = "no" /\ phase[bin] \in Sent
    BY <2>1, <2>2 DEF ConnectionInv, ConnectionOf
  <2>4. CASE Reboots(bin) /\ armed' = [armed EXCEPT ![bin] = "done"]
    <3>1. Result(bin) \notin {"failed", "success"}
      BY <2>1, <2>2, <2>3, ElementTypes DEF Result, Sent, HostInv, HostOf, Over
    <3>2. ran' = Append(ran, bin)
      BY <2>4 DEF Reboots
    <3>3. {u \in Uploads : armed'[u] = "done"} = {u \in Uploads : armed[u] = "done"} \cup {bin}
      BY <2>1, <2>4 DEF TypeOK
    <3>4. [u \in Uploads |-> before'[u].boot] = [u \in Uploads |-> before[u].boot]
      BY <1>2
    <3>5. [u \in Uploads |-> Result(u)]' = [u \in Uploads |-> Result(u)]
      BY <1>2
    <3>6. PICK u \in Uploads : u = bin
      BY <2>1
    <3>7. Abstract!Install(u)
      BY <2>2, <2>3, <3>1, <3>2, <3>3, <3>4, <3>5, <3>6 DEF Abstract!Install, Boot
    <3>8. QED
      BY <3>7 DEF Abstract!Next
  <2>5. CASE UNCHANGED ran /\ armed' = [armed EXCEPT ![bin] = "failed"]
    <3>1. \A u \in Uploads : armed'[u] = "done" <=> armed[u] = "done"
      BY <2>1, <2>3, <2>5 DEF TypeOK
    <3>2. QED
      BY <1>2, <2>5, <3>1, Stutters
  <2>6. QED
    BY <1>4, <2>4, <2>5 DEF flush_and_install
<1>5. CASE UNCHANGED <<ran, armed>>
  BY <1>2, <1>5, Stutters
<1>6. CASE ~Reset /\ ~ResetInFinish /\ ~flush_and_install
  <2>1. UNCHANGED <<ran, armed>>
    BY <1>6 DEF Board, Listen, StopListening, Accept, DropPeer, status, ChallengeExpires,
       RefuseHeader, begin, feed, finish, StorageFails, flush_reply
  <2>2. QED
    BY <1>5, <2>1
<1>7. QED
  BY <1>3, <1>4, <1>6

\* An uploader learns the boot it addresses, or reports.
LEMMA UploadSimulates ==
  ASSUME IInv, NEW u \in Uploads, upload(u)
  PROVE  [Abstract!Next]_Abstract!vars
<1> USE DEF IInv, CleanInv
<1>1. /\ UNCHANGED <<ran, armed>>
      /\ \A v \in Uploads \ {u} : before'[v] = before[v] /\ Result(v)' = Result(v)
  BY UploadMoves DEF Result
<1>2. \A p, q : Steps(u, p, q) => phase[u] = p /\ phase'[u] = q
  BY DEF Steps, TypeOK
<1>3. phase[u] \notin Over
  BY <1>2 DEF upload, Query, QueryAnswered, SendHeader, HeaderAccepted, SendChunk, SendLost,
     Refused, Acknowledged, Poll, PollAnswered, ConnectionFails, DeadlinePasses, Over
<1>4. CASE phase'[u] \notin Over /\ before'[u].boot = before[u].boot
  <2>1. Result(u)' = Result(u)
    BY <1>3, <1>4 DEF Result
  <2>2. QED
    BY <1>1, <1>4, <2>1, Stutters
<1>5. CASE QueryAnswered(u) /\ phase'[u] = "ready"
  <2>1. before' = [before EXCEPT ![u] = [boot |-> wire[u].boot, nonce |-> wire[u].nonce]]
    BY <1>2, <1>5 DEF QueryAnswered
  <2>2. wire[u] \in Replies /\ wire[u].text = "status" /\ phase[u] = "asking"
    BY <1>2, <1>5, ElementTypes DEF QueryAnswered, Reads
  <2>3. wire[u].boot \in 1..Len(ran)
    <3>1. wire[u].boot <= Boot /\ Boot \in Nat
      BY <2>2, ElementTypes, OtaAssumption DEF OtaAssumption, WireInv, WireOf, Issued
    <3>2. QED
      BY <2>2, <3>1, ReplyFields DEF Boot
  <2>4. [v \in Uploads |-> before'[v].boot] =
          [[v \in Uploads |-> before[v].boot] EXCEPT ![u] = wire[u].boot]
    BY <1>1, <2>1 DEF TypeOK
  <2>5. before[u].boot = 0 /\ Result(u) = "pending"
    BY <2>2 DEF HostInv, HostOf, Result, Over
  <2>6. [v \in Uploads |-> Result(v)]' = [v \in Uploads |-> Result(v)]
    <3>1. Result(u)' = Result(u)
      BY <1>3, <1>5 DEF Result, Over
    <3>2. QED
      BY <1>1, <3>1
  <2>7. Abstract!Begin(u)
    BY <1>1, <2>3, <2>4, <2>5, <2>6 DEF Abstract!Begin
  <2>8. QED
    BY <2>7 DEF Abstract!Next
<1>6. CASE phase'[u] \in Over
  <2> DEFINE r == phase'[u]
  <2>1. UNCHANGED before
    BY <1>2, <1>6 DEF upload, Query, QueryAnswered, SendHeader, HeaderAccepted, SendChunk,
       SendLost, Refused, Acknowledged, Poll, PollAnswered, ConnectionFails, DeadlinePasses,
       Connect, Over
  <2>2. r = "failed" => armed[u] # "done"
    BY <1>1, UploadKeepsHost DEF HostOf
  <2>3. ASSUME r = "success"
        PROVE  /\ before[u].boot > 0
               /\ \E b \in before[u].boot + 1 .. Len(ran) : Revision[ran[b]] = Revision[u]
    <3>1. PollAnswered(u) /\ NewBoot(u) /\ phase[u] = "confirming"
      BY <1>2, <2>3 DEF upload, Query, QueryAnswered, SendHeader, HeaderAccepted, SendChunk,
         SendLost, Refused, Acknowledged, Poll, PollAnswered, ConnectionFails, DeadlinePasses
    <3>2. /\ wire[u].boot \in Nat /\ before[u].boot \in Nat /\ Boot \in Nat
          /\ wire[u].boot <= Boot /\ wire[u].boot >= before[u].boot
      BY <3>1, ElementTypes, ReplyFields, OtaAssumption
         DEF OtaAssumption, PollAnswered, Reads, WireInv, WireOf, Issued
    <3>3. wire[u].boot \in before[u].boot + 1 .. Len(ran)
      BY <3>1, <3>2 DEF NewBoot, Boot
    <3>4. before[u].boot > 0
      BY <3>1 DEF HostInv, HostOf
    <3>5. QED
      BY <3>1, <3>3, <3>4 DEF NewBoot
  <2>4. [v \in Uploads |-> Result(v)]' = [[v \in Uploads |-> Result(v)] EXCEPT ![u] = r]
    <3>1. Result(u)' = r
      BY <1>6 DEF Result
    <3>2. QED
      BY <1>1, <3>1
  <2>5. Result(u) = "pending"
    BY <1>3 DEF Result
  <2>6. r \in {"success", "failed", "uncertain"}
    BY <1>6 DEF Over
  <2> HIDE DEF r
  <2>7. Abstract!Report(u, r)
    BY <1>1, <2>1, <2>2, <2>3, <2>4, <2>5 DEF Abstract!Report, Abstract!Confirmed
  <2>8. QED
    BY <2>6, <2>7 DEF Abstract!Next
<1>7. CASE UNCHANGED before \/ (QueryAnswered(u) /\ phase'[u] \in {"ready", "failed"})
  BY <1>4, <1>5, <1>6, <1>7 DEF Over
<1>8. QED
  <2>1. CASE QueryAnswered(u)
    BY <1>2, <1>7, <2>1 DEF QueryAnswered
  <2>2. CASE ~QueryAnswered(u)
    BY <1>7, <2>2 DEF upload, Query, SendHeader, HeaderAccepted, SendChunk, SendLost,
       Refused, Acknowledged, Poll, PollAnswered, ConnectionFails, DeadlinePasses, Connect
  <2>3. QED
    BY <2>1, <2>2

\* Board, uploaders and connections together implement an atomic update.
THEOREM UpdateIsAtomic == Spec => Atomic
<1>1. Init => Abstract!Init
  BY DEF Init, Abstract!Init, Result, Over
<1>2. IInv /\ [Next]_vars => [Abstract!Next]_Abstract!vars
  <2> SUFFICES ASSUME IInv, [Next]_vars PROVE [Abstract!Next]_Abstract!vars
    OBVIOUS
  <2>1. CASE UNCHANGED vars
    <3>1. UNCHANGED <<ran, armed, phase, before>>
      BY <2>1 DEF vars, board, host
    <3>2. QED
      BY <3>1, Stutters DEF Result
  <2>2. QED
    BY <2>1, BoardSimulates, UploadSimulates DEF Next
<1>3. QED
  BY <1>1, <1>2, OtaInvariant, PTL DEF Spec, Atomic, Abstract!Spec
=============================================================================
