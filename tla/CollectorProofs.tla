--------------------------- MODULE CollectorProofs ---------------------------
(***************************************************************************)
(* Theorems about EwelinkAccount and OutdoorCollector, for any number of   *)
(* links, threads, grants and refreshes, every size of the panel's queue   *)
(* and all times.  What holds of the account holds in the composed         *)
(* specification too (AccountKept).                                        *)
(***************************************************************************)
EXTENDS OutdoorCollector, SequenceTheorems, TLAPS

\* The account without fairness.
AccountSafety == AccountInit /\ [][AccountNext]_accountVars

\* What a thread is about, and where a poll is.
Requests == [at : {"idle", "exchange", "store"}, state : States \cup {"none"},
             grant : 0..MaxGrants]
Polls == [at : {"wait", "things", "refresh", "persist", "again"},
          row : Tokens \cup {NoTokens}, rot : 0..MaxRotations]

-----------------------------------------------------------------------------
(* The inductive invariant of the account *)

\* A thread that holds new tokens is the only one to know their grant, which has
\* not been refreshed.
Unseen(c) ==
  /\ request[c].grant \in 1..issued /\ newest[request[c].grant] = 0
  /\ account.grant # request[c].grant /\ used # request[c].grant

\* Threads differ in their states and in their grants.
Apart(c, d) ==
  /\ request[c].at # "idle" /\ request[d].at # "idle" => request[c].state # request[d].state
  /\ request[c].at = "store" /\ request[d].at = "store" => request[c].grant # request[d].grant

RequestInv ==
  \A c \in Callbacks :
    /\ request[c].at # "idle" =>
         request[c].state \in States /\ pending[request[c].state] = "gone"
    /\ request[c].at = "store" => Unseen(c)
    /\ \A d \in Callbacks : c # d => Apart(c, d)

\* Nothing is known of a grant before it is issued.
GrantInv ==
  /\ account.grant <= issued /\ used <= issued
  /\ \A g \in Grants : g > issued => newest[g] = 0

\* A poll uses the tokens of its row until it has refreshed them; as long as the
\* account has the grant of that row, it has the row.
PollInv ==
  /\ collector.at # "wait" => collector.row \in Tokens
  /\ collector.at \in {"things", "refresh"} => collector.rot = collector.row.rot
  /\ collector.at = "persist" =>
       collector.rot = newest[used] /\ collector.rot = collector.row.rot + 1
  /\ collector.at \in {"things", "refresh", "persist"} /\ account.grant = used =>
       account = collector.row

AccountInv == AccountTypeOK /\ RequestInv /\ GrantInv /\ PollInv /\ StoredTokensWork

LEMMA AccountBounds == MaxGrants \in Nat /\ MaxRotations \in Nat /\ MaxFaults \in Nat
BY AccountAssumption DEF AccountAssumption

\* Initially there is no account, no thread and no poll.
LEMMA AccountStarts == ASSUME AccountInit PROVE AccountInv
<1> USE AccountBounds
<1>1. AccountTypeOK
  BY DEF AccountInit, AccountTypeOK, Idle, Waiting, NoTokens
<1>2. RequestInv
  BY DEF AccountInit, RequestInv, Idle, Apart
<1>3. GrantInv /\ PollInv /\ StoredTokensWork
  BY DEF AccountInit, GrantInv, PollInv, StoredTokensWork, Waiting, NoTokens, used, Grants
<1> QED
  BY <1>1, <1>2, <1>3 DEF AccountInv

-----------------------------------------------------------------------------
(* Links and callbacks *)

\* A step that changes the links only, and none that is in use.
LEMMA LinkKeeps ==
  ASSUME AccountInv, NEW s \in States, authorization_url(s) \/ LinkExpires(s)
  PROVE  AccountInv'
<1> USE AccountBounds
<1>1. /\ pending' \in [States -> {"new", "open", "late", "gone"}]
      /\ \A t \in States : pending[t] = "gone" => pending'[t] = "gone"
  BY DEF authorization_url, LinkExpires, AccountInv, AccountTypeOK
<1>2. /\ request' = request /\ account' = account /\ collector' = collector
      /\ issued' = issued /\ newest' = newest /\ valid' = valid
      /\ lost' = lost /\ faults' = faults
  BY DEF authorization_url, LinkExpires, provider
<1>3. AccountTypeOK'
  BY <1>1, <1>2 DEF AccountInv, AccountTypeOK
<1>4. RequestInv'
  BY <1>1, <1>2 DEF AccountInv, RequestInv, Unseen, Apart, used
<1>5. GrantInv' /\ PollInv' /\ StoredTokensWork'
  BY <1>2 DEF AccountInv, GrantInv, PollInv, StoredTokensWork, used
<1> QED
  BY <1>3, <1>4, <1>5 DEF AccountInv

\* A callback that deletes its state begins an exchange nobody else makes.
LEMMA ConsumeKeeps ==
  ASSUME AccountInv, NEW c \in Callbacks, NEW s \in States, Consume(c, s)
  PROVE  AccountInv'
<1> USE AccountBounds
<1>1. /\ account' = account /\ collector' = collector
      /\ issued' = issued /\ newest' = newest /\ valid' = valid
      /\ lost' = lost /\ faults' = faults
  BY DEF Consume, provider
<1> DEFINE new == [at |-> "exchange", state |-> s, grant |-> 0]
<1>2. new \in Requests
  BY DEF Requests
<1>3. /\ request \in [Callbacks -> Requests]
      /\ request' = [request EXCEPT ![c] = new]
      /\ pending \in [States -> {"new", "open", "late", "gone"}]
      /\ pending' = [pending EXCEPT ![s] = "gone"] /\ pending[s] = "open"
  BY DEF Consume, AccountInv, AccountTypeOK, Requests
<1>4. /\ request' \in [Callbacks -> Requests]
      /\ request'[c] = new /\ \A d \in Callbacks : d # c => request'[d] = request[d]
  BY <1>2, <1>3
<1>5. /\ pending' \in [States -> {"new", "open", "late", "gone"}]
      /\ pending'[s] = "gone" /\ \A t \in States : pending[t] = "gone" => pending'[t] = "gone"
  BY <1>3
<1>6. AccountTypeOK'
  BY <1>1, <1>4, <1>5 DEF AccountInv, AccountTypeOK, Requests
<1>7. \A d \in Callbacks : request[d].at # "idle" => request[d].state # s
  BY <1>3 DEF AccountInv, RequestInv
<1>8. RequestInv'
  <2>1. ASSUME NEW d \in Callbacks
        PROVE  /\ request'[d].at # "idle" =>
                    request'[d].state \in States /\ pending'[request'[d].state] = "gone"
               /\ request'[d].at = "store" => Unseen(d)'
    BY <1>1, <1>4, <1>5 DEF AccountInv, RequestInv, Unseen, used
  <2>2. ASSUME NEW d \in Callbacks, NEW e \in Callbacks, d # e
        PROVE  Apart(d, e)'
    BY <1>4, <1>7, <2>2 DEF AccountInv, RequestInv, Apart
  <2> QED
    BY <2>1, <2>2 DEF RequestInv
<1>9. GrantInv' /\ PollInv' /\ StoredTokensWork'
  BY <1>1 DEF AccountInv, GrantInv, PollInv, StoredTokensWork, used
<1> QED
  BY <1>6, <1>8, <1>9 DEF AccountInv

\* The exchange yields a grant that nothing refers to.
LEMMA ExchangeKeeps ==
  ASSUME AccountInv, NEW c \in Callbacks, Exchange(c)
  PROVE  AccountInv'
<1> USE AccountBounds
<1>1. /\ pending' = pending /\ account' = account /\ collector' = collector
      /\ newest' = newest /\ lost' = lost /\ faults' = faults
      /\ issued' = issued + 1 /\ valid' = valid \cup {issued + 1}
  BY DEF Exchange
<1>2. issued \in Nat /\ issued + 1 \in Grants /\ issued + 1 \in 0..MaxGrants
  BY DEF Exchange, AccountInv, AccountTypeOK, Grants
<1>3. /\ request \in [Callbacks -> Requests] /\ request[c].at = "exchange"
      /\ request' = [request EXCEPT ![c].at = "store", ![c].grant = issued + 1]
  BY DEF Exchange, AccountInv, AccountTypeOK, Requests
<1>4. /\ request'[c] = [at |-> "store", state |-> request[c].state, grant |-> issued + 1]
      /\ \A d \in Callbacks : d # c => request'[d] = request[d]
      /\ DOMAIN request' = Callbacks
  BY <1>3 DEF Requests
<1>5. request' \in [Callbacks -> Requests]
  <2>1. request'[c] \in Requests
    BY <1>2, <1>3, <1>4 DEF Requests
  <2>2. request' = [request EXCEPT ![c] = request'[c]]
    BY <1>3
  <2> QED
    BY <1>3, <2>1, <2>2
<1>6. AccountTypeOK'
  BY <1>1, <1>2, <1>5 DEF AccountInv, AccountTypeOK, Requests, Grants
<1>7. /\ newest[issued + 1] = 0 /\ account.grant # issued + 1 /\ used # issued + 1
      /\ \A d \in Callbacks : request[d].at = "store" => request[d].grant # issued + 1
  BY <1>2 DEF AccountInv, GrantInv, RequestInv, Unseen, AccountTypeOK, Tokens, NoTokens, Grants, used
<1>8. RequestInv'
  <2>1. ASSUME NEW d \in Callbacks
        PROVE  request'[d].at # "idle" =>
                 request'[d].state \in States /\ pending'[request'[d].state] = "gone"
    BY <1>1, <1>3, <1>4 DEF AccountInv, RequestInv
  <2>2. ASSUME NEW d \in Callbacks, request'[d].at = "store"
        PROVE  Unseen(d)'
    <3>1. CASE d = c
      BY <3>1, <1>1, <1>2, <1>4, <1>7 DEF Unseen, used
    <3>2. CASE d # c
      <4>1. Unseen(d)
        BY <2>2, <3>2, <1>4 DEF AccountInv, RequestInv
      <4> QED
        BY <4>1, <3>2, <1>1, <1>2, <1>4 DEF Unseen, used
    <3> QED
      BY <3>1, <3>2
  <2>3. ASSUME NEW d \in Callbacks, NEW e \in Callbacks, d # e
        PROVE  Apart(d, e)'
    <3>1. Apart(d, e)
      BY <2>3 DEF AccountInv, RequestInv
    <3> QED
      BY <2>3, <3>1, <1>3, <1>4, <1>7 DEF Apart
  <2> QED
    BY <2>1, <2>2, <2>3 DEF RequestInv
<1>9. GrantInv' /\ PollInv' /\ StoredTokensWork'
  <2>1. account.grant \in Nat /\ used \in Nat
    BY DEF AccountInv, AccountTypeOK, Tokens, NoTokens, Grants, used
  <2>2. GrantInv'
    BY <1>1, <1>2, <2>1 DEF AccountInv, GrantInv, Grants, used
  <2> QED
    BY <1>1, <2>2 DEF AccountInv, PollInv, StoredTokensWork, used
<1> QED
  BY <1>6, <1>8, <1>9 DEF AccountInv

\* A thread that ends, with or without storing its tokens.
LEMMA EndKeeps ==
  ASSUME AccountInv, NEW c \in Callbacks, Store(c) \/ CallbackFails(c)
  PROVE  AccountInv'
<1> USE AccountBounds
<1>1. /\ pending' = pending /\ collector' = collector
      /\ issued' = issued /\ newest' = newest /\ valid' = valid
      /\ lost' = lost /\ faults' = faults
  BY DEF Store, CallbackFails, provider
<1>2. /\ request \in [Callbacks -> Requests] /\ Idle \in Requests
      /\ request' = [request EXCEPT ![c] = Idle]
  BY DEF Store, CallbackFails, AccountInv, AccountTypeOK, Requests, Idle
<1>3. /\ request' \in [Callbacks -> Requests] /\ request'[c].at = "idle"
      /\ \A d \in Callbacks : d # c => request'[d] = request[d]
  BY <1>2 DEF Idle
<1>4. \/ account' = account
      \/ /\ request[c].at = "store" /\ Unseen(c)
         /\ account' = [grant |-> request[c].grant, rot |-> 0]
  BY DEF Store, CallbackFails, AccountInv, RequestInv
<1>5. issued \in 0..MaxGrants /\ used \in Nat
  BY DEF AccountInv, AccountTypeOK, Tokens, NoTokens, Grants, used
<1>6. account' \in Tokens \cup {NoTokens}
  BY <1>4, <1>5 DEF AccountInv, AccountTypeOK, Unseen, Tokens, Grants
<1>7. AccountTypeOK'
  BY <1>1, <1>3, <1>6 DEF AccountInv, AccountTypeOK, Requests
<1>8. RequestInv'
  <2>1. ASSUME NEW d \in Callbacks
        PROVE  request'[d].at # "idle" =>
                 request'[d].state \in States /\ pending'[request'[d].state] = "gone"
    BY <1>1, <1>3 DEF AccountInv, RequestInv
  <2>2. ASSUME NEW d \in Callbacks, request'[d].at = "store"
        PROVE  Unseen(d)'
    <3>1. d # c /\ request'[d] = request[d] /\ Unseen(d) /\ Apart(d, c)
      BY <2>2, <1>3 DEF AccountInv, RequestInv
    <3> QED
      BY <2>2, <3>1, <1>1, <1>4 DEF Unseen, Apart, used
  <2>3. ASSUME NEW d \in Callbacks, NEW e \in Callbacks, d # e
        PROVE  Apart(d, e)'
    <3>1. Apart(d, e)
      BY <2>3 DEF AccountInv, RequestInv
    <3> QED
      BY <3>1, <1>3 DEF Apart
  <2> QED
    BY <2>1, <2>2, <2>3 DEF RequestInv
<1>9. GrantInv' /\ PollInv' /\ StoredTokensWork'
  <2>1. CASE account' = account
    BY <2>1, <1>1 DEF AccountInv, GrantInv, PollInv, StoredTokensWork, used
  <2>2. CASE /\ request[c].at = "store" /\ Unseen(c)
             /\ account' = [grant |-> request[c].grant, rot |-> 0]
    BY <2>2, <1>1, <1>5 DEF AccountInv, GrantInv, PollInv, StoredTokensWork, Unseen, used
  <2> QED
    BY <1>4, <2>1, <2>2
<1> QED
  BY <1>7, <1>8, <1>9 DEF AccountInv

-----------------------------------------------------------------------------
(* The collector *)

\* What a step of the collector leaves of the invariants: it refreshes no grant but
\* the one it uses, and knows none but the account's.
LEMMA OthersKept ==
  ASSUME AccountInv,
         pending' = pending, request' = request, issued' = issued,
         \A g \in Grants : g # used => newest'[g] = newest[g],
         account'.grant = account.grant, used' \in {0, used, account.grant}
  PROVE  RequestInv' /\ GrantInv'
<1> USE AccountBounds
<1>1. issued \in 0..MaxGrants /\ account.grant \in Nat /\ used \in Nat
  BY DEF AccountInv, AccountTypeOK, Tokens, NoTokens, Grants, used
<1>2. GrantInv'
  <2>1. used' <= issued
    BY <1>1 DEF AccountInv, GrantInv
  <2>2. ASSUME NEW g \in Grants, g > issued PROVE newest'[g] = 0
    <3>1. g # used
      BY <1>1, <2>2 DEF AccountInv, GrantInv, Grants
    <3> QED
      BY <2>2, <3>1 DEF AccountInv, GrantInv
  <2> QED
    BY <2>1, <2>2 DEF AccountInv, GrantInv
<1>3. ASSUME NEW c \in Callbacks, request[c].at = "store" PROVE Unseen(c)'
  <2>1. Unseen(c)
    BY <1>3 DEF AccountInv, RequestInv
  <2>2. request[c].grant \in Grants
    BY <1>1, <2>1 DEF Unseen, Grants
  <2> QED
    BY <1>1, <2>1, <2>2 DEF Unseen
<1>4. \A c, d \in Callbacks : Apart(c, d) => Apart(c, d)'
  BY DEF Apart
<1>5. RequestInv'
  BY <1>3, <1>4 DEF AccountInv, RequestInv
<1> QED
  BY <1>2, <1>5

\* A poll that begins, ends or finds its tokens expired.
LEMMA PollKeeps ==
  ASSUME AccountInv, Load \/ ThingsAnswered \/ ThingsExpired \/ ProviderRefuses
  PROVE  AccountInv'
<1> USE AccountBounds
<1>1. /\ pending' = pending /\ request' = request /\ account' = account
      /\ issued' = issued /\ newest' = newest /\ valid' = valid
      /\ lost' = lost /\ faults' = faults
  BY DEF Load, ThingsAnswered, ThingsExpired, ProviderRefuses, provider
<1>2. /\ account \in Tokens \cup {NoTokens} /\ collector \in Polls
      /\ Waiting \in Polls /\ Waiting.at = "wait"
  BY DEF AccountInv, AccountTypeOK, Polls, Waiting
<1>0. collector.at # "persist"
  BY DEF Load, ThingsAnswered, ThingsExpired, ProviderRefuses
<1>3. \/ /\ account \in Tokens
         /\ collector' = [at |-> "things", row |-> account, rot |-> account.rot]
      \/ collector' = Waiting
      \/ collector.at = "things" /\ collector' = [collector EXCEPT !.at = "refresh"]
  BY <1>2 DEF Load, ThingsAnswered, ThingsExpired, ProviderRefuses
<1>4. collector' \in Polls
  BY <1>2, <1>3 DEF Polls, Tokens
<1>5. AccountTypeOK'
  BY <1>1, <1>4 DEF AccountInv, AccountTypeOK, Polls
<1>6. used' \in {0, used, account.grant}
  BY <1>2, <1>3 DEF Polls, Waiting, NoTokens, used
<1>7. RequestInv' /\ GrantInv'
  BY <1>1, <1>6, OthersKept
<1>8. PollInv'
  BY <1>1, <1>2, <1>3 DEF AccountInv, PollInv, Polls, Waiting, used
<1>9. StoredTokensWork'
  BY <1>0, <1>1 DEF AccountInv, StoredTokensWork
<1> QED
  BY <1>5, <1>7, <1>8, <1>9 DEF AccountInv

\* The provider makes the next rotation of the row's grant: nobody else has it.
LEMMA RefreshKeeps ==
  ASSUME AccountInv, Refreshed \/ AnswerLost
  PROVE  AccountInv'
<1> USE AccountBounds
<1>1. /\ pending' = pending /\ request' = request /\ account' = account /\ issued' = issued
      /\ valid' = valid \cup {used} /\ newest' = [newest EXCEPT ![used] = @ + 1]
      /\ collector.at = "refresh" /\ collector.rot = newest[used]
      /\ newest[used] < MaxRotations
  BY DEF Refreshed, AnswerLost, Rotated
<1>2. /\ account \in Tokens \cup {NoTokens} /\ collector \in Polls /\ Waiting \in Polls
      /\ newest \in [Grants -> 0..MaxRotations]
      /\ collector.row \in Tokens /\ used \in Grants /\ collector.rot = collector.row.rot
  BY <1>1 DEF AccountInv, AccountTypeOK, PollInv, Polls, Waiting, Tokens, used
<1> DEFINE next == [at |-> "persist", row |-> collector.row, rot |-> collector.rot + 1]
<1>3. \/ collector' = next /\ lost' = lost /\ faults' = faults
      \/ /\ collector' = Waiting /\ lost' = lost \cup {used}
         /\ faults < MaxFaults /\ faults' = faults + 1
  BY <1>2 DEF Refreshed, AnswerLost, Fault, Polls
<1>4. /\ newest' \in [Grants -> 0..MaxRotations] /\ newest'[used] = newest[used] + 1
      /\ \A g \in Grants : g # used => newest'[g] = newest[g]
  <2>1. newest[used] + 1 \in 0..MaxRotations
    <3>1. newest[used] \in 0..MaxRotations
      BY <1>2
    <3> QED
      BY <1>1, <3>1
  <2> QED
    BY <1>1, <1>2, <2>1
<1>5. collector' \in Polls
  <2>1. collector.rot + 1 \in 0..MaxRotations
    BY <1>1, <1>2 DEF Polls
  <2>2. next \in Polls
    BY <1>2, <2>1 DEF Polls
  <2> QED
    BY <1>2, <1>3, <2>2
<1>6. AccountTypeOK'
  BY <1>1, <1>2, <1>3, <1>4, <1>5 DEF AccountInv, AccountTypeOK, Polls
<1>7. used' \in {0, used, account.grant}
  BY <1>2, <1>3 DEF Polls, Waiting, NoTokens, used
<1>8. RequestInv' /\ GrantInv'
  BY <1>1, <1>4, <1>7, OthersKept
<1>9. account.grant = used => account = collector.row
  BY <1>1 DEF AccountInv, PollInv
<1>10. CASE collector' = next /\ lost' = lost
  <2>1. /\ collector'.at = "persist" /\ collector'.row = collector.row
        /\ collector'.rot = newest'[used] /\ used' = used
        /\ collector'.rot = collector.row.rot + 1
    BY <1>1, <1>2, <1>4, <1>10 DEF Polls, used
  <2>2. PollInv'
    BY <1>1, <1>2, <1>9, <2>1 DEF PollInv
  <2>3. StoredTokensWork'
    BY <1>1, <1>2, <1>4, <1>9, <1>10, <2>1
    DEF AccountInv, StoredTokensWork, Tokens, NoTokens
  <2> QED
    BY <1>6, <1>8, <2>2, <2>3 DEF AccountInv
<1>11. CASE collector' = Waiting /\ lost' = lost \cup {used}
  <2>1. PollInv'
    BY <1>11 DEF PollInv, Waiting
  <2>2. StoredTokensWork'
    BY <1>1, <1>2, <1>4, <1>11 DEF AccountInv, StoredTokensWork, Tokens
  <2> QED
    BY <1>6, <1>8, <2>1, <2>2 DEF AccountInv
<1> QED
  BY <1>3, <1>10, <1>11

\* The rotation replaces the row it was made from, and no other.
LEMMA PersistKeeps ==
  ASSUME AccountInv, Persist
  PROVE  AccountInv'
<1> USE AccountBounds
<1>1. /\ pending' = pending /\ request' = request
      /\ issued' = issued /\ newest' = newest /\ valid' = valid
      /\ lost' = lost /\ faults' = faults
  BY DEF Persist, provider
<1>2. /\ account \in Tokens \cup {NoTokens} /\ collector \in Polls
      /\ Waiting \in Polls /\ collector.at = "persist"
      /\ collector.row \in Tokens /\ collector.rot = newest[used]
      /\ account.grant = used => account = collector.row
  BY DEF Persist, AccountInv, AccountTypeOK, PollInv, Polls, Waiting
<1>3. \/ /\ account = collector.row /\ account' = [account EXCEPT !.rot = collector.rot]
         /\ collector' = [collector EXCEPT !.at = "again"]
      \/ account # collector.row /\ account' = account /\ collector' = Waiting
  BY DEF Persist
<1>4. collector' \in Polls /\ account' \in Tokens \cup {NoTokens}
  BY <1>2, <1>3 DEF Polls, Tokens
<1>5. AccountTypeOK'
  BY <1>1, <1>4 DEF AccountInv, AccountTypeOK, Polls
<1>6. account'.grant = account.grant /\ used' \in {0, used}
  BY <1>2, <1>3 DEF Polls, Tokens, Waiting, NoTokens, used
<1>7. RequestInv' /\ GrantInv'
  BY <1>1, <1>6, OthersKept
<1>8. PollInv'
  BY <1>2, <1>3 DEF PollInv, Polls, Waiting
<1>9. StoredTokensWork'
  BY <1>1, <1>2, <1>3 DEF AccountInv, StoredTokensWork, Tokens, used
<1> QED
  BY <1>5, <1>7, <1>8, <1>9 DEF AccountInv

\* A poll that fails; a refresh it has not stored is lost.
LEMMA FailureKeeps ==
  ASSUME AccountInv, PollFails
  PROVE  AccountInv'
<1> USE AccountBounds
<1>1. /\ pending' = pending /\ request' = request /\ account' = account
      /\ issued' = issued /\ newest' = newest /\ valid' = valid
      /\ collector' = Waiting /\ collector.at # "wait"
      /\ lost' = IF collector.at = "persist" THEN lost \cup {used} ELSE lost
      /\ faults < MaxFaults /\ faults' = faults + 1
  BY DEF PollFails, Fault, provider
<1>2. Waiting \in Polls /\ used \in Grants
  BY <1>1 DEF AccountInv, AccountTypeOK, PollInv, Polls, Waiting, Tokens, used
<1>3. AccountTypeOK'
  BY <1>1, <1>2 DEF AccountInv, AccountTypeOK, Polls
<1>4. used' \in {0, used, account.grant}
  BY <1>1 DEF Waiting, NoTokens, used
<1>5. RequestInv' /\ GrantInv'
  BY <1>1, <1>4, OthersKept
<1>6. PollInv'
  BY <1>1 DEF PollInv, Waiting
<1>7. StoredTokensWork'
  BY <1>1 DEF AccountInv, StoredTokensWork, used
<1> QED
  BY <1>3, <1>5, <1>6, <1>7 DEF AccountInv

-----------------------------------------------------------------------------
(* The account's theorems *)

\* Every step keeps the invariant.
LEMMA AccountStepKeeps == AccountInv /\ [AccountNext]_accountVars => AccountInv'
<1> SUFFICES ASSUME AccountInv, [AccountNext]_accountVars PROVE AccountInv'
  OBVIOUS
<1>1. CASE Load \/ ThingsAnswered \/ ThingsExpired \/ ProviderRefuses
  BY <1>1, PollKeeps
<1>2. CASE \E s \in States : authorization_url(s) \/ LinkExpires(s)
  BY <1>2, LinkKeeps
<1>3. CASE \E c \in Callbacks : (\E s \in States : Consume(c, s)) \/ Exchange(c) \/ Store(c)
                               \/ CallbackFails(c)
  BY <1>3, ConsumeKeeps, ExchangeKeeps, EndKeeps
<1>4. CASE Refreshed \/ AnswerLost
  BY <1>4, RefreshKeeps
<1>5. CASE Persist \/ PollFails
  BY <1>5, PersistKeeps, FailureKeeps
<1>6. CASE \E g \in Grants : AccessExpires(g)
  <2>1. /\ pending' = pending /\ request' = request /\ account' = account
        /\ collector' = collector /\ issued' = issued /\ newest' = newest
        /\ valid' \subseteq valid /\ lost' = lost /\ faults' = faults
    BY <1>6 DEF AccessExpires
  <2> QED
    BY <2>1 DEF AccountInv, AccountTypeOK, RequestInv, Unseen, Apart, GrantInv, PollInv,
                StoredTokensWork, used
<1>7. CASE UNCHANGED accountVars
  BY <1>7 DEF accountVars, provider, AccountInv, AccountTypeOK, RequestInv, Unseen, Apart,
              GrantInv, PollInv, StoredTokensWork, used
<1> QED
  BY <1>1, <1>2, <1>3, <1>4, <1>5, <1>6, <1>7 DEF AccountNext, AccountStep

\* The account's invariant, in every behaviour without fairness.
LEMMA AccountInvariant == AccountSafety => []AccountInv
<1>1. AccountInit => AccountInv
  BY AccountStarts
<1> QED
  BY <1>1, AccountStepKeeps, PTL DEF AccountSafety

\* The types of the account (AccountTypeOK) hold of links, callbacks and polls.
THEOREM AccountTypes == AccountSpec => []AccountTypeOK
<1>1. AccountInv => AccountTypeOK
  BY DEF AccountInv
<1>2. AccountSpec => AccountSafety
  BY DEF AccountSpec, AccountSafety
<1> QED
  BY <1>1, <1>2, AccountInvariant, PTL

\* However many threads answer callbacks with the same link, one of them exchanges
\* its code (complete_authorization).
THEOREM ExchangedOnce == AccountSpec => []OneExchange
<1>1. AccountInv => OneExchange
  BY DEF AccountInv, RequestInv, Apart, OneExchange
<1>2. AccountSpec => AccountSafety
  BY DEF AccountSpec, AccountSafety
<1> QED
  BY <1>1, <1>2, AccountInvariant, PTL

\* No interleaving of authorizations, polls and refreshes leaves in the database
\* tokens the provider refuses; only a failure between a refresh and its storing
\* does (read_device).
THEOREM TokensWork == AccountSpec => []StoredTokensWork
<1>1. AccountInv => StoredTokensWork
  BY DEF AccountInv
<1>2. AccountSpec => AccountSafety
  BY DEF AccountSpec, AccountSafety
<1> QED
  BY <1>1, <1>2, AccountInvariant, PTL

\* A step that changes the row and no thread stores the next rotation of its grant.
LEMMA RotationStored ==
  ASSUME AccountInv, [AccountNext]_accountVars, account' # account, request' = request
  PROVE  account'.grant = account.grant /\ account'.rot = account.rot + 1
<1>1. ASSUME NEW c \in Callbacks, Store(c) PROVE FALSE
  <2>1. request'[c].at = "idle" /\ request[c].at = "store"
    BY <1>1 DEF Store, Idle, AccountInv, AccountTypeOK
  <2> QED
    BY <2>1
<1>2. Persist
  BY <1>1 DEF AccountNext, AccountStep, Load, ThingsAnswered, ThingsExpired, ProviderRefuses,
              authorization_url, LinkExpires, Consume, Exchange, CallbackFails, Refreshed,
              PollFails, AnswerLost, AccessExpires, accountVars
<1>3. account \in Tokens /\ account' = [account EXCEPT !.rot = collector.rot]
  BY <1>2 DEF Persist, AccountInv, PollInv
<1>4. collector.rot = account.rot + 1
  BY <1>2 DEF Persist, AccountInv, PollInv
<1> QED
  BY <1>3, <1>4 DEF Tokens

\* The collector never overwrites a newer authorization: all it does to the row is
\* to replace a rotation by the next of the same grant (read_device's UPDATE).
THEOREM NewerIsKept == AccountSpec => NewerKept
<1>1. ASSUME AccountInv, [AccountNext]_accountVars
      PROVE  [account' # account /\ request' = request =>
                account'.grant = account.grant /\ account'.rot = account.rot + 1]_accountVars
  BY <1>1, RotationStored
<1>2. AccountSpec => AccountSafety
  BY DEF AccountSpec, AccountSafety
<1> QED
  BY <1>1, <1>2, AccountInvariant, PTL DEF AccountSafety, NewerKept

-----------------------------------------------------------------------------
(* The account in the composed specification *)

\* Every behaviour of the composed specification is one of the account: what is
\* proved of AccountSpec holds there as well.
THEOREM AccountKept == Spec => AccountSafety
<1>1. Init => AccountInit
  BY DEF Init
<1>2. [Next]_vars => [AccountNext]_accountVars
  BY DEF Next, vars, AccountNext, accountVars, Report, GoesOffline, GoesOnline, Tick, PollBegins,
         DeviceRead, frame, publish, publishFails, Hello, SessionEnds, receiveFrame, FrameLost
<1> QED
  BY <1>1, <1>2, PTL DEF Spec, AccountSafety

-----------------------------------------------------------------------------
(* The inductive invariant of the readings *)

\* Report v was the last one, and the sensor online, n ago.
Current(v, n) == offline <= n /\ (v < latest => measured[v + 1] <= n)

\* What a frame on its way says was current when the provider answered; a session
\* sends it in time; it is not older than what the panel shows.
Carried(f) ==
  /\ f.v <= latest
  /\ f.ok => f.v # 0 /\ Current(f.v, f.age)
  /\ session => f.age <= PollMax + MaxLag
  /\ f.v # 0 => outdoor.v <= f.v

SensorInv == online => offline = 0

ReadingInv ==
  reading.at # "none" =>
    /\ reading.v \in 1..latest /\ reading.age <= PollMax
    /\ reading.ok => Current(reading.v, reading.age)
    /\ outdoor.v <= reading.v
    /\ \A i \in 1..Len(queue) : queue[i].v <= reading.v

QueueInv ==
  /\ \A i \in 1..Len(queue) : Carried(queue[i])
  /\ \A i, j \in 1..Len(queue) : i <= j => queue[i].v <= queue[j].v

PanelInv ==
  /\ outdoor.v <= latest
  /\ outdoor.ready => outdoor.v # 0 /\ Current(outdoor.v, PollMax + MaxLag + outdoor.since)

OutdoorInv == OutdoorTypeOK /\ SensorInv /\ ReadingInv /\ QueueInv /\ PanelInv

Frames == [v : 0..MaxReports, ok : BOOLEAN, age : 0..Cap]
Readings == [at : {"none", "read", "framed"}, ok : BOOLEAN, v : 0..MaxReports, age : 0..Cap]
Shown == [ready : BOOLEAN, v : 0..MaxReports, since : 0..Cap]

LEMMA OutdoorBounds ==
  /\ Limit \in Nat /\ Silent \in Nat /\ MaxLag \in Nat /\ PollMax \in Nat /\ MaxOutages \in Nat
  /\ QueueMax \in Nat /\ QueueMax > 0 /\ MaxReports \in Nat /\ MaxReports > 0
  /\ Hold \in Nat /\ Cap \in Nat
BY OutdoorAssumption DEF OutdoorAssumption, Hold, Cap

\* Older keeps ages within Cap and in their order.
LEMMA OlderAges ==
  /\ \A a \in 0..Cap : Older(a) \in 0..Cap /\ a <= Older(a) /\ Older(a) <= a + 1
  /\ \A a, b \in 0..Cap : a <= b => Older(a) <= Older(b)
  /\ \A a \in 0..Cap, n \in Nat : a <= n => Older(a) <= n + 1
BY OutdoorBounds DEF Older

\* Initially no reading is on its way, and none is shown.
LEMMA OutdoorStarts == ASSUME Init PROVE OutdoorInv
<1> USE OutdoorBounds
<1>1. OutdoorTypeOK
  <2>1. queue \in Seq(Frames) /\ Len(queue) = 0
    BY DEF Init
  <2>2. reading \in Readings /\ outdoor \in Shown
    BY DEF Init, NoReading, Blank, Readings, Shown
  <2>3. latest \in Reports /\ measured \in [Reports -> 0..Cap]
    BY DEF Init, Reports
  <2>4. offline \in 0..Cap /\ outages \in 0..MaxOutages /\ Len(queue) <= QueueMax
    BY <2>1 DEF Init
  <2>5. online \in BOOLEAN /\ session \in BOOLEAN
    BY DEF Init
  <2>6. clock \in [ready : BOOLEAN, lag : 0..Cap]
    BY DEF Init
  <2> QED
    BY <2>1, <2>2, <2>3, <2>4, <2>5, <2>6 DEF OutdoorTypeOK, Frames, Readings, Shown
<1>2. SensorInv /\ ReadingInv /\ QueueInv /\ PanelInv
  BY DEF Init, SensorInv, ReadingInv, QueueInv, PanelInv, NoReading, Blank
<1> QED
  BY <1>1, <1>2 DEF OutdoorInv

\* The parts of the types.
LEMMA OutdoorTypes ==
  ASSUME OutdoorTypeOK
  PROVE  /\ latest \in 1..MaxReports /\ measured \in [1..MaxReports -> 0..Cap] /\ offline \in 0..Cap
         /\ reading \in Readings /\ queue \in Seq(Frames) /\ outdoor \in Shown
         /\ Len(queue) \in Nat /\ DOMAIN queue = 1..Len(queue)
         /\ \A i \in 1..Len(queue) : queue[i] \in Frames
<1>1. queue \in Seq(Frames)
  BY DEF OutdoorTypeOK, Frames
<1> QED
  BY <1>1 DEF OutdoorTypeOK, Readings, Shown, Reports

-----------------------------------------------------------------------------
(* The steps *)

\* A step of the sensor: what was current is current.
LEMMA SensorKeeps ==
  ASSUME OutdoorInv, Report \/ GoesOffline \/ GoesOnline
  PROVE  OutdoorInv'
<1> USE OutdoorBounds
<1>1. /\ reading' = reading /\ session' = session /\ queue' = queue
      /\ outdoor' = outdoor /\ clock' = clock
  BY DEF Report, GoesOffline, GoesOnline, panel
<1>2. OutdoorTypeOK
  BY DEF OutdoorInv
<1>3. /\ latest' \in Reports /\ latest <= latest' /\ measured' \in [Reports -> 0..Cap]
      /\ online' \in BOOLEAN /\ offline' \in 0..Cap /\ outages' \in 0..MaxOutages
  <2>1. CASE Report
    BY <2>1, <1>2 DEF Report, OutdoorTypeOK, Reports
  <2>2. CASE GoesOffline
    <3>1. outages' \in 0..MaxOutages
      BY <2>2, <1>2 DEF GoesOffline, Outage, OutdoorTypeOK
    <3>2. latest' = latest /\ measured' = measured /\ offline' = offline
      BY <2>2 DEF GoesOffline
    <3>3. online' \in BOOLEAN
      BY <2>2 DEF GoesOffline
    <3> QED
      BY <3>1, <3>2, <3>3, <1>2 DEF OutdoorTypeOK, Reports
  <2>3. CASE GoesOnline
    <3>1. 0 \in 0..Cap
      OBVIOUS
    <3> QED
      BY <2>3, <3>1, <1>2 DEF GoesOnline, OutdoorTypeOK, Reports
  <2> QED
    BY <2>1, <2>2, <2>3
<1>4. OutdoorTypeOK'
  BY <1>1, <1>2, <1>3 DEF OutdoorTypeOK
<1>5. ASSUME NEW v \in 0..latest, NEW n \in Nat, Current(v, n) PROVE Current(v, n)'
  <2>1. CASE Report
    <3>1. /\ latest' = latest + 1 /\ offline' = offline
          /\ measured' = [measured EXCEPT ![latest + 1] = 0]
      BY <2>1 DEF Report
    <3>2. measured'[latest + 1] = 0
      BY <3>1, <1>2, <1>3 DEF OutdoorTypeOK, Reports
    <3>3. v < latest => measured'[v + 1] = measured[v + 1]
      BY <3>1, <1>2 DEF OutdoorTypeOK, Reports
    <3> QED
      BY <1>5, <1>2, <3>1, <3>2, <3>3 DEF Current, OutdoorTypeOK, Reports
  <2>2. CASE GoesOffline \/ GoesOnline
    BY <1>5, <2>2 DEF GoesOffline, GoesOnline, Current
  <2> QED
    BY <2>1, <2>2
<1>6. SensorInv'
  BY DEF OutdoorInv, SensorInv, Report, GoesOffline, GoesOnline
<1>7. ReadingInv'
  <2>1. reading.v \in 0..MaxReports /\ reading.age \in Nat
    BY <1>2, OutdoorTypes DEF Readings
  <2>2. latest \in 1..MaxReports /\ latest' \in Nat
    BY <1>2, <1>3, OutdoorTypes DEF Reports
  <2> QED
    BY <1>1, <1>3, <1>5, <2>1, <2>2 DEF OutdoorInv, ReadingInv
<1>8. QueueInv'
  <2>1. ASSUME NEW i \in 1..Len(queue) PROVE Carried(queue[i])'
    <3>1. queue[i] \in Frames /\ latest \in 1..MaxReports /\ latest' \in Nat
      BY <1>2, <1>3, OutdoorTypes DEF Reports
    <3>2. Carried(queue[i])
      BY DEF OutdoorInv, QueueInv
    <3>3. queue[i].v \in 0..latest /\ queue[i].age \in Nat
      BY <3>1, <3>2 DEF Carried, Frames
    <3> QED
      BY <1>1, <1>3, <1>5, <3>1, <3>2, <3>3 DEF Carried
  <2> QED
    BY <1>1, <2>1 DEF OutdoorInv, QueueInv
<1>9. PanelInv'
  <2>1. /\ outdoor.v \in 0..MaxReports /\ outdoor.since \in Nat
        /\ latest \in 1..MaxReports /\ latest' \in Nat
    BY <1>2, <1>3, OutdoorTypes DEF Shown, Reports
  <2>2. outdoor.v \in 0..latest /\ PollMax + MaxLag + outdoor.since \in Nat
    BY <2>1 DEF OutdoorInv, PanelInv
  <2> QED
    BY <1>1, <1>3, <1>5, <2>1, <2>2 DEF OutdoorInv, PanelInv
<1> QED
  BY <1>4, <1>6, <1>7, <1>8, <1>9 DEF OutdoorInv

\* Time passes: everything grows older together.
LEMMA TickKeeps ==
  ASSUME OutdoorInv, Tick
  PROVE  OutdoorInv'
<1> USE OutdoorBounds
<1>1. OutdoorTypeOK
  BY DEF OutdoorInv
<1>2. /\ latest \in 1..MaxReports /\ measured \in [1..MaxReports -> 0..Cap] /\ offline \in 0..Cap
      /\ reading \in Readings /\ queue \in Seq(Frames) /\ outdoor \in Shown
      /\ Len(queue) \in Nat /\ DOMAIN queue = 1..Len(queue)
      /\ \A i \in 1..Len(queue) : queue[i] \in Frames
  BY <1>1, OutdoorTypes
<1>3. /\ online' = online /\ latest' = latest /\ session' = session
      /\ clock' = clock /\ outages' = outages
  BY DEF Tick
<1>4. /\ measured' \in [1..MaxReports -> 0..Cap]
      /\ \A r \in 1..MaxReports : measured'[r] = Older(measured[r])
  BY <1>2, OlderAges DEF Tick, Reports
<1>5. offline' \in 0..Cap /\ offline' <= Older(offline) /\ (online => offline' = 0)
  BY <1>2, OlderAges DEF Tick
<1>6. /\ reading' \in Readings
      /\ reading'.at = reading.at /\ reading'.ok = reading.ok /\ reading'.v = reading.v
      /\ reading.at # "none" => reading.age < PollMax /\ reading'.age = Older(reading.age)
  BY <1>2, OlderAges DEF Tick, Aged, Readings
<1>7. ASSUME NEW i \in 1..Len(queue)
      PROVE  /\ Aged(queue[i]) \in Frames
             /\ Aged(queue[i]).v = queue[i].v /\ Aged(queue[i]).ok = queue[i].ok
             /\ Aged(queue[i]).age = Older(queue[i].age)
             /\ session => queue[i].age < PollMax + MaxLag
  <2>1. queue[i] \in Frames
    BY <1>2
  <2>2. session => queue[i].age < (IF queue[i].v = 0 THEN MaxLag ELSE PollMax + MaxLag)
    BY <1>2 DEF Tick
  <2>3. Older(queue[i].age) \in 0..Cap
    BY <2>1, OlderAges DEF Frames
  <2>4. /\ Aged(queue[i]) \in Frames
        /\ Aged(queue[i]).v = queue[i].v /\ Aged(queue[i]).ok = queue[i].ok
        /\ Aged(queue[i]).age = Older(queue[i].age)
    BY <2>1, <2>3 DEF Aged, Frames
  <2>5. session => queue[i].age < PollMax + MaxLag
    BY <2>1, <2>2 DEF Frames
  <2> QED
    BY <2>4, <2>5
<1>8. /\ queue' \in Seq(Frames) /\ Len(queue') = Len(queue)
      /\ \A i \in 1..Len(queue) : queue'[i] = Aged(queue[i])
  <2>1. queue' = [i \in 1..Len(queue) |-> Aged(queue[i])]
    BY <1>2 DEF Tick
  <2> QED
    BY <1>2, <1>7, <2>1
<1>9. outdoor' \in Shown /\ outdoor' = [outdoor EXCEPT !.since = Older(outdoor.since)]
  BY <1>2, OlderAges DEF Tick, Shown
<1>10. OutdoorTypeOK'
  BY <1>1, <1>2, <1>3, <1>4, <1>5, <1>6, <1>8, <1>9
  DEF OutdoorTypeOK, Frames, Readings, Shown, Reports
<1> DEFINE Later(v, n) == offline' <= n /\ (v < latest => measured'[v + 1] <= n)
<1>11. ASSUME NEW v \in 0..latest, NEW n \in 0..Cap, Current(v, n)
       PROVE  Later(v, Older(n))
  <2>1. offline' <= Older(n)
    BY <1>2, <1>5, <1>11, OlderAges DEF Current
  <2>2. ASSUME v < latest PROVE measured'[v + 1] <= Older(n)
    <3>1. v + 1 \in 1..MaxReports /\ measured[v + 1] \in 0..Cap /\ measured[v + 1] <= n
      BY <1>2, <1>11, <2>2 DEF Current
    <3> QED
      BY <1>4, <3>1, OlderAges
  <2> QED
    BY <2>1, <2>2
<1> HIDE DEF Later
<1>12. SensorInv'
  BY <1>3, <1>5 DEF SensorInv
<1>13. ReadingInv'
  <2>1. SUFFICES ASSUME reading.at # "none" PROVE ReadingInv'
    BY <1>6 DEF ReadingInv
  <2>2. /\ reading.v \in 1..latest /\ reading.age \in 0..Cap /\ reading.age < PollMax
        /\ reading.ok => Current(reading.v, reading.age)
        /\ outdoor.v <= reading.v
        /\ \A i \in 1..Len(queue) : queue[i].v <= reading.v
    <3>1. reading.age \in 0..Cap
      BY <1>2 DEF Readings
    <3> QED
      BY <1>6, <2>1, <3>1 DEF OutdoorInv, ReadingInv
  <2>3. reading'.age <= PollMax
    BY <1>6, <2>1, <2>2, OlderAges
  <2>6. reading'.ok => Later(reading.v, reading'.age)
    BY <1>2, <1>6, <1>11, <2>1, <2>2
  <2>4. \A i \in 1..Len(queue) : queue'[i].v <= reading.v
    BY <1>7, <1>8, <2>2
  <2>5. outdoor'.v <= reading.v
    BY <1>2, <1>9, <2>2 DEF Shown
  <2> QED
    BY <1>3, <1>6, <1>8, <2>1, <2>2, <2>3, <2>4, <2>5, <2>6 DEF ReadingInv, Current, Later
<1>14. QueueInv'
  <2>1. ASSUME NEW i \in 1..Len(queue) PROVE Carried(queue[i])'
    <3>1. Carried(queue[i]) /\ queue[i] \in Frames
      BY <1>2 DEF OutdoorInv, QueueInv
    <3>2. /\ queue'[i].v = queue[i].v /\ queue'[i].ok = queue[i].ok
          /\ queue'[i].age = Older(queue[i].age) /\ queue[i].age \in 0..Cap
          /\ session => queue[i].age < PollMax + MaxLag
      BY <1>7, <1>8, <3>1 DEF Frames
    <3>3. session' => queue'[i].age <= PollMax + MaxLag
      BY <1>3, <3>2, OlderAges
    <3>4. queue'[i].ok => queue[i].v # 0 /\ Later(queue[i].v, queue'[i].age)
      BY <1>2, <1>11, <3>1, <3>2 DEF Carried, Frames
    <3>5. outdoor'.v = outdoor.v
      BY <1>2, <1>9 DEF Shown
    <3> QED
      BY <1>3, <3>1, <3>2, <3>3, <3>4, <3>5 DEF Carried, Current, Later
  <2>2. \A i \in 1..Len(queue) : queue'[i].v = queue[i].v
    BY <1>7, <1>8
  <2> QED
    BY <1>8, <2>1, <2>2 DEF OutdoorInv, QueueInv
<1>15. PanelInv'
  <2>1. /\ outdoor'.v = outdoor.v /\ outdoor'.ready = outdoor.ready
        /\ outdoor'.since = Older(outdoor.since) /\ outdoor'.since \in 0..Cap
        /\ outdoor.since \in 0..Cap /\ outdoor.v \in 0..MaxReports
    BY <1>2, <1>9 DEF Shown
  <2>2. ASSUME NEW a \in 0..Cap, a <= PollMax + MaxLag + outdoor.since
        PROVE  Older(a) <= PollMax + MaxLag + Older(outdoor.since)
    BY <2>1, <2>2 DEF Older
  <2> DEFINE n == PollMax + MaxLag + outdoor'.since
  <2>3. outdoor.ready => outdoor.v # 0 /\ Later(outdoor.v, n)
    <3>1. SUFFICES ASSUME outdoor.ready, Current(outdoor.v, PollMax + MaxLag + outdoor.since)
                   PROVE  Later(outdoor.v, n)
      BY DEF OutdoorInv, PanelInv
    <3>2. offline' <= n
      <4>1. offline <= PollMax + MaxLag + outdoor.since
        BY <3>1 DEF Current
      <4>2. Older(offline) <= n /\ Older(offline) \in Nat
        BY <1>2, <2>1, <2>2, <4>1, OlderAges
      <4>3. n \in Nat
        BY <2>1
      <4> QED
        <5> HIDE DEF n
        <5> QED
          BY <1>5, <4>2, <4>3
    <3>3. ASSUME outdoor.v < latest PROVE measured'[outdoor.v + 1] <= n
      <4>1. outdoor.v + 1 \in 1..MaxReports /\ measured[outdoor.v + 1] \in 0..Cap
        BY <1>2, <2>1, <3>3
      <4>2. measured[outdoor.v + 1] <= PollMax + MaxLag + outdoor.since
        BY <3>1, <3>3 DEF Current
      <4> QED
        BY <1>4, <2>1, <2>2, <4>1, <4>2
    <3> QED
      BY <3>2, <3>3 DEF Later
  <2> QED
    BY <1>3, <2>1, <2>3 DEF OutdoorInv, PanelInv, Current, Later
<1> QED
  BY <1>10, <1>12, <1>13, <1>14, <1>15 DEF OutdoorInv

\* A step of the loop up to its POST: the provider's answer is of now.
LEMMA ReadingKeeps ==
  ASSUME OutdoorInv, DeviceRead \/ frame \/ publishFails
  PROVE  OutdoorInv'
<1> USE OutdoorBounds
<1>1. /\ online' = online /\ latest' = latest /\ measured' = measured /\ offline' = offline
      /\ session' = session /\ queue' = queue /\ outdoor' = outdoor /\ clock' = clock
  BY DEF DeviceRead, frame, publishFails, sensor, panel
<1>2. OutdoorTypeOK
  BY DEF OutdoorInv
<1>3. /\ latest \in 1..MaxReports /\ measured \in [1..MaxReports -> 0..Cap]
      /\ reading \in Readings /\ outdoor \in Shown
      /\ \A i \in 1..Len(queue) : queue[i] \in Frames
  BY <1>2, OutdoorTypes
<1>4. outages' \in 0..MaxOutages
  <2>1. outages \in 0..MaxOutages
    BY <1>2 DEF OutdoorTypeOK
  <2>2. outages' = outages \/ (outages < MaxOutages /\ outages' = outages + 1)
    BY DEF DeviceRead, frame, publishFails, Outage
  <2> QED
    BY <2>1, <2>2
<1>5. online \in BOOLEAN
  BY <1>2 DEF OutdoorTypeOK
<1>6. reading' \in Readings /\ ReadingInv'
  <2>1. CASE DeviceRead
    <3>1. reading' = [at |-> "read", ok |-> online, v |-> latest, age |-> 0]
      BY <2>1 DEF DeviceRead
    <3>2. reading' \in Readings
      BY <3>1, <1>3, <1>5 DEF Readings
    <3>3. reading'.v = latest /\ reading'.age = 0 /\ reading'.ok = online
      BY <3>1
    <3>4. online => Current(latest, 0)
      BY <1>3 DEF OutdoorInv, SensorInv, Current
    <3>5. outdoor.v <= latest /\ \A i \in 1..Len(queue) : queue[i].v <= latest
      BY DEF OutdoorInv, PanelInv, QueueInv, Carried
    <3> QED
      BY <1>1, <1>3, <3>2, <3>3, <3>4, <3>5 DEF ReadingInv, Current
  <2>2. CASE frame
    <3>1. /\ reading.at = "read"
          /\ reading' = [reading EXCEPT !.at = "framed",
                                        !.ok = reading.ok /\ measured[reading.v] < Limit]
      BY <2>2 DEF frame
    <3>2. (reading.ok /\ measured[reading.v] < Limit) \in BOOLEAN
      OBVIOUS
    <3>3. reading' \in Readings
      BY <3>1, <3>2, <1>3 DEF Readings
    <3>4. /\ reading'.v = reading.v /\ reading'.age = reading.age
          /\ reading'.ok => reading.ok
      BY <3>1, <1>3 DEF Readings
    <3> QED
      BY <1>1, <3>1, <3>3, <3>4 DEF OutdoorInv, ReadingInv, Current
  <2>3. CASE publishFails
    BY <2>3 DEF publishFails, NoReading, ReadingInv, Readings
  <2> QED
    BY <2>1, <2>2, <2>3
<1>7. OutdoorTypeOK'
  BY <1>1, <1>2, <1>4, <1>6 DEF OutdoorTypeOK, Readings
<1>8. SensorInv' /\ QueueInv' /\ PanelInv'
  BY <1>1 DEF OutdoorInv, SensorInv, QueueInv, Carried, PanelInv, Current
<1> QED
  BY <1>6, <1>7, <1>8 DEF OutdoorInv

\* The adapter queues the command behind all others, or drops it.
LEMMA PublishKeeps ==
  ASSUME OutdoorInv, publish
  PROVE  OutdoorInv'
<1> USE OutdoorBounds
<1>1. /\ online' = online /\ latest' = latest /\ measured' = measured /\ offline' = offline
      /\ session' = session /\ outdoor' = outdoor /\ clock' = clock /\ outages' = outages
      /\ reading.at = "framed" /\ reading' = NoReading
  BY DEF publish, sensor, panel
<1>2. OutdoorTypeOK
  BY DEF OutdoorInv
<1>3. /\ latest \in 1..MaxReports /\ reading \in Readings /\ outdoor \in Shown
      /\ queue \in Seq(Frames) /\ Len(queue) \in Nat
      /\ \A i \in 1..Len(queue) : queue[i] \in Frames
  BY <1>2, OutdoorTypes
<1> DEFINE f == [v |-> reading.v, ok |-> reading.ok, age |-> reading.age]
<1>4. f \in Frames
  BY <1>3 DEF Readings, Frames
<1>5. reading' \in Readings /\ ReadingInv'
  BY <1>1 DEF NoReading, ReadingInv, Readings
<1>6. SensorInv' /\ PanelInv'
  BY <1>1 DEF OutdoorInv, SensorInv, PanelInv, Current
<1>7. Len(queue) <= QueueMax
  BY <1>2 DEF OutdoorTypeOK
<1>8. CASE queue' = queue
  <2>1. OutdoorTypeOK'
    BY <1>1, <1>2, <1>5, <1>8 DEF OutdoorTypeOK, Readings
  <2>2. QueueInv'
    BY <1>1, <1>8 DEF OutdoorInv, QueueInv, Carried, Current
  <2> QED
    BY <1>5, <1>6, <2>1, <2>2 DEF OutdoorInv
<1>9. CASE Len(queue) < QueueMax /\ queue' = Append(queue, f)
  <2>1. /\ queue' \in Seq(Frames) /\ Len(queue') = Len(queue) + 1
        /\ queue'[Len(queue) + 1] = f
        /\ \A i \in 1..Len(queue) : queue'[i] = queue[i]
    <3> HIDE DEF f
    <3> QED
      BY <1>3, <1>4, <1>9
  <2>2. OutdoorTypeOK'
    <3>1. Len(queue') <= QueueMax
      BY <1>3, <1>9, <2>1
    <3> QED
      BY <1>1, <1>2, <1>5, <2>1, <3>1 DEF OutdoorTypeOK, Readings, Frames
  <2>3. /\ reading.v \in 1..latest /\ reading.age <= PollMax
        /\ reading.ok => Current(reading.v, reading.age)
        /\ outdoor.v <= reading.v
        /\ \A i \in 1..Len(queue) : queue[i].v <= reading.v
    BY <1>1 DEF OutdoorInv, ReadingInv
  <2>4. f.v = reading.v /\ f.ok = reading.ok /\ f.age = reading.age
    OBVIOUS
  <2>5. reading.age \in Nat
    BY <1>3 DEF Readings
  <2>6. Carried(f)
    BY <1>3, <2>3, <2>4, <2>5 DEF Carried
  <2> HIDE DEF f
  <2>7. ASSUME NEW i \in 1..Len(queue') PROVE Carried(queue[i]) \/ i = Len(queue) + 1
    BY <1>3, <2>1, <2>7 DEF OutdoorInv, QueueInv
  <2>8. ASSUME NEW i \in 1..Len(queue') PROVE Carried(queue[i])'
    BY <1>1, <1>3, <2>1, <2>6, <2>7, <2>8 DEF Carried, Current
  <2>9. ASSUME NEW i \in 1..Len(queue'), NEW j \in 1..Len(queue'), i <= j
        PROVE  queue'[i].v <= queue'[j].v
    <3>1. CASE j \in 1..Len(queue)
      BY <1>3, <2>1, <2>9, <3>1 DEF OutdoorInv, QueueInv
    <3>2. CASE j = Len(queue) + 1 /\ i \in 1..Len(queue)
      BY <2>1, <2>3, <2>4, <3>2
    <3>3. CASE i = j
      <4>1. queue'[i] \in Frames
        BY <2>1
      <4> QED
        BY <3>3, <4>1 DEF Frames
    <3> QED
      BY <1>3, <2>1, <2>9, <3>1, <3>2, <3>3
  <2> QED
    BY <1>5, <1>6, <2>2, <2>8, <2>9 DEF OutdoorInv, QueueInv
<1> QED
  BY <1>8, <1>9 DEF publish

\* A session begins with a queue of its own, and ends whatever it had to send.
LEMMA SessionKeeps ==
  ASSUME OutdoorInv, Hello \/ SessionEnds
  PROVE  OutdoorInv'
<1> USE OutdoorBounds
<1>1. /\ online' = online /\ latest' = latest /\ measured' = measured /\ offline' = offline
      /\ reading' = reading
  BY DEF Hello, SessionEnds, sensor
<1>2. OutdoorTypeOK
  BY DEF OutdoorInv
<1>3. /\ latest \in 1..MaxReports /\ reading \in Readings /\ outdoor \in Shown
      /\ Len(queue) \in Nat /\ \A i \in 1..Len(queue) : queue[i] \in Frames
  BY <1>2, OutdoorTypes
<1>4. SensorInv'
  BY <1>1 DEF OutdoorInv, SensorInv
<1>5. CASE Hello
  <2>1. /\ session' \in BOOLEAN /\ outdoor' = outdoor /\ clock' = clock /\ outages' = outages
    BY <1>5 DEF Hello, panel
  <2>2. /\ queue' \in Seq(Frames) /\ Len(queue') = 1
        /\ queue'[1] = Time /\ Time \in Frames
    BY <1>5 DEF Hello, Time, Frames
  <2>3. Time.v = 0 /\ Time.ok = FALSE /\ Time.age = 0
    BY DEF Time
  <2>4. OutdoorTypeOK'
    BY <1>1, <1>2, <2>1, <2>2 DEF OutdoorTypeOK, Frames
  <2>5. ReadingInv'
    BY <1>1, <1>3, <2>1, <2>2, <2>3 DEF OutdoorInv, ReadingInv, Current, Readings
  <2>6. QueueInv'
    <3>1. Carried(queue[1])'
      BY <1>1, <1>3, <2>2, <2>3 DEF Carried
    <3> QED
      BY <2>2, <2>3, <3>1 DEF QueueInv
  <2>7. PanelInv'
    BY <1>1, <2>1 DEF OutdoorInv, PanelInv, Current
  <2> QED
    BY <1>4, <2>4, <2>5, <2>6, <2>7 DEF OutdoorInv
<1>6. CASE SessionEnds
  <2>1. session' = FALSE /\ queue' = queue /\ outages' \in 0..MaxOutages
    BY <1>2, <1>6 DEF SessionEnds, Outage, OutdoorTypeOK
  <2>2. \/ outdoor' = outdoor /\ clock' = clock
        \/ outdoor' = Blank /\ clock' = [ready |-> FALSE, lag |-> 0]
    BY <1>6 DEF SessionEnds, panel
  <2>3. /\ outdoor' \in Shown
        /\ outdoor' = outdoor \/ (outdoor'.v = 0 /\ outdoor'.ready = FALSE)
        /\ clock' \in [ready : BOOLEAN, lag : 0..Cap]
    <3>1. Blank \in Shown /\ Blank.v = 0 /\ Blank.ready = FALSE
      BY DEF Blank, Shown
    <3>2. clock' \in [ready : BOOLEAN, lag : 0..Cap]
      <4>1. [ready |-> FALSE, lag |-> 0] \in [ready : BOOLEAN, lag : 0..Cap]
        OBVIOUS
      <4>2. clock \in [ready : BOOLEAN, lag : 0..Cap]
        BY <1>2 DEF OutdoorTypeOK
      <4> QED
        BY <2>2, <4>1, <4>2
    <3>3. CASE outdoor' = outdoor
      BY <1>3, <3>2, <3>3
    <3>4. CASE outdoor' = Blank
      BY <3>1, <3>2, <3>4
    <3> QED
      BY <2>2, <3>3, <3>4
  <2>4. OutdoorTypeOK'
    <3>1. session' \in BOOLEAN
      BY <2>1
    <3> QED
      BY <1>1, <1>2, <2>1, <2>3, <3>1 DEF OutdoorTypeOK, Shown
  <2>5. ReadingInv'
    BY <1>1, <1>3, <2>1, <2>3 DEF OutdoorInv, ReadingInv, Current, Readings
  <2>6. QueueInv'
    <3>1. ASSUME NEW i \in 1..Len(queue) PROVE Carried(queue[i])'
      BY <1>1, <1>3, <2>1, <2>3 DEF OutdoorInv, QueueInv, Carried, Current, Frames
    <3> QED
      BY <2>1, <3>1 DEF OutdoorInv, QueueInv
  <2>7. PanelInv'
    BY <1>1, <1>3, <2>3 DEF OutdoorInv, PanelInv, Current
  <2> QED
    BY <1>4, <2>4, <2>5, <2>6, <2>7 DEF OutdoorInv
<1> QED
  BY <1>5, <1>6

\* The first frame leaves the queue, and the panel may have taken it.
LEMMA FrameKeeps ==
  ASSUME OutdoorInv, receiveFrame \/ FrameLost
  PROVE  OutdoorInv' /\ outdoor'.v >= outdoor.v
<1> USE OutdoorBounds
<1>1. /\ online' = online /\ latest' = latest /\ measured' = measured /\ offline' = offline
      /\ reading' = reading /\ session' = session /\ session
      /\ queue # <<>> /\ queue' = Tail(queue)
  BY DEF receiveFrame, FrameLost, sensor
<1>2. OutdoorTypeOK
  BY DEF OutdoorInv
<1>3. /\ latest \in 1..MaxReports /\ reading \in Readings /\ outdoor \in Shown
      /\ queue \in Seq(Frames) /\ Len(queue) \in Nat
      /\ \A i \in 1..Len(queue) : queue[i] \in Frames
  BY <1>2, OutdoorTypes
<1> DEFINE f == Head(queue)
<1>4. /\ Len(queue) >= 1 /\ f = queue[1] /\ f \in Frames
      /\ queue' \in Seq(Frames) /\ Len(queue') = Len(queue) - 1
      /\ \A i \in 1..Len(queue') : queue'[i] = queue[i + 1] /\ i + 1 \in 1..Len(queue)
  BY <1>1, <1>3, HeadTailProperties
<1>5. /\ Carried(f) /\ \A i \in 1..Len(queue) : f.v <= queue[i].v
      /\ reading.at # "none" => f.v <= reading.v
  BY <1>3, <1>4 DEF OutdoorInv, QueueInv, ReadingInv
<1>6. /\ outages' \in 0..MaxOutages
      /\ \/ outdoor' = outdoor
         \/ f.v # 0 /\ f.ok /\ outdoor' = [ready |-> TRUE, v |-> f.v, since |-> 0]
         \/ outdoor' = [outdoor EXCEPT !.ready = FALSE]
      /\ clock' = clock \/ clock' = [ready |-> TRUE, lag |-> f.age]
  <2>1. CASE receiveFrame
    <3>1. outages' \in 0..MaxOutages
      BY <1>2, <2>1 DEF receiveFrame, OutdoorTypeOK
    <3>2. CASE f.v = 0
      BY <2>1, <3>1, <3>2 DEF receiveFrame
    <3>3. CASE f.v # 0 /\ f.ok
      BY <2>1, <3>1, <3>3 DEF receiveFrame
    <3>4. CASE f.v # 0 /\ ~f.ok
      BY <2>1, <3>1, <3>4 DEF receiveFrame
    <3> QED
      BY <3>2, <3>3, <3>4
  <2>2. CASE FrameLost
    <3>1. outages' \in 0..MaxOutages
      BY <1>2, <2>2 DEF FrameLost, Outage, OutdoorTypeOK
    <3>2. outdoor' = outdoor /\ clock' = clock
      BY <2>2 DEF FrameLost, panel
    <3> QED
      BY <3>1, <3>2
  <2> QED
    BY <2>1, <2>2
<1> HIDE DEF f
<1>7. clock' \in [ready : BOOLEAN, lag : 0..Cap]
  <2>1. clock \in [ready : BOOLEAN, lag : 0..Cap]
    BY <1>2 DEF OutdoorTypeOK
  <2>2. [ready |-> TRUE, lag |-> f.age] \in [ready : BOOLEAN, lag : 0..Cap]
    BY <1>4 DEF Frames
  <2> QED
    BY <1>6, <2>1, <2>2
<1>8. /\ outdoor' \in Shown /\ outdoor.v <= outdoor'.v
      /\ outdoor'.v = outdoor.v \/ outdoor'.v = f.v
      /\ \/ outdoor' = outdoor
         \/ outdoor'.ready = FALSE
         \/ f.v # 0 /\ f.ok /\ outdoor'.v = f.v /\ outdoor'.since = 0
  <2>1. CASE outdoor' = outdoor
    BY <1>3, <2>1 DEF Shown
  <2>2. CASE f.v # 0 /\ f.ok /\ outdoor' = [ready |-> TRUE, v |-> f.v, since |-> 0]
    <3>1. [ready |-> TRUE, v |-> f.v, since |-> 0] \in Shown
      BY <1>4 DEF Frames, Shown
    <3> QED
      BY <1>5, <2>2, <3>1 DEF Carried
  <2>3. CASE outdoor' = [outdoor EXCEPT !.ready = FALSE]
    <3>1. FALSE \in BOOLEAN
      OBVIOUS
    <3>2. outdoor' \in Shown
      BY <1>3, <2>3, <3>1 DEF Shown
    <3>3. outdoor'.v = outdoor.v /\ outdoor.v \in Nat
      BY <1>3, <2>3 DEF Shown
    <3>4. outdoor'.ready = FALSE
      BY <1>3, <2>3 DEF Shown
    <3> QED
      BY <3>2, <3>3, <3>4
  <2> QED
    BY <1>6, <2>1, <2>2, <2>3
<1>9. OutdoorTypeOK'
  <2>1. Len(queue') <= QueueMax
    BY <1>2, <1>3, <1>4 DEF OutdoorTypeOK
  <2> QED
    BY <1>1, <1>2, <1>4, <1>6, <1>7, <1>8, <2>1 DEF OutdoorTypeOK, Frames, Shown
<1>10. SensorInv'
  BY <1>1 DEF OutdoorInv, SensorInv
<1>11. ReadingInv'
  <2>1. SUFFICES ASSUME reading.at # "none" PROVE ReadingInv'
    BY <1>1 DEF ReadingInv
  <2>2. /\ reading.v \in 1..latest /\ reading.age <= PollMax
        /\ reading.ok => Current(reading.v, reading.age)
        /\ outdoor.v <= reading.v
        /\ \A i \in 1..Len(queue) : queue[i].v <= reading.v
    BY <2>1 DEF OutdoorInv, ReadingInv
  <2>3. outdoor'.v <= reading.v
    BY <1>5, <1>8, <2>1, <2>2
  <2>4. \A i \in 1..Len(queue') : queue'[i].v <= reading.v
    BY <1>4, <2>2
  <2> QED
    BY <1>1, <2>2, <2>3, <2>4 DEF ReadingInv, Current
<1>12. QueueInv'
  <2>1. ASSUME NEW i \in 1..Len(queue') PROVE Carried(queue[i])'
    <3>1. queue'[i] = queue[i + 1] /\ i + 1 \in 1..Len(queue)
      BY <1>4
    <3>2. Carried(queue[i + 1]) /\ f.v <= queue[i + 1].v
      BY <1>5, <3>1 DEF OutdoorInv, QueueInv
    <3>3. queue[i + 1].v # 0 => outdoor'.v <= queue[i + 1].v
      BY <1>8, <3>2 DEF Carried
    <3> QED
      BY <1>1, <3>1, <3>2, <3>3 DEF Carried, Current
  <2>2. ASSUME NEW i \in 1..Len(queue'), NEW j \in 1..Len(queue'), i <= j
        PROVE  queue'[i].v <= queue'[j].v
    <3>1. /\ queue'[i] = queue[i + 1] /\ i + 1 \in 1..Len(queue)
          /\ queue'[j] = queue[j + 1] /\ j + 1 \in 1..Len(queue)
      BY <1>4
    <3>2. i + 1 <= j + 1
      BY <1>3, <1>4, <2>2
    <3> QED
      BY <3>1, <3>2 DEF OutdoorInv, QueueInv
  <2> QED
    BY <2>1, <2>2 DEF QueueInv
<1>13. PanelInv'
  <2>1. outdoor'.v <= latest
    BY <1>5, <1>8 DEF OutdoorInv, PanelInv, Carried
  <2>2. CASE outdoor' = outdoor
    BY <1>1, <2>2 DEF OutdoorInv, PanelInv, Current
  <2>3. CASE outdoor'.ready = FALSE
    BY <1>1, <2>1, <2>3 DEF PanelInv
  <2>4. CASE f.v # 0 /\ f.ok /\ outdoor'.v = f.v /\ outdoor'.since = 0
    <3>1. Current(f.v, f.age) /\ f.age <= PollMax + MaxLag
      BY <1>1, <1>5, <2>4 DEF Carried
    <3>2. f.age \in 0..Cap /\ f.v \in 0..MaxReports
      BY <1>4 DEF Frames
    <3>3. f.v < latest => measured[f.v + 1] \in Nat
      BY <1>2, <1>3, <3>2, OutdoorTypes
    <3>4. offline \in Nat
      BY <1>2, OutdoorTypes
    <3>5. Current(f.v, PollMax + MaxLag + 0)
      BY <3>1, <3>2, <3>3, <3>4 DEF Current
    <3> QED
      BY <1>1, <2>1, <2>4, <3>5 DEF PanelInv, Current
  <2> QED
    BY <1>8, <2>2, <2>3, <2>4
<1> QED
  BY <1>8, <1>9, <1>10, <1>11, <1>12, <1>13 DEF OutdoorInv

\* Steps that do not concern the readings.
LEMMA OutdoorStutters ==
  ASSUME OutdoorInv, UNCHANGED outdoorVars
  PROVE  OutdoorInv'
<1>1. /\ online' = online /\ latest' = latest /\ measured' = measured /\ offline' = offline
      /\ reading' = reading /\ session' = session /\ queue' = queue
      /\ outdoor' = outdoor /\ clock' = clock /\ outages' = outages
  BY DEF outdoorVars, sensor, panel
<1>2. OutdoorTypeOK'
  BY <1>1 DEF OutdoorInv, OutdoorTypeOK
<1>3. SensorInv' /\ ReadingInv' /\ QueueInv' /\ PanelInv'
  BY <1>1 DEF OutdoorInv, SensorInv, ReadingInv, QueueInv, Carried, PanelInv, Current
<1> QED
  BY <1>2, <1>3 DEF OutdoorInv

\* Every step keeps the invariant.
LEMMA OutdoorStepKeeps == OutdoorInv /\ [Next]_vars => OutdoorInv'
<1> SUFFICES ASSUME OutdoorInv, [Next]_vars PROVE OutdoorInv'
  OBVIOUS
<1>1. CASE Report \/ GoesOffline \/ GoesOnline
  BY <1>1, SensorKeeps
<1>2. CASE Tick
  BY <1>2, TickKeeps
<1>3. CASE DeviceRead \/ frame \/ publishFails
  BY <1>3, ReadingKeeps
<1>4. CASE publish
  BY <1>4, PublishKeeps
<1>5. CASE Hello \/ SessionEnds
  BY <1>5, SessionKeeps
<1>6. CASE receiveFrame \/ FrameLost
  BY <1>6, FrameKeeps
<1>7. CASE PollBegins \/ (AccountStep /\ UNCHANGED outdoorVars) \/ UNCHANGED vars
  <2>1. UNCHANGED outdoorVars
    BY <1>7 DEF PollBegins, vars
  <2> QED
    BY <2>1, OutdoorStutters
<1> QED
  BY <1>1, <1>2, <1>3, <1>4, <1>5, <1>6, <1>7 DEF Next

\* The invariant of the readings, in every behaviour.
THEOREM OutdoorInvariant == Spec => []OutdoorInv
<1>1. Init => OutdoorInv
  BY OutdoorStarts
<1> QED
  BY <1>1, OutdoorStepKeeps, PTL DEF Spec

-----------------------------------------------------------------------------
(* The theorems of the outdoor readings *)

\* The types (OutdoorTypeOK); of them, the adapter's queue is never longer than QueueMax.
THEOREM OutdoorTypesHold == Spec => []OutdoorTypeOK
<1>1. OutdoorInv => OutdoorTypeOK
  BY DEF OutdoorInv
<1> QED
  BY <1>1, OutdoorInvariant, PTL

\* A reading the panel calls live (drawScreen) was current within Hold.
THEOREM LiveOutdoorIsCurrent == Spec => []LiveOutdoorWasCurrent
<1>1. OutdoorInv => LiveOutdoorWasCurrent
  <2> SUFFICES ASSUME OutdoorInv, outdoorFresh
               PROVE  /\ offline < Hold
                      /\ outdoor.v < latest => measured[outdoor.v + 1] < Hold
    BY DEF LiveOutdoorWasCurrent
  <2>1. outdoor.since < Silent /\ Current(outdoor.v, PollMax + MaxLag + outdoor.since)
    BY DEF outdoorFresh, OutdoorInv, PanelInv
  <2>2. /\ latest \in 1..MaxReports /\ measured \in [1..MaxReports -> 0..Cap]
        /\ offline \in 0..Cap /\ outdoor \in Shown
    BY OutdoorTypes DEF OutdoorInv
  <2>3. outdoor.v \in 0..MaxReports /\ outdoor.since \in 0..Cap
    BY <2>2 DEF Shown
  <2>4. PollMax + MaxLag + outdoor.since < Hold
    BY <2>1, <2>3, OutdoorBounds DEF Hold
  <2>5. offline < Hold
    BY <2>1, <2>2, <2>3, <2>4, OutdoorBounds DEF Current
  <2>6. ASSUME outdoor.v < latest PROVE measured[outdoor.v + 1] < Hold
    <3>1. PICK r \in 1..MaxReports : r = outdoor.v + 1
      BY <2>2, <2>3, <2>6, OutdoorBounds
    <3>2. measured[r] \in 0..Cap
      BY <2>2
    <3>3. measured[r] <= PollMax + MaxLag + outdoor.since
      BY <2>1, <2>6, <3>1 DEF Current
    <3> QED
      BY <2>3, <2>4, <3>1, <3>2, <3>3, OutdoorBounds
  <2> QED
    BY <2>5, <2>6
<1> QED
  BY <1>1, OutdoorInvariant, PTL

\* A step never makes the panel show an earlier report.
LEMMA ShownForward ==
  ASSUME OutdoorInv, [Next]_vars, outdoor'.v # 0
  PROVE  outdoor'.v >= outdoor.v
<1>1. outdoor \in Shown
  BY OutdoorTypes DEF OutdoorInv
<1>2. CASE receiveFrame \/ FrameLost
  BY <1>2, FrameKeeps
<1>3. CASE SessionEnds
  <2>1. outdoor' = outdoor \/ outdoor'.v = 0
    BY <1>3 DEF SessionEnds, panel, Blank
  <2> QED
    BY <1>1, <2>1 DEF Shown
<1>4. CASE Tick
  BY <1>1, <1>4 DEF Tick, Shown
<1>5. CASE ~(receiveFrame \/ FrameLost \/ SessionEnds \/ Tick)
  <2>1. outdoor' = outdoor
    BY <1>5 DEF Next, vars, outdoorVars, panel, Report, GoesOffline, GoesOnline, PollBegins,
                DeviceRead, frame, publish, publishFails, Hello
  <2> QED
    BY <1>1, <2>1 DEF Shown
<1> QED
  BY <1>2, <1>3, <1>4, <1>5

\* Whatever frames are lost and however often the panel reconnects, what it shows
\* never goes back to an earlier report.
THEOREM OutdoorGoesForward == Spec => OutdoorForward
<1>1. ASSUME OutdoorInv, [Next]_vars
      PROVE  [outdoor'.v # 0 => outdoor'.v >= outdoor.v]_vars
  BY <1>1, ShownForward
<1> QED
  BY <1>1, OutdoorInvariant, PTL DEF Spec, OutdoorForward
=============================================================================
