--------------------------- MODULE EwelinkAccount ---------------------------
(***************************************************************************)
(* The eWeLink account: links made by the operator (authorization_url),    *)
(* the callback service's handler threads (complete_authorization) and the *)
(* collector's polls of the sensor (read_device), three processes that     *)
(* share one SQLite database; each `with database()` is one step.          *)
(*                                                                         *)
(* A successful exchange of a code yields a grant.  The provider accepts   *)
(* the tokens of a grant's last rotation only: a refresh makes the next.   *)
(* Without credentials, or with a callback that is refused, no variable    *)
(* changes; nor is there a step for that.                                  *)
(***************************************************************************)
EXTENDS Naturals

CONSTANTS
  States,       \* the state values of authorization links
  Callbacks,    \* handler threads of the callback service
  MaxGrants,    \* bound: grants the provider issues
  MaxRotations, \* bound: refreshes of one grant
  MaxFaults     \* bound: failures of the collector's requests, and its restarts

ASSUME AccountAssumption == {MaxGrants, MaxRotations, MaxFaults} \subseteq Nat

VARIABLES
  pending,         \* per state: "new", in the table "open" or "late", or "gone"
  request,         \* per thread: how far complete_authorization is
  account,         \* the row of account: which grant, which rotation
  collector,       \* read_device: how far it is, the row it read, the tokens it uses
  issued, newest,  \* external: grants so far, and the last rotation of each
  valid,           \* external: grants whose access token has not expired
  lost,            \* grants of which the last rotation was never stored
  faults           \* failures so far

provider == <<issued, newest, valid>>
accountVars == <<pending, request, account, collector, provider, lost, faults>>

Grants == 1..MaxGrants
Tokens == [grant : Grants, rot : 0..MaxRotations]
NoTokens == [grant |-> 0, rot |-> 0]
Idle == [at |-> "idle", state |-> "none", grant |-> 0]
Waiting == [at |-> "wait", row |-> NoTokens, rot |-> 0]

AccountInit ==
  /\ pending = [s \in States |-> "new"]
  /\ request = [c \in Callbacks |-> Idle]
  /\ account = NoTokens /\ collector = Waiting
  /\ issued = 0 /\ newest = [g \in Grants |-> 0] /\ valid = {}
  /\ lost = {} /\ faults = 0

-----------------------------------------------------------------------------
(* main.py: links and callbacks *)

\* The operator makes a link; rows that have expired are deleted.
authorization_url(s) ==
  /\ pending[s] = "new"
  /\ pending' = [t \in States |-> IF t = s THEN "open"
                                  ELSE IF pending[t] = "late" THEN "gone" ELSE pending[t]]
  /\ UNCHANGED <<request, account, collector, provider, lost, faults>>

\* Fifteen minutes have passed.
LinkExpires(s) ==
  /\ pending[s] = "open" /\ pending' = [pending EXCEPT ![s] = "late"]
  /\ UNCHANGED <<request, account, collector, provider, lost, faults>>

\* Mutant of Consume: the state is looked up, and deleted by nobody.
Consume_Select(c, s) ==
  /\ request[c].at = "idle" /\ pending[s] = "open"
  /\ request' = [request EXCEPT ![c] = [at |-> "exchange", state |-> s, grant |-> 0]]
  /\ UNCHANGED <<pending, account, collector, provider, lost, faults>>

\* A callback deletes its state: the one whose DELETE removed the row goes on.
Consume(c, s) ==
  /\ request[c].at = "idle" /\ pending[s] = "open"
  /\ pending' = [pending EXCEPT ![s] = "gone"]
  /\ request' = [request EXCEPT ![c] = [at |-> "exchange", state |-> s, grant |-> 0]]
  /\ UNCHANGED <<account, collector, provider, lost, faults>>

\* The provider exchanges the code for the tokens of a new grant.
Exchange(c) ==
  /\ request[c].at = "exchange" /\ issued < MaxGrants
  /\ issued' = issued + 1 /\ valid' = valid \cup {issued + 1}
  /\ request' = [request EXCEPT ![c].at = "store", ![c].grant = issued + 1]
  /\ UNCHANGED <<pending, account, collector, newest, lost, faults>>

\* INSERT OR REPLACE, whatever the row was.
Store(c) ==
  /\ request[c].at = "store"
  /\ account' = [grant |-> request[c].grant, rot |-> 0]
  /\ request' = [request EXCEPT ![c] = Idle]
  /\ UNCHANGED <<pending, collector, provider, lost, faults>>

\* The exchange or the transaction fails, or the service ends.
CallbackFails(c) ==
  /\ request[c].at # "idle" /\ request' = [request EXCEPT ![c] = Idle]
  /\ UNCHANGED <<pending, account, collector, provider, lost, faults>>

-----------------------------------------------------------------------------
(* collector.py: read_device *)

\* A poll reads the row; without one it fails at once.
Load ==
  /\ collector.at = "wait" /\ account # NoTokens
  /\ collector' = [at |-> "things", row |-> account, rot |-> account.rot]
  /\ UNCHANGED <<pending, request, account, provider, lost, faults>>

used == collector.row.grant
Accepted == collector.rot = newest[used] /\ used \in valid

\* The provider knows the access token and answers with the device.
ThingsAnswered ==
  /\ collector.at \in {"things", "again"} /\ Accepted
  /\ collector' = Waiting
  /\ UNCHANGED <<pending, request, account, provider, lost, faults>>

\* Error 402, the first time: the tokens are refreshed.
ThingsExpired ==
  /\ collector.at = "things" /\ ~Accepted
  /\ collector' = [collector EXCEPT !.at = "refresh"]
  /\ UNCHANGED <<pending, request, account, provider, lost, faults>>

\* Mutant of ProviderRefuses: the exception ends the collector's loop.
ProviderRefuses_Raises ==
  /\ \/ collector.at = "again" /\ ~Accepted
     \/ collector.at = "refresh" /\ collector.rot # newest[used]
  /\ collector' = [collector EXCEPT !.at = "ended"]
  /\ UNCHANGED <<pending, request, account, provider, lost, faults>>

\* The second time, or a refresh token that was used before: the poll fails.
ProviderRefuses ==
  /\ \/ collector.at = "again" /\ ~Accepted
     \/ collector.at = "refresh" /\ collector.rot # newest[used]
  /\ collector' = Waiting
  /\ UNCHANGED <<pending, request, account, provider, lost, faults>>

Rotated ==
  /\ collector.at = "refresh" /\ collector.rot = newest[used] /\ newest[used] < MaxRotations
  /\ newest' = [newest EXCEPT ![used] = @ + 1] /\ valid' = valid \cup {used}

\* The provider makes the next rotation, and the collector has it.
Refreshed ==
  /\ Rotated
  /\ collector' = [collector EXCEPT !.at = "persist", !.rot = @ + 1]
  /\ UNCHANGED <<pending, request, account, issued, lost, faults>>

\* Mutants of Persist: the row is replaced whatever it is; nothing is stored.
Persist_Always ==
  /\ collector.at = "persist"
  /\ account' = [grant |-> used, rot |-> collector.rot]
  /\ collector' = [collector EXCEPT !.at = "again"]
  /\ UNCHANGED <<pending, request, provider, lost, faults>>
Persist_Never ==
  /\ collector.at = "persist" /\ collector' = [collector EXCEPT !.at = "again"]
  /\ UNCHANGED <<pending, request, account, provider, lost, faults>>

\* UPDATE ... WHERE tokens=stored: a row that has changed meanwhile is kept, and
\* the poll fails.
Persist ==
  /\ collector.at = "persist"
  /\ IF account = collector.row
     THEN /\ account' = [account EXCEPT !.rot = collector.rot]
          /\ collector' = [collector EXCEPT !.at = "again"]
     ELSE collector' = Waiting /\ UNCHANGED account
  /\ UNCHANGED <<pending, request, provider, lost, faults>>

Fault == faults < MaxFaults /\ faults' = faults + 1

\* A request fails, the database stays locked, or the collector is restarted.
PollFails ==
  /\ collector.at # "wait" /\ Fault /\ collector' = Waiting
  /\ lost' = IF collector.at = "persist" THEN lost \cup {used} ELSE lost
  /\ UNCHANGED <<pending, request, account, provider>>

\* The provider has refreshed the tokens, but its answer is not read.
AnswerLost ==
  /\ Rotated /\ Fault /\ collector' = Waiting /\ lost' = lost \cup {used}
  /\ UNCHANGED <<pending, request, account, issued>>

\* An access token expires.
AccessExpires(g) ==
  /\ g \in valid /\ newest[g] < MaxRotations /\ valid' = valid \ {g}
  /\ UNCHANGED <<pending, request, account, collector, issued, newest, lost, faults>>

-----------------------------------------------------------------------------

\* All that leaves the poll of read_device unfinished, and its failures.
AccountStep ==
  \/ \E s \in States : authorization_url(s) \/ LinkExpires(s)
  \/ \E c \in Callbacks : (\E s \in States : Consume(c, s)) \/ Exchange(c) \/ Store(c)
                          \/ CallbackFails(c)
  \/ ThingsExpired \/ ProviderRefuses \/ Refreshed \/ Persist \/ PollFails \/ AnswerLost
  \/ \E g \in Grants : AccessExpires(g)

AccountNext == Load \/ ThingsAnswered \/ AccountStep

\* The collector polls for ever, and its requests have time-outs.
AccountFairness ==
  /\ WF_accountVars(Load) /\ WF_accountVars(ThingsAnswered) /\ WF_accountVars(ThingsExpired)
  /\ WF_accountVars(ProviderRefuses) /\ WF_accountVars(Refreshed) /\ WF_accountVars(Persist)

AccountSpec == AccountInit /\ [][AccountNext]_accountVars /\ AccountFairness

-----------------------------------------------------------------------------
(* Properties *)

\* Types.
AccountTypeOK ==
  /\ pending \in [States -> {"new", "open", "late", "gone"}]
  /\ request \in [Callbacks -> [at : {"idle", "exchange", "store"},
                                state : States \cup {"none"}, grant : 0..MaxGrants]]
  /\ account \in Tokens \cup {NoTokens}
  /\ collector \in [at : {"wait", "things", "refresh", "persist", "again"},
                    row : Tokens \cup {NoTokens}, rot : 0..MaxRotations]
  /\ issued \in 0..MaxGrants /\ newest \in [Grants -> 0..MaxRotations]
  /\ valid \subseteq Grants /\ lost \subseteq Grants
  /\ faults \in 0..MaxFaults

\* A link is used once: of several callbacks with its state, on as many threads,
\* one exchanges its code, and none does while the state may be consumed again.
OneExchange ==
  \A c, d \in Callbacks : request[c].at # "idle" =>
    /\ pending[request[c].state] = "gone"
    /\ c # d /\ request[d].at # "idle" => request[c].state # request[d].state

\* README.md of ewelink-callback: "Rotated tokens are persisted without overwriting a newer account
\* authorization."  Whatever passes between reading the row and writing it, all the collector does
\* to the row is to replace a rotation by the next one of the same grant.
NewerKept ==
  [][account' # account /\ request' = request =>
       account'.grant = account.grant /\ account'.rot = account.rot + 1]_accountVars

\* The tokens stored are those the provider accepts, or their refresh is under way and
\* will be stored, or a failure came between a refresh and its storing: no interleaving
\* of authorizations, polls and refreshes alone disconnects the account.
StoredTokensWork ==
  account # NoTokens =>
    \/ account.rot = newest[account.grant] \/ account.grant \in lost
    \/ /\ collector.at = "persist" /\ collector.row = account
       /\ collector.rot = newest[account.grant]

\* The sensor is read again and again, through expired tokens and new authorizations,
\* unless there is no account or its rotation was lost.
KeepsReading ==
  []<>(account = NoTokens \/ account.grant \in lost) \/ []<><<ThingsAnswered>>_accountVars
=============================================================================
