--------------------------- MODULE DispatchWorker ---------------------------
(***************************************************************************)
(* The aggregator's dispatch worker: a bounded priority queue of commands, *)
(* one task that POSTs them to the transport adapter with retries, and its *)
(* circuit breaker (services/aggregator, dispatch_worker.py).              *)
(*                                                                         *)
(* Commands are numbered in the order of their sequence numbers.  There is *)
(* no clock: a command carries the time it has left to live and to wait,   *)
(* the breaker the time since it opened or granted its probe, and Tick     *)
(* lets one unit pass.  Every timer stops where the code stops telling     *)
(* values apart.  Requests enqueue while the worker's task is suspended.   *)
(***************************************************************************)
EXTENDS Integers, FiniteSets

CONSTANTS
  MaxCommands,   \* bound: commands enqueued in a behaviour
  MaxSize,       \* maxsize of the queue (200 in the code)
  Priorities,    \* priorities of the commands routed (0 and 5, and a ticker event's)
  TtlUrgent, TtlUpdate, TtlLow,   \* 300 s, 120 s, 90 s
  BackoffBase, BackoffMax,        \* 0.5 s, 30 s
  Threshold,     \* _FAILURE_THRESHOLD (5)
  Reset          \* _RESET_TIMEOUT (30 s)

ASSUME DispatchAssumption ==
  /\ MaxCommands \in Nat /\ MaxSize \in Nat \ {0}
  /\ Priorities \subseteq Int
  /\ TtlUrgent \in Nat /\ TtlUpdate \in Nat /\ TtlLow \in Nat
  /\ BackoffBase \in Nat /\ BackoffMax \in Nat
  /\ Threshold \in Nat \ {0} /\ Reset \in Nat \ {0}

Commands == 1..MaxCommands

VARIABLES
  cmd,       \* per command: where it is, priority, time to live, time to wait, and
             \* delay = _BACKOFF_BASE * 2 ** attempts, up to _BACKOFF_MAX
  worker,    \* "loop": in _run_once; "sleep"; "http": awaits the POST
  circuit,   \* state of the breaker
  failures,  \* its consecutive failures, up to Threshold
  since,     \* time since it opened (open) or granted its probe (half_open), up to Reset
  silent     \* history: time since the last failed attempt, up to Reset

breaker == <<circuit, failures, since>>
vars == <<cmd, worker, breaker, silent>>

AtMost(a, b) == IF a < b THEN a ELSE b

_ttl_for_priority(p) ==
  IF p >= 90 THEN TtlUrgent ELSE IF p >= 5 THEN TtlUpdate ELSE TtlLow

New == [place |-> "new", prio |-> 0, life |-> 0, wait |-> 0, delay |-> 0]

\* A command that has left the worker for good.
Gone(how) == [New EXCEPT !.place = how]

At(c, place) == cmd[c].place = place
_queue == {c \in Commands : At(c, "queued")}

\* now > expires_at; the last instant of its life is still in time.
Expired(c) == cmd[c].life < 0

Init ==
  /\ cmd = [c \in Commands |-> New]
  /\ worker = "loop"
  /\ circuit = "closed" /\ failures = 0 /\ since = 0
  /\ silent = Reset

-----------------------------------------------------------------------------
(* The queue *)

Before(c, d) ==
  \/ cmd[c].prio > cmd[d].prio
  \/ cmd[c].prio = cmd[d].prio /\ c < d

\* Mutant of First: a command that must wait does not hold up the others.
First_Eligible(c) ==
  /\ c \in _queue /\ (cmd[c].wait = 0 \/ \A d \in _queue : cmd[d].wait > 0)
  /\ \A d \in _queue \ {c} : cmd[d].wait = 0 => Before(c, d)

\* The command get_nowait returns.
First(c) ==
  /\ c \in _queue
  /\ \A d \in _queue \ {c} : Before(c, d)

\* Sequence numbers are handed out in order.
NextSeq(c) == At(c, "new") /\ \A d \in Commands : d < c => ~At(d, "new")

\* The commands a full queue gives up for a new one.
_purge_expired == IF Cardinality(_queue) = MaxSize
                  THEN {d \in _queue : Expired(d)} ELSE {}

\* enqueue, from a request handler or the ticker drain.
enqueue(c, p) ==
  /\ worker # "loop"
  /\ NextSeq(c)
  /\ LET fresh == [place |-> "queued", prio |-> p, life |-> _ttl_for_priority(p),
                   wait |-> 0, delay |-> BackoffBase]
         room  == Cardinality(_queue \ _purge_expired) < MaxSize
     IN cmd' = [d \in Commands |->
                  IF d = c THEN IF room THEN fresh ELSE Gone("rejected")
                  ELSE IF d \in _purge_expired THEN Gone("expired") ELSE cmd[d]]
  /\ UNCHANGED <<worker, breaker, silent>>

-----------------------------------------------------------------------------
(* The circuit breaker *)

\* allow_request: a closed breaker allows every request; an open one, and a
\* half-open one whose probe never reported, grant one probe every Reset.
Allows == circuit = "closed" \/ since >= Reset

grant ==
  IF circuit = "closed" THEN UNCHANGED breaker
  ELSE circuit' = "half_open" /\ since' = 0 /\ UNCHANGED failures

record_success ==
  circuit' = "closed" /\ failures' = 0 /\ since' = 0

\* Mutant of record_failure: reopening does not restart the reset timeout.
record_failure_KeepsOpenedAt ==
  /\ failures' = AtMost(failures + 1, Threshold)
  /\ IF circuit = "half_open" \/ failures + 1 >= Threshold
     THEN circuit' = "open" /\ UNCHANGED since
     ELSE UNCHANGED <<circuit, since>>

record_failure ==
  /\ failures' = AtMost(failures + 1, Threshold)
  /\ IF circuit = "half_open" \/ failures + 1 >= Threshold
     THEN circuit' = "open" /\ since' = 0
     ELSE UNCHANGED <<circuit, since>>

-----------------------------------------------------------------------------
(* _run_once: one command is looked at *)

Sleeps == worker' = "sleep" /\ UNCHANGED <<cmd, breaker, silent>>

Idle ==
  /\ worker = "loop"
  /\ _queue = {}
  /\ Sleeps

\* Mutant of DropExpired: the breaker is asked before the expiry is looked at.
DropExpired_TakesProbe(c) ==
  /\ worker = "loop" /\ First(c)
  /\ Expired(c)
  /\ Allows /\ grant
  /\ cmd' = [cmd EXCEPT ![c] = Gone("expired")]
  /\ UNCHANGED <<worker, silent>>

\* An expired command goes before the breaker is asked.
DropExpired(c) ==
  /\ worker = "loop" /\ First(c)
  /\ Expired(c)
  /\ cmd' = [cmd EXCEPT ![c] = Gone("expired")]
  /\ UNCHANGED <<worker, breaker, silent>>

\* Its retry is not due: it goes back, into the place it has just left.
Defer(c) ==
  /\ worker = "loop" /\ First(c)
  /\ ~Expired(c) /\ cmd[c].wait > 0
  /\ Sleeps

CircuitRefuses(c) ==
  /\ worker = "loop" /\ First(c)
  /\ ~Expired(c) /\ cmd[c].wait = 0
  /\ ~Allows
  /\ Sleeps

Attempt(c) ==
  /\ worker = "loop" /\ First(c)
  /\ ~Expired(c) /\ cmd[c].wait = 0
  /\ Allows /\ grant
  /\ cmd' = [cmd EXCEPT ![c] = [@ EXCEPT !.place = "held"]]
  /\ worker' = "http"
  /\ UNCHANGED silent

\* The sleep is over (50 ms, 100 ms or 1 s).
Wakes ==
  /\ worker = "sleep"
  /\ worker' = "loop"
  /\ UNCHANGED <<cmd, breaker, silent>>

-----------------------------------------------------------------------------
(* _attempt: the outcome of the POST *)

\* 200, 202 or 204.
Succeeds(c) ==
  /\ At(c, "held")
  /\ cmd' = [cmd EXCEPT ![c] = Gone("dispatched")]
  /\ record_success
  /\ worker' = "loop"
  /\ UNCHANGED silent

\* The place of a command that is put back.
reinserted == IF Cardinality(_queue) < MaxSize THEN "queued" ELSE "lost"

\* Mutant of Fails: a retry is given a new time to live.
Fails_RenewsTtl(c, jitter) ==
  /\ At(c, "held")
  /\ record_failure
  /\ cmd' = [cmd EXCEPT ![c] =
       [@ EXCEPT !.place = reinserted,
                 !.life = _ttl_for_priority(cmd[c].prio),
                 !.wait = BackoffBase + jitter]]
  /\ worker' = "loop"
  /\ silent' = 0

\* Mutant of Fails: the retry goes back into a queue that has filled up.
Fails_Overfills(c, jitter) ==
  /\ At(c, "held")
  /\ record_failure
  /\ cmd' = [cmd EXCEPT ![c] = [@ EXCEPT !.place = "queued", !.wait = BackoffBase + jitter]]
  /\ worker' = "loop"
  /\ silent' = 0

\* Any other status, a transport error or a timeout: the command goes back to
\* wait, and is dropped when requests have filled the queue during the POST.
Fails(c, jitter) ==
  /\ At(c, "held")
  /\ record_failure
  /\ LET delay == AtMost(2 * cmd[c].delay, BackoffMax)
     IN cmd' = [cmd EXCEPT ![c] =
          [@ EXCEPT !.place = reinserted,
                    !.delay = delay,
                    !.wait = AtMost(delay + jitter, BackoffMax)]]
  /\ worker' = "loop"
  /\ silent' = 0

\* One unit of time.
Tick ==
  /\ cmd' = [c \in Commands |->
       IF cmd[c].place \in {"queued", "held"}
       THEN [cmd[c] EXCEPT !.life = IF @ < 0 THEN @ ELSE @ - 1,
                           !.wait = IF @ = 0 THEN @ ELSE @ - 1]
       ELSE cmd[c]]
  /\ since' = IF circuit = "closed" THEN since ELSE AtMost(since + 1, Reset)
  /\ silent' = AtMost(silent + 1, Reset)
  /\ UNCHANGED <<worker, circuit, failures>>

-----------------------------------------------------------------------------
_run_once ==
  \/ Idle
  \/ \E c \in Commands : DropExpired(c) \/ Defer(c) \/ CircuitRefuses(c) \/ Attempt(c)

_attempt ==
  \E c \in Commands :
    \/ Succeeds(c)
    \/ \E jitter \in 0..BackoffBase : Fails(c, jitter)

Next ==
  \/ \E c \in Commands, p \in Priorities : enqueue(c, p)
  \/ _run_once
  \/ _attempt
  \/ Wakes
  \/ Tick

Spec == Init /\ [][Next]_vars

\* The worker's task runs when it is ready, its sleeps end, the POST is bounded
\* by the client's five seconds, and time passes.  Requests are not fair, and
\* no fairness says that a POST ever succeeds.
Fairness ==
  /\ WF_vars(_run_once) /\ WF_vars(Wakes)
  /\ WF_vars(_attempt) /\ WF_vars(Tick)

FairSpec == Spec /\ Fairness

-----------------------------------------------------------------------------
Places == {"new", "queued", "held", "dispatched", "expired", "rejected", "lost"}

\* Type invariant; the queue never exceeds its maxsize.
TypeOK ==
  /\ cmd \in [Commands -> [place : Places, prio : Int, life : Int, wait : Nat,
                           delay : Nat]]
  /\ worker \in {"loop", "sleep", "http"}
  /\ circuit \in {"closed", "open", "half_open"}
  /\ failures \in 0..Threshold /\ since \in 0..Reset /\ silent \in 0..Reset
  /\ Cardinality(_queue) <= MaxSize

\* The breaker is half-open only while the POST that probes is under way: a
\* granted probe is never swallowed by an expired, deferred or reinserted
\* command, so no later command waits for an outcome that cannot come.
ProbeInFlight == circuit = "half_open" => worker = "http"

stage == [new |-> "new", queued |-> "waiting", held |-> "posting", dispatched |-> "delivered",
          expired |-> "dropped", rejected |-> "dropped", lost |-> "dropped"]

\* A command as OrderedOutbox shows it.
Shown(k) == [at   |-> IF k.place = "queued" /\ k.life < 0 THEN "late" ELSE stage[k.place],
             prio |-> IF k.place \in {"queued", "held"} THEN k.prio ELSE 0]

Outbox == INSTANCE OrderedOutbox WITH box <- [c \in Commands |-> Shown(cmd[c])]

\* Retries and back-off never let a newer update overtake an older one of its
\* priority, which would then overwrite it on the panel: no post is begun while an
\* older command of the priority is pending, late or during another post, and none
\* is begun again after it was settled (OrderedOutbox).
PostsInOrder == Outbox!Spec

\* After Threshold failures in a row the transport adapter is left alone for
\* the reset timeout before each further attempt.
OutagePaced ==
  [][\A c \in Commands :
       At(c, "queued") /\ At(c, "held")' /\ failures = Threshold => silent = Reset]_vars

\* Every command in the queue leaves it for good, even if the transport adapter
\* never answers again: an outage cannot wedge the queue full of stale commands.
Settles ==
  \A c \in Commands :
    At(c, "queued") ~> cmd[c].place \in {"dispatched", "expired", "lost"}

\* Live commands are never evicted, only those past their time to live.
LiveNeverEvicted == \A c \in Commands : At(c, "lost") => Expired(c)
=============================================================================
