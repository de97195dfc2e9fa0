--------------------------- MODULE DispatchProofs ---------------------------
(***************************************************************************)
(* Theorems about DispatchWorker, for every queue size, number of          *)
(* commands, set of priorities, time to live, back-off and breaker timing. *)
(***************************************************************************)
EXTENDS DispatchWorker, FiniteSetTheorems, TLAPS

CommandState == [place : Places, prio : Int, life : Int, wait : Nat, delay : Nat]

Typed ==
  /\ cmd \in [Commands -> CommandState]
  /\ worker \in {"loop", "sleep", "http"}
  /\ circuit \in {"closed", "open", "half_open"}
  /\ failures \in 0..Threshold /\ since \in 0..Reset /\ silent \in 0..Reset

\* Every subset of the queue is finite, and no larger than the queue.
LEMMA QueueFinite ==
  /\ IsFiniteSet(_queue)
  /\ \A S \in SUBSET _queue : IsFiniteSet(S) /\ Cardinality(S) <= Cardinality(_queue)
  /\ Cardinality(_queue) \in Nat
<1>1. IsFiniteSet(Commands)
  BY FS_Interval, DispatchAssumption DEF Commands, DispatchAssumption
<1>2. _queue \subseteq Commands
  BY DEF _queue
<1>3. IsFiniteSet(_queue)
  BY <1>1, <1>2, FS_Subset
<1>4. QED
  BY <1>3, FS_Subset, FS_CardinalityType

\* The outcome of a POST leaves the breaker well typed.
LEMMA BreakerType ==
  ASSUME Typed, grant \/ record_success \/ record_failure
  PROVE  /\ circuit' \in {"closed", "open", "half_open"}
         /\ failures' \in 0..Threshold /\ since' \in 0..Reset
<1> USE DispatchAssumption DEF DispatchAssumption, Typed
<1>1. CASE grant
  BY <1>1 DEF grant, breaker
<1>2. CASE record_success
  BY <1>2 DEF record_success
<1>3. CASE record_failure
  <2>1. failures' \in 0..Threshold
    BY <1>3 DEF record_failure, AtMost
  <2>2. \/ circuit' = "open" /\ since' = 0
        \/ circuit' = circuit /\ since' = since
    BY <1>3 DEF record_failure
  <2>3. QED
    BY <2>1, <2>2
<1>4. QED
  BY <1>1, <1>2, <1>3

\* A command that leaves the worker, or is put back, keeps its type.
LEMMA GoneType ==
  ASSUME NEW how \in Places
  PROVE  Gone(how) \in CommandState
BY DEF Gone, New, CommandState, Places

\* Every time to live is an integer.
LEMMA TtlType ==
  ASSUME NEW p \in Int
  PROVE  _ttl_for_priority(p) \in Int
BY DispatchAssumption DEF DispatchAssumption, _ttl_for_priority

\* Every step keeps the variables within their types.
LEMMA StepTyped ==
  ASSUME Typed, [Next]_vars
  PROVE  Typed'
<1> USE DispatchAssumption DEF DispatchAssumption
<1>1. ASSUME NEW c \in Commands, NEW p \in Priorities, enqueue(c, p) PROVE Typed'
  <2> DEFINE fresh == [place |-> "queued", prio |-> p, life |-> _ttl_for_priority(p),
                       wait |-> 0, delay |-> BackoffBase]
             room  == Cardinality(_queue \ _purge_expired) < MaxSize
  <2>1. fresh \in CommandState
    BY TtlType DEF CommandState, Places
  <2>2. cmd' = [d \in Commands |->
                  IF d = c THEN IF room THEN fresh ELSE Gone("rejected")
                  ELSE IF d \in _purge_expired THEN Gone("expired") ELSE cmd[d]]
    BY <1>1 DEF enqueue
  <2> HIDE DEF fresh, room
  <2>3. cmd' \in [Commands -> CommandState]
    BY <2>1, <2>2, GoneType DEF Typed, Places
  <2>4. QED
    BY <1>1, <2>3 DEF enqueue, breaker, Typed
<1>2. CASE _run_once
  <2>1. CASE Idle
    BY <2>1 DEF Idle, Sleeps, breaker, Typed
  <2>2. ASSUME NEW c \in Commands, DropExpired(c) PROVE Typed'
    BY <2>2, GoneType DEF DropExpired, breaker, Typed, Places
  <2>3. ASSUME NEW c \in Commands, Defer(c) \/ CircuitRefuses(c) PROVE Typed'
    BY <2>3 DEF Defer, CircuitRefuses, Sleeps, breaker, Typed
  <2>4. ASSUME NEW c \in Commands, Attempt(c) PROVE Typed'
    <3>1. [cmd[c] EXCEPT !.place = "held"] \in CommandState
      BY DEF CommandState, Places, Typed
    <3>2. cmd' \in [Commands -> CommandState]
      BY <2>4, <3>1 DEF Attempt, Typed
    <3>3. QED
      BY <2>4, <3>2, BreakerType DEF Attempt, Typed
  <2>5. QED
    BY <1>2, <2>1, <2>2, <2>3, <2>4 DEF _run_once
<1>3. CASE _attempt
  <2>1. ASSUME NEW c \in Commands, Succeeds(c) PROVE Typed'
    BY <2>1, GoneType, BreakerType DEF Succeeds, Typed, Places
  <2>2. ASSUME NEW c \in Commands, NEW jitter \in 0..BackoffBase, Fails(c, jitter)
        PROVE  Typed'
    <3> DEFINE delay == AtMost(2 * cmd[c].delay, BackoffMax)
               back  == [cmd[c] EXCEPT !.place = reinserted,
                                       !.delay = delay,
                                       !.wait = AtMost(delay + jitter, BackoffMax)]
    <3>1. delay \in Nat /\ AtMost(delay + jitter, BackoffMax) \in Nat
      BY DEF AtMost, Typed, CommandState
    <3>2. reinserted \in Places
      BY DEF reinserted, Places
    <3>3. cmd' = [cmd EXCEPT ![c] = back]
      BY <2>2 DEF Fails
    <3>4. back \in CommandState
      <4> HIDE DEF delay
      <4>1. QED
        BY <3>1, <3>2 DEF CommandState, Typed
    <3> HIDE DEF back
    <3>5. cmd' \in [Commands -> CommandState]
      BY <3>3, <3>4 DEF Typed
    <3>6. QED
      BY <2>2, <3>5, BreakerType DEF Fails, Typed
  <2>3. QED
    BY <1>3, <2>1, <2>2 DEF _attempt
<1>4. CASE Wakes
  BY <1>4 DEF Wakes, breaker, Typed
<1>5. CASE Tick
  <2>1. cmd' \in [Commands -> CommandState]
    <3>1. \A c \in Commands : cmd'[c] \in CommandState
      <4> SUFFICES ASSUME NEW c \in Commands PROVE cmd'[c] \in CommandState
        OBVIOUS
      <4> DEFINE life == IF cmd[c].life < 0 THEN cmd[c].life ELSE cmd[c].life - 1
                 wait == IF cmd[c].wait = 0 THEN cmd[c].wait ELSE cmd[c].wait - 1
                 older == [cmd[c] EXCEPT !.life = life, !.wait = wait]
      <4>1. cmd[c] \in CommandState
        BY DEF Typed
      <4>2. life \in Int /\ wait \in Nat
        BY <4>1 DEF CommandState
      <4>3. cmd'[c] \in {older, cmd[c]}
        BY <1>5 DEF Tick
      <4> HIDE DEF life, wait
      <4>4. older \in CommandState
        BY <4>1, <4>2 DEF CommandState
      <4>5. QED
        BY <4>1, <4>3, <4>4
    <3>2. QED
      BY <1>5, <3>1 DEF Tick
  <2>2. since' \in 0..Reset /\ silent' \in 0..Reset
    <3>1. AtMost(since + 1, Reset) \in 0..Reset /\ AtMost(silent + 1, Reset) \in 0..Reset
      BY DEF AtMost, Typed
    <3>2. since \in 0..Reset
      BY DEF Typed
    <3>3. since' \in {since, AtMost(since + 1, Reset)} /\ silent' = AtMost(silent + 1, Reset)
      BY <1>5 DEF Tick
    <3>4. QED
      BY <3>1, <3>2, <3>3
  <2>3. QED
    BY <1>5, <2>1, <2>2 DEF Tick, Typed
<1>6. CASE UNCHANGED vars
  BY <1>6 DEF vars, breaker, Typed
<1>7. QED
  BY <1>1, <1>2, <1>3, <1>4, <1>5, <1>6 DEF Next

\* The queue never exceeds its maxsize.
LEMMA StepBounded ==
  ASSUME Typed, Cardinality(_queue) <= MaxSize, [Next]_vars
  PROVE  Cardinality(_queue)' <= MaxSize
<1> USE DispatchAssumption DEF DispatchAssumption
<1>1. ASSUME _queue' \subseteq _queue PROVE Cardinality(_queue)' <= MaxSize
  <2>1. Cardinality(_queue') \in Nat /\ Cardinality(_queue') <= Cardinality(_queue)
    BY <1>1, QueueFinite, FS_CardinalityType
  <2>2. QED
    BY <2>1, QueueFinite
<1>2. ASSUME NEW S \in SUBSET _queue, NEW c \in Commands, Cardinality(S) < MaxSize,
             _queue' \subseteq S \cup {c}
      PROVE  Cardinality(_queue)' <= MaxSize
  <2>1. IsFiniteSet(S) /\ Cardinality(S) \in Nat
    BY QueueFinite, FS_CardinalityType
  <2>2. IsFiniteSet(S \cup {c}) /\ Cardinality(S \cup {c}) <= Cardinality(S) + 1
    BY <2>1, FS_AddElement
  <2>3. Cardinality(_queue') <= Cardinality(S \cup {c})
    BY <1>2, <2>2, FS_Subset
  <2>4. Cardinality(_queue') \in Nat /\ Cardinality(S \cup {c}) \in Nat
    BY <1>2, <2>2, FS_Subset, FS_CardinalityType
  <2>5. QED
    BY <1>2, <2>1, <2>2, <2>3, <2>4
<1>3. ASSUME NEW c \in Commands, NEW p \in Priorities, enqueue(c, p)
      PROVE  Cardinality(_queue)' <= MaxSize
  <2> DEFINE kept == _queue \ _purge_expired
  <2>1. \A d \in Commands \ {c} : At(d, "queued")' => d \in kept
    BY <1>3 DEF enqueue, At, _queue, Gone, New
  <2>2. CASE Cardinality(kept) < MaxSize
    <3>1. _queue' \subseteq kept \cup {c}
      BY <2>1 DEF _queue
    <3>2. QED
      BY <1>2, <2>2, <3>1
  <2>3. CASE ~(Cardinality(kept) < MaxSize)
    <3>1. ~At(c, "queued")'
      BY <1>3, <2>3 DEF enqueue, At, Gone, New
    <3>2. _queue' \subseteq _queue
      BY <2>1, <3>1 DEF _queue
    <3>3. QED
      BY <1>1, <3>2
  <2>4. QED
    BY <2>2, <2>3
<1>4. CASE _run_once
  <2>1. \A c \in Commands : At(c, "queued")' => At(c, "queued")
    <3>1. CASE \E c \in Commands : DropExpired(c)
      BY <3>1 DEF DropExpired, At, Gone, New, Typed
    <3>2. CASE \E c \in Commands : Attempt(c)
      BY <3>2 DEF Attempt, At, Typed, CommandState
    <3>3. CASE cmd' = cmd
      BY <3>3 DEF At
    <3>4. QED
      BY <1>4, <3>1, <3>2, <3>3 DEF _run_once, Idle, Defer, CircuitRefuses, Sleeps
  <2>2. QED
    BY <1>1, <2>1 DEF _queue
<1>5. CASE _attempt
  <2>1. ASSUME NEW c \in Commands, Succeeds(c) PROVE Cardinality(_queue)' <= MaxSize
    <3>1. \A d \in Commands : At(d, "queued")' => At(d, "queued")
      BY <2>1 DEF Succeeds, At, Gone, New, Typed
    <3>2. QED
      BY <1>1, <3>1 DEF _queue
  <2>2. ASSUME NEW c \in Commands, NEW jitter \in 0..BackoffBase, Fails(c, jitter)
        PROVE  Cardinality(_queue)' <= MaxSize
    <3>1. \A d \in Commands \ {c} : At(d, "queued")' => At(d, "queued")
      BY <2>2 DEF Fails, At, Typed
    <3>2. CASE Cardinality(_queue) < MaxSize
      <4>1. _queue' \subseteq _queue \cup {c}
        BY <3>1 DEF _queue
      <4>2. QED
        BY <1>2, <3>2, <4>1
    <3>3. CASE ~(Cardinality(_queue) < MaxSize)
      <4>1. ~At(c, "queued")'
        BY <2>2, <3>3 DEF Fails, At, reinserted, Typed, CommandState
      <4>2. QED
        BY <1>1, <3>1, <4>1 DEF _queue
    <3>4. QED
      BY <3>2, <3>3
  <2>3. QED
    BY <1>5, <2>1, <2>2 DEF _attempt
<1>6. CASE Wakes \/ Tick \/ UNCHANGED vars
  <2>1. \A c \in Commands : At(c, "queued")' => At(c, "queued")
    BY <1>6 DEF Wakes, Tick, vars, At, Typed, CommandState
  <2>2. QED
    BY <1>1, <2>1 DEF _queue
<1>7. QED
  BY <1>3, <1>4, <1>5, <1>6 DEF Next

\* Every behaviour keeps the types, and the queue within its maxsize.
THEOREM DispatchTypeCorrect == Spec => []TypeOK
<1> USE DispatchAssumption DEF DispatchAssumption
<1>1. Init => Typed /\ Cardinality(_queue) <= MaxSize
  <2> SUFFICES ASSUME Init PROVE Typed /\ Cardinality(_queue) <= MaxSize
    OBVIOUS
  <2>1. Typed
    BY DEF Init, Typed, New, CommandState, Places
  <2>2. _queue = {}
    BY DEF Init, _queue, At, New
  <2>3. QED
    BY <2>1, <2>2, FS_EmptySet
<1>2. Typed /\ Cardinality(_queue) <= MaxSize /\ [Next]_vars
        => (Typed /\ Cardinality(_queue) <= MaxSize)'
  BY StepTyped, StepBounded
<1>3. Typed /\ Cardinality(_queue) <= MaxSize => TypeOK
  BY DEF Typed, CommandState, TypeOK
<1>4. QED
  BY <1>1, <1>2, <1>3, PTL DEF Spec

-----------------------------------------------------------------------------
(***************************************************************************)
(* One command at a time, in order.  While the worker awaits a POST, the   *)
(* command it holds precedes everything of its priority that is queued or  *)
(* may still be.  The breaker is half-open or closed then, and while it is *)
(* open the last failure is at least as old as its opening.                *)
(***************************************************************************)
HeldInv ==
  \A c \in Commands : At(c, "held") =>
    /\ worker = "http"
    /\ \A d \in Commands : At(d, "held") => d = c
    /\ \A d \in Commands : At(d, "queued") /\ cmd[d].prio = cmd[c].prio => c < d

\* Sequence numbers not yet used follow those in use.
SeqInv == \A c, d \in Commands : At(c, "new") /\ c < d => At(d, "new")

BreakerInv ==
  /\ ProbeInFlight
  /\ worker = "http" => circuit # "open"
  /\ failures = Threshold => circuit # "closed"
  /\ circuit = "open" => since <= silent

OrderInv == HeldInv /\ SeqInv /\ BreakerInv

\* A new command follows the one that is held.
LEMMA EnqueueKeepsOrder ==
  ASSUME Typed, OrderInv, NEW c \in Commands, NEW p \in Priorities, enqueue(c, p)
  PROVE  OrderInv'
<1>1. /\ UNCHANGED <<worker, breaker, silent>>
      /\ At(c, "new") /\ \A d \in Commands : d < c => ~At(d, "new")
  BY DEF enqueue, NextSeq
<1>2. ~At(c, "new")' /\ ~At(c, "held")'
  BY DEF enqueue, At, Gone, New
<1>3. \A d \in Commands \ {c} :
        /\ At(d, "new")' <=> At(d, "new")
        /\ At(d, "held")' => At(d, "held")
        /\ At(d, "queued")' => At(d, "queued")
        /\ At(d, "held")' \/ At(d, "queued")' => cmd'[d].prio = cmd[d].prio
  BY DEF enqueue, At, Gone, New, _purge_expired, _queue
<1>4. HeldInv'
  <2>1. \A d \in Commands : At(d, "held") => d < c
    <3>1. \A d \in Commands : At(d, "held") => ~At(d, "new") /\ d # c
      BY <1>1 DEF At
    <3>2. QED
      BY <1>1, <3>1 DEF OrderInv, SeqInv, Commands
  <2>2. QED
    BY <1>1, <1>2, <1>3, <2>1 DEF OrderInv, HeldInv
<1>5. SeqInv'
  BY <1>1, <1>2, <1>3 DEF OrderInv, SeqInv, Commands
<1>6. BreakerInv'
  BY <1>1 DEF OrderInv, BreakerInv, ProbeInFlight, breaker
<1>7. QED
  BY <1>4, <1>5, <1>6 DEF OrderInv

\* A look at the first command: it is attempted when it is the first of all.
LEMMA RunOnceKeepsOrder ==
  ASSUME Typed, OrderInv, _run_once
  PROVE  OrderInv'
<1>1. worker = "loop" /\ \A c \in Commands : ~At(c, "held")
  BY DEF _run_once, Idle, DropExpired, Defer, CircuitRefuses, Attempt, OrderInv, HeldInv
<1>2. CASE UNCHANGED <<cmd, breaker, silent>> /\ worker' = "sleep"
  BY <1>1, <1>2 DEF OrderInv, HeldInv, SeqInv, BreakerInv, ProbeInFlight, At, breaker
<1>3. ASSUME NEW c \in Commands, DropExpired(c) PROVE OrderInv'
  <2>1. /\ UNCHANGED <<worker, breaker, silent>> /\ At(c, "queued")
        /\ \A d \in Commands : cmd'[d] = IF d = c THEN Gone("expired") ELSE cmd[d]
    BY <1>3 DEF DropExpired, First, _queue, Typed
  <2>2. \A d \in Commands : /\ At(d, "new")' <=> At(d, "new")
                            /\ ~At(d, "held")'
    BY <1>1, <2>1 DEF At, Gone, New
  <2>3. BreakerInv'
    BY <2>1 DEF OrderInv, BreakerInv, ProbeInFlight, breaker
  <2>4. QED
    BY <2>2, <2>3 DEF OrderInv, HeldInv, SeqInv
<1>4. ASSUME NEW c \in Commands, Attempt(c) PROVE OrderInv'
  <2>1. /\ At(c, "queued") /\ First(c) /\ worker' = "http" /\ silent' = silent /\ grant
        /\ \A d \in Commands : d # c => cmd'[d] = cmd[d]
        /\ cmd'[c].place = "held" /\ cmd'[c].prio = cmd[c].prio
    BY <1>4 DEF Attempt, First, _queue, Typed, CommandState
  <2>2. \A d \in Commands : /\ At(d, "new")' <=> At(d, "new")
                            /\ At(d, "held")' => d = c
                            /\ At(d, "queued")' => At(d, "queued") /\ d # c
    BY <1>1, <2>1 DEF At
  <2>3. HeldInv'
    <3>1. \A d \in Commands : At(d, "queued")' /\ cmd[d].prio = cmd[c].prio => c < d
      <4> SUFFICES ASSUME NEW d \in Commands, At(d, "queued")', cmd[d].prio = cmd[c].prio
                   PROVE  c < d
        OBVIOUS
      <4>1. Before(c, d)
        <5>1. At(d, "queued") /\ d # c
          BY <2>2
        <5>2. QED
          BY <2>1, <5>1 DEF First, _queue
      <4>2. cmd[d].prio \in Int
        BY DEF Typed, CommandState
      <4>3. ~(cmd[c].prio > cmd[d].prio)
        BY <4>2
      <4>4. QED
        BY <4>1, <4>3 DEF Before
    <3>2. QED
      BY <2>1, <2>2, <3>1 DEF HeldInv
  <2>4. SeqInv'
    BY <2>2 DEF OrderInv, SeqInv
  <2>5. BreakerInv'
    BY <1>1, <2>1 DEF OrderInv, BreakerInv, ProbeInFlight, grant, breaker
  <2>6. QED
    BY <2>3, <2>4, <2>5 DEF OrderInv
<1>5. QED
  BY <1>1, <1>2, <1>3, <1>4 DEF _run_once, Idle, Defer, CircuitRefuses, Sleeps

\* The outcome of the POST resolves the probe and empties the worker's hand.
LEMMA AttemptKeepsOrder ==
  ASSUME Typed, OrderInv, _attempt
  PROVE  OrderInv'
<1>1. PICK c \in Commands : \/ Succeeds(c)
                            \/ \E jitter \in 0..BackoffBase : Fails(c, jitter)
  BY DEF _attempt
<1>2. /\ At(c, "held") /\ worker = "http" /\ worker' = "loop"
      /\ \A d \in Commands : d # c => cmd'[d] = cmd[d]
  BY <1>1 DEF Succeeds, Fails, OrderInv, HeldInv, Typed
<1>3. cmd'[c].place \in {"dispatched", "queued", "lost"}
  <2>1. CASE Succeeds(c)
    BY <2>1 DEF Succeeds, Gone, New, Typed
  <2>2. CASE \E jitter \in 0..BackoffBase : Fails(c, jitter)
    BY <2>2 DEF Fails, reinserted, Typed, CommandState
  <2>3. QED
    BY <1>1, <2>1, <2>2
<1>4. HeldInv'
  <2>1. \A d \in Commands : At(d, "held") => d = c
    BY <1>2 DEF OrderInv, HeldInv
  <2>2. \A d \in Commands : ~At(d, "held")'
    BY <1>2, <1>3, <2>1 DEF At
  <2>3. QED
    BY <2>2 DEF HeldInv
<1>5. SeqInv'
  <2>1. \A d \in Commands : At(d, "new")' <=> At(d, "new")
    BY <1>2, <1>3 DEF At
  <2>2. QED
    BY <2>1 DEF OrderInv, SeqInv
<1>6. BreakerInv'
  <2>1. CASE Succeeds(c)
    BY <2>1, <1>2, DispatchAssumption DEF Succeeds, record_success, BreakerInv,
       ProbeInFlight, DispatchAssumption
  <2>2. CASE \E jitter \in 0..BackoffBase : Fails(c, jitter)
    <3>1. /\ silent' = 0 /\ failures' = AtMost(failures + 1, Threshold)
          /\ \/ circuit' = "open" /\ since' = 0
             \/ /\ circuit # "half_open" /\ failures + 1 < Threshold
                /\ UNCHANGED <<circuit, since>>
      BY <2>2, DispatchAssumption DEF Fails, record_failure, DispatchAssumption, Typed
    <3>2. circuit # "open"
      BY <1>2 DEF OrderInv, BreakerInv
    <3>3. failures + 1 < Threshold => failures' # Threshold
      BY <3>1, DispatchAssumption DEF AtMost, Typed, DispatchAssumption
    <3>4. QED
      BY <1>2, <3>1, <3>2, <3>3 DEF BreakerInv, ProbeInFlight
  <2>3. QED
    BY <1>1, <2>1, <2>2
<1>7. QED
  BY <1>4, <1>5, <1>6 DEF OrderInv

\* Time changes no place, and runs for the breaker as for the silence.
LEMMA TickKeepsOrder ==
  ASSUME Typed, OrderInv, Tick
  PROVE  OrderInv'
<1>1. \A c \in Commands : cmd'[c].place = cmd[c].place /\ cmd'[c].prio = cmd[c].prio
  BY DEF Tick, Typed, CommandState
<1>2. HeldInv' /\ SeqInv'
  <2>1. \A c \in Commands : \A place : At(c, place)' <=> At(c, place)
    BY <1>1 DEF At
  <2>2. worker' = worker
    BY DEF Tick
  <2>3. QED
    BY <1>1, <2>1, <2>2 DEF OrderInv, HeldInv, SeqInv
<1>3. circuit = "open" => since' <= silent'
  <2>1. since \in 0..Reset /\ silent \in 0..Reset /\ (circuit = "open" => since <= silent)
    BY DEF Typed, OrderInv, BreakerInv
  <2>2. circuit = "open" => since' = AtMost(since + 1, Reset)
    BY DEF Tick
  <2>3. silent' = AtMost(silent + 1, Reset)
    BY DEF Tick
  <2>4. QED
    BY <2>1, <2>2, <2>3, DispatchAssumption DEF AtMost, DispatchAssumption
<1>4. QED
  BY <1>2, <1>3 DEF Tick, OrderInv, BreakerInv, ProbeInFlight

\* The invariant of order and breaker holds in every reachable state.
THEOREM Order == Spec => [](Typed /\ OrderInv)
<1>1. Init => Typed /\ OrderInv
  <2> SUFFICES ASSUME Init PROVE Typed /\ OrderInv
    OBVIOUS
  <2>1. Typed
    BY DispatchAssumption DEF Init, Typed, New, CommandState, Places, DispatchAssumption
  <2>2. OrderInv
    BY DispatchAssumption DEF Init, New, At, OrderInv, HeldInv, SeqInv, BreakerInv,
       ProbeInFlight, DispatchAssumption
  <2>3. QED
    BY <2>1, <2>2
<1>2. Typed /\ OrderInv /\ [Next]_vars => (Typed /\ OrderInv)'
  <2> SUFFICES ASSUME Typed, OrderInv, [Next]_vars PROVE OrderInv'
    BY StepTyped
  <2>1. CASE Wakes \/ UNCHANGED vars
    BY <2>1 DEF Wakes, vars, breaker, OrderInv, HeldInv, SeqInv, BreakerInv,
       ProbeInFlight, At
  <2>2. QED
    BY <2>1, EnqueueKeepsOrder, RunOnceKeepsOrder, AttemptKeepsOrder, TickKeepsOrder
       DEF Next
<1>3. QED
  BY <1>1, <1>2, PTL DEF Spec

\* The half-open breaker has its probe under way.
THEOREM ProbeNeverStranded == Spec => []ProbeInFlight
<1>1. OrderInv => ProbeInFlight
  BY DEF OrderInv, BreakerInv
<1>2. QED
  BY <1>1, Order, PTL

-----------------------------------------------------------------------------
(* DispatchWorker implements OrderedOutbox *)

\* A command as the abstract outbox shows it.
box == [c \in Commands |-> Shown(cmd[c])]

\* What is shown of a command by its place.
LEMMA ShownPlaces ==
  /\ \A c \in Commands : box[c] = Shown(cmd[c])
  /\ \A k : k.place = "queued" /\ ~(k.life < 0) =>
       Shown(k) = [at |-> "waiting", prio |-> k.prio]
  /\ \A k : k.place = "queued" /\ k.life < 0 =>
       Shown(k) = [at |-> "late", prio |-> k.prio]
  /\ \A k : k.place = "held" => Shown(k) = [at |-> "posting", prio |-> k.prio]
  /\ \A k : k.place = "new" => Shown(k) = [at |-> "new", prio |-> 0]
  /\ \A k : k.place = "dispatched" => Shown(k) = [at |-> "delivered", prio |-> 0]
  /\ \A k : k.place \in {"expired", "rejected", "lost"} =>
       Shown(k) = [at |-> "dropped", prio |-> 0]
  BY DEF box, Shown, stage

\* Where a command shown somewhere is.
LEMMA PlacesShown ==
  ASSUME Typed, NEW c \in Commands
  PROVE  /\ box[c].at = "new" <=> At(c, "new")
         /\ box[c].at = "posting" <=> At(c, "held")
         /\ box[c].at = "waiting" <=> At(c, "queued") /\ ~Expired(c)
         /\ box[c].at = "late" <=> At(c, "queued") /\ Expired(c)
<1>1. cmd[c].place \in Places
  BY DEF Typed, CommandState
<1> QED
  BY <1>1, ShownPlaces DEF At, Expired, Places

\* A step that moves one command moves its entry.
LEMMA OneEntry ==
  ASSUME Typed, NEW c \in Commands, NEW k, cmd' = [cmd EXCEPT ![c] = k]
  PROVE  box' = [box EXCEPT ![c] = Shown(k)]
  BY DEF box, Typed

\* A command enters, or is refused, and what a full queue gives up is late.
LEMMA EnqueueAccepts ==
  ASSUME Typed, NEW c \in Commands, NEW p \in Priorities, enqueue(c, p)
  PROVE  Outbox!Accept(c, p)
<1> DEFINE fresh == [place |-> "queued", prio |-> p, life |-> _ttl_for_priority(p),
                     wait |-> 0, delay |-> BackoffBase]
           new   == IF Cardinality(_queue \ _purge_expired) < MaxSize
                    THEN fresh ELSE Gone("rejected")
<1>1. cmd' = [d \in Commands |-> IF d = c THEN new
                                 ELSE IF d \in _purge_expired THEN Gone("expired") ELSE cmd[d]]
  BY DEF enqueue
<1>2. Shown(new) \in {[at |-> "waiting", prio |-> p], [at |-> "dropped", prio |-> 0]}
  <2>1. ~(_ttl_for_priority(p) < 0)
    BY DispatchAssumption DEF DispatchAssumption, _ttl_for_priority
  <2>2. Shown(fresh) = [at |-> "waiting", prio |-> p]
    BY <2>1, ShownPlaces
  <2>3. Shown(Gone("rejected")) = [at |-> "dropped", prio |-> 0]
    BY ShownPlaces DEF Gone, New
  <2> QED
    BY <2>2, <2>3
<1>3. Shown(Gone("expired")) = [at |-> "dropped", prio |-> 0]
  BY ShownPlaces DEF Gone, New
<1>4. _purge_expired \in SUBSET {d \in Commands : box[d].at = "late"}
  BY PlacesShown DEF _purge_expired, _queue
<1> HIDE DEF new
<1>5. box' = [d \in Commands |-> IF d = c THEN Shown(new)
                                 ELSE IF d \in _purge_expired THEN [at |-> "dropped", prio |-> 0]
                                 ELSE box[d]]
  BY <1>1, <1>3 DEF box
<1>6. box[c].at = "new" /\ \A d \in Commands : d < c => box[d].at # "new"
  BY PlacesShown DEF enqueue, NextSeq
<1> QED
  BY <1>2, <1>4, <1>5, <1>6 DEF Outbox!Accept, Outbox!Left, box

\* A look at the first command posts it, drops it, or leaves the outbox as it is.
LEMMA RunOnceShown ==
  ASSUME Typed, OrderInv, _run_once
  PROVE  \/ \E c \in Commands : Outbox!Post(c) \/ Outbox!Drop(c)
         \/ box' = box
<1>1. CASE cmd' = cmd
  BY <1>1 DEF box
<1>2. ASSUME NEW c \in Commands, DropExpired(c) PROVE Outbox!Drop(c)
  <2>1. box[c].at = "late"
    BY <1>2, PlacesShown DEF DropExpired, First, _queue
  <2>2. box' = [box EXCEPT ![c] = Shown(Gone("expired"))]
    BY <1>2, OneEntry DEF DropExpired
  <2>3. Shown(Gone("expired")) = [at |-> "dropped", prio |-> 0]
    BY ShownPlaces DEF Gone, New
  <2> QED
    BY <2>1, <2>2, <2>3 DEF Outbox!Drop, Outbox!Left, box
<1>3. ASSUME NEW c \in Commands, Attempt(c) PROVE Outbox!Post(c)
  <2>1. First(c) /\ At(c, "queued") /\ ~Expired(c) /\ worker = "loop"
    BY <1>3 DEF Attempt, First, _queue
  <2>2. box[c] = [at |-> "waiting", prio |-> cmd[c].prio]
    BY <2>1, ShownPlaces DEF At, Expired
  <2>3. \A d \in Commands : ~At(d, "held")
    BY <2>1 DEF OrderInv, HeldInv
  <2>4. \A d \in Commands : box[d].at # "posting"
    BY <2>3, PlacesShown
  <2>5. ASSUME NEW d \in Commands, d < c, box[d].at \in {"waiting", "late", "posting"}
        PROVE  box[d].prio # box[c].prio
    <3>1. At(d, "queued")
      BY <2>3, <2>5, PlacesShown
    <3>2. Before(c, d)
      BY <2>1, <2>5, <3>1 DEF First, _queue, Commands
    <3>3. cmd[c].prio > cmd[d].prio
      BY <2>5, <3>2 DEF Before, Commands
    <3>4. box[d].prio = cmd[d].prio
      BY <3>1, ShownPlaces DEF At
    <3>5. cmd[c].prio \in Int /\ cmd[d].prio \in Int
      BY DEF Typed, CommandState
    <3> QED
      BY <2>2, <3>3, <3>4, <3>5
  <2>6. box' = [box EXCEPT ![c] = [box[c] EXCEPT !.at = "posting"]]
    <3>1. box' = [box EXCEPT ![c] = Shown([cmd[c] EXCEPT !.place = "held"])]
      BY <1>3, OneEntry DEF Attempt
    <3>2. [cmd[c] EXCEPT !.place = "held"].place = "held"
          /\ [cmd[c] EXCEPT !.place = "held"].prio = cmd[c].prio
      BY DEF Typed, CommandState
    <3>3. Shown([cmd[c] EXCEPT !.place = "held"]) = [at |-> "posting", prio |-> cmd[c].prio]
      <4>1. \A k : k.place = "held" => Shown(k) = [at |-> "posting", prio |-> k.prio]
        BY ShownPlaces
      <4> QED
        BY <3>2, <4>1
    <3>4. [box[c] EXCEPT !.at = "posting"] = [at |-> "posting", prio |-> cmd[c].prio]
      BY <2>2
    <3> QED
      BY <3>1, <3>3, <3>4
  <2> QED
    BY <2>2, <2>4, <2>5, <2>6 DEF Outbox!Post, Outbox!Pending, box
<1> QED
  BY <1>1, <1>2, <1>3 DEF _run_once, Idle, Defer, CircuitRefuses, Sleeps

\* The outcome of a POST delivers the command, or puts it back while there is room.
LEMMA AttemptShown ==
  ASSUME Typed, _attempt
  PROVE  \E c \in Commands : Outbox!Delivered(c) \/ Outbox!Failed(c)
<1>1. ASSUME NEW c \in Commands, Succeeds(c) PROVE Outbox!Delivered(c)
  <2>1. box[c].at = "posting"
    BY <1>1, PlacesShown DEF Succeeds
  <2>2. box' = [box EXCEPT ![c] = Shown(Gone("dispatched"))]
    BY <1>1, OneEntry DEF Succeeds
  <2>3. Shown(Gone("dispatched")) = [at |-> "delivered", prio |-> 0]
    BY ShownPlaces DEF Gone, New
  <2> QED
    BY <2>1, <2>2, <2>3 DEF Outbox!Delivered, Outbox!Left, box
<1>2. ASSUME NEW c \in Commands, NEW jitter \in 0..BackoffBase, Fails(c, jitter)
      PROVE  Outbox!Failed(c)
  <2> DEFINE delay == AtMost(2 * cmd[c].delay, BackoffMax)
             back  == [cmd[c] EXCEPT !.place = reinserted,
                                     !.delay = delay,
                                     !.wait = AtMost(delay + jitter, BackoffMax)]
  <2>1. box[c] = [at |-> "posting", prio |-> cmd[c].prio]
    BY <1>2, ShownPlaces DEF Fails, At
  <2>2. cmd' = [cmd EXCEPT ![c] = back]
    BY <1>2 DEF Fails
  <2>3. back.place = reinserted /\ back.prio = cmd[c].prio
    BY DEF Typed, CommandState
  <2> HIDE DEF back
  <2>4. box' = [box EXCEPT ![c] = Shown(back)]
    BY <2>2, OneEntry
  <2>5. Shown(back) \in {[at |-> "waiting", prio |-> cmd[c].prio],
                         [at |-> "late", prio |-> cmd[c].prio],
                         [at |-> "dropped", prio |-> 0]}
    BY <2>3, ShownPlaces DEF reinserted
  <2>6. Shown(back) \in {[box[c] EXCEPT !.at = "waiting"], [box[c] EXCEPT !.at = "late"],
                         [at |-> "dropped", prio |-> 0]}
    BY <2>1, <2>5
  <2>7. box[c].at = "posting"
    BY <2>1
  <2> DEFINE entry == Shown(back)
  <2> HIDE DEF entry
  <2>8. /\ entry \in {[box[c] EXCEPT !.at = "waiting"], [box[c] EXCEPT !.at = "late"],
                      [at |-> "dropped", prio |-> 0]}
        /\ box' = [box EXCEPT ![c] = entry]
    BY <2>4, <2>6 DEF entry
  <2> QED
    BY <2>7, <2>8 DEF Outbox!Failed, Outbox!Left, box
<1> QED
  BY <1>1, <1>2 DEF _attempt

\* Time only makes waiting commands late.
LEMMA TickExpires ==
  ASSUME Typed, Tick
  PROVE  Outbox!Expire
<1> DEFINE late == {c \in Commands : At(c, "queued") /\ ~Expired(c) /\ cmd'[c].life < 0}
<1>1. late \in SUBSET {c \in Commands : box[c].at = "waiting"}
  BY PlacesShown
<1>2. ASSUME NEW c \in Commands
      PROVE  Shown(cmd'[c]) = IF c \in late THEN [box[c] EXCEPT !.at = "late"] ELSE box[c]
  <2>1. cmd'[c].place = cmd[c].place /\ cmd'[c].prio = cmd[c].prio
    BY DEF Tick, Typed, CommandState
  <2>2. Expired(c) /\ At(c, "queued") => cmd'[c].life < 0
    BY DEF Tick, Typed, CommandState, Expired, At
  <2>3. CASE At(c, "queued")
    BY <2>1, <2>2, <2>3, ShownPlaces DEF At, Expired
  <2>4. CASE ~At(c, "queued")
    <3>1. c \notin late /\ box[c] = Shown(cmd[c])
      BY <2>4, ShownPlaces
    <3>2. Shown(cmd'[c]) = Shown(cmd[c])
      BY <2>1, <2>4 DEF Shown, At
    <3> QED
      BY <3>1, <3>2
  <2> QED
    BY <2>3, <2>4
<1> HIDE DEF late
<1>3. box' = [c \in Commands |-> IF c \in late THEN [box[c] EXCEPT !.at = "late"] ELSE box[c]]
  BY <1>2 DEF box
<1> QED
  BY <1>1, <1>3 DEF Outbox!Expire, box

\* The worker implements the ordered outbox: retries, back-off, expiry, the breaker and
\* a full queue never let a newer update overtake an older one of its priority.
THEOREM DispatchIsOrdered == Spec => PostsInOrder
<1>1. Init => Outbox!Init
  <2> SUFFICES ASSUME Init PROVE Outbox!Init
    OBVIOUS
  <2>1. \A c \in Commands : Shown(cmd[c]) = [at |-> "new", prio |-> 0]
    BY ShownPlaces DEF Init, New
  <2> QED
    BY <2>1 DEF Outbox!Init, Outbox!Left
<1>2. Typed /\ OrderInv /\ [Next]_vars => [Outbox!Next]_[c \in Commands |-> Shown(cmd[c])]
  <2> SUFFICES ASSUME Typed, OrderInv, [Next]_vars
               PROVE  Outbox!Next \/ box' = box
    BY DEF box
  <2> USE DEF Outbox!Next
  <2>1. ASSUME NEW c \in Commands, NEW p \in Priorities, enqueue(c, p) PROVE Outbox!Next
    BY <2>1, EnqueueAccepts
  <2>2. CASE _run_once
    BY <2>2, RunOnceShown
  <2>3. CASE _attempt
    BY <2>3, AttemptShown
  <2>4. CASE Tick
    BY <2>4, TickExpires
  <2>5. CASE Wakes \/ UNCHANGED vars
    BY <2>5 DEF Wakes, vars, box
  <2> QED
    BY <2>1, <2>2, <2>3, <2>4, <2>5 DEF Next
<1>3. QED
  BY <1>1, <1>2, Order, PTL DEF Spec, PostsInOrder, Outbox!Spec

\* The same as a property of the worker's steps: an update is delivered after every
\* older one of its priority has been settled.
OlderFirst ==
  [][\A c, d \in Commands :
       At(c, "held") /\ At(c, "dispatched")' /\ At(d, "queued") /\ d < c
         => cmd[d].prio # cmd[c].prio]_vars

\* An update is delivered after every older update of its priority is settled.
THEOREM DeliveredInOrder == Spec => OlderFirst
<1> DEFINE Older == \A c, d \in Commands :
                      At(c, "held") /\ At(c, "dispatched")' /\ At(d, "queued") /\ d < c
                        => cmd[d].prio # cmd[c].prio
<1>1. OrderInv => Older
  BY DEF OrderInv, HeldInv, Commands
<1>2. Spec => [][Older]_vars
  BY <1>1, Order, PTL
<1>3. QED
  BY <1>2 DEF OlderFirst

\* After Threshold failures in a row, an attempt waits for the reset timeout.
THEOREM FailuresPaceAttempts == Spec => OutagePaced
<1> DEFINE Paced == \A c \in Commands :
                      At(c, "queued") /\ At(c, "held")' /\ failures = Threshold
                        => silent = Reset
<1>1. Typed /\ OrderInv /\ [Next]_vars => Paced
  <2> SUFFICES ASSUME Typed, OrderInv, [Next]_vars, NEW c \in Commands,
                      At(c, "queued"), At(c, "held")', failures = Threshold
               PROVE  silent = Reset
    OBVIOUS
  <2>1. Attempt(c)
    <3>1. cmd'[c] # cmd[c]
      BY DEF At
    <3>2. ~Idle /\ ~Wakes /\ ~UNCHANGED vars
      BY <3>1 DEF Idle, Sleeps, Wakes, vars
    <3>3. ~Tick
      BY DEF Tick, At, Typed, CommandState
    <3>4. \A d \in Commands, p \in Priorities : ~enqueue(d, p)
      BY DEF enqueue, At, Gone, New
    <3>5. ~_attempt
      <4>1. \A d \in Commands : ~Succeeds(d)
        BY DEF Succeeds, At, Gone, New, Typed
      <4>2. \A d \in Commands : \A jitter \in 0..BackoffBase : ~Fails(d, jitter)
        BY DEF Fails, At, Typed, CommandState, reinserted
      <4>3. QED
        BY <4>1, <4>2 DEF _attempt
    <3>6. PICK d \in Commands : DropExpired(d) \/ Attempt(d)
      BY <3>1, <3>2, <3>3, <3>4, <3>5 DEF Next, _run_once, Defer, CircuitRefuses, Sleeps
    <3>7. ~DropExpired(d)
      BY DEF DropExpired, At, Gone, New, Typed
    <3>8. d = c
      BY <3>1, <3>6, <3>7 DEF Attempt, Typed
    <3>9. QED
      BY <3>6, <3>7, <3>8
  <2>2. worker = "loop" /\ Allows
    BY <2>1 DEF Attempt
  <2>3. circuit = "open" /\ since >= Reset
    BY <2>2 DEF Allows, OrderInv, BreakerInv, ProbeInFlight, Typed
  <2>4. QED
    BY <2>3, DispatchAssumption DEF OrderInv, BreakerInv, Typed, DispatchAssumption
<1>2. Spec => [][Paced]_vars
  BY <1>1, Order, PTL DEF Spec
<1>3. QED
  BY <1>2 DEF OutagePaced

=============================================================================
