------------------------------- MODULE Ticker -------------------------------
(* The ticker of the aggregator: route_event drops a repetition and queues    *)
(* the rest (router.py, dedup.py, queue.py), and ticker_drain_loop hands the  *)
(* oldest event that has not expired to the dispatch worker and sleeps again  *)
(* (drain.py).  All of it runs on one event loop and no body awaits while it  *)
(* holds the queue's lock, so each of them is one action.                     *)
(*                                                                            *)
(* Wall-clock stamps are modelled by their distance to now: the age of an     *)
(* event, what is left of a dedup entry, the time since the drain loop woke.  *)
EXTENDS Integers, Sequences

CONSTANTS
  Contents,   \* what dedup_hash tells apart: the source and the payload
  Ttls,       \* values of ttl_seconds
  MaxDepth,   \* TICKER_QUEUE_MAX_DEPTH
  Window,     \* TICKER_DEDUP_WINDOW_SECONDS
  DrainMin,   \* TICKER_DRAIN_INTERVAL_SECONDS
  DrainMax    \* bound: the loop wakes at the latest this long after it slept

ASSUME TickerAssumption == /\ Ttls \subseteq Nat
                           /\ MaxDepth \in Nat \ {0}
                           /\ Window \in Nat \ {0}
                           /\ DrainMin \in Nat \ {0}
                           /\ DrainMax \in Nat
                           /\ DrainMin <= DrainMax

VARIABLES
  queue,   \* the deque, oldest first
  dedup,   \* content -> how much longer it is a duplicate; 0: not in the cache
  slept    \* time since the drain loop last woke

vars == <<queue, dedup, slept>>

Events == [content : Contents, ttl : Ttls, age : Nat]
expired(event) == event.age > event.ttl

Init == /\ queue = <<>>
        /\ dedup = [c \in Contents |-> 0]
        /\ slept = 0

-----------------------------------------------------------------------------
(* Mutant: an event counts as recent for one interval of the drain loop only. *)
record_ShortWindow(c) == dedup' = [dedup EXCEPT ![c] = DrainMin]

record(c) == dedup' = [dedup EXCEPT ![c] = Window]

(* Mutant: the deque has no maxlen. *)
enqueue_Unbounded(event) == queue' = Append(queue, event)

(* A deque with a maxlen: a full one loses its oldest event.                  *)
enqueue(event) == queue' = IF Len(queue) = MaxDepth THEN Append(Tail(queue), event)
                           ELSE Append(queue, event)

(* route_event of a ticker event; a duplicate changes nothing.                *)
RouteEvent(c, ttl) == /\ dedup[c] = 0
                      /\ record(c)
                      /\ enqueue([content |-> c, ttl |-> ttl, age |-> 0])
                      /\ UNCHANGED slept

(* Mutant: the newest event is handed on first. *)
Drain_Newest == /\ slept >= DrainMin
                /\ queue' = IF queue = <<>> THEN <<>> ELSE SubSeq(queue, 1, Len(queue) - 1)
                /\ slept' = 0
                /\ UNCHANGED dedup

(* dequeue_non_expired: the n expired events at the head go, then the next one *)
(* is handed on.                                                              *)
Drain == /\ slept >= DrainMin
         /\ \E n \in 0 .. Len(queue) :
              /\ \A i \in 1 .. n : expired(queue[i])
              /\ n < Len(queue) => ~expired(queue[n + 1])
              /\ queue' = SubSeq(queue, n + 2, Len(queue))
         /\ slept' = 0
         /\ UNCHANGED dedup

(* Time.                                                                      *)
Tick == /\ slept < DrainMax
        /\ slept' = slept + 1
        /\ queue' = [i \in DOMAIN queue |-> [queue[i] EXCEPT !.age = @ + 1]]
        /\ dedup' = [c \in Contents |-> IF dedup[c] > 0 THEN dedup[c] - 1 ELSE 0]

(* The pod is replaced: queue and cache were only in memory.                  *)
Restart == /\ queue' = <<>>
           /\ dedup' = [c \in Contents |-> 0]
           /\ slept' = 0

Next == \/ \E c \in Contents, ttl \in Ttls : RouteEvent(c, ttl)
        \/ Drain
        \/ Tick
        \/ Restart

Spec == Init /\ [][Next]_vars

-----------------------------------------------------------------------------
(* Types. *)
TypeOK == /\ queue \in Seq(Events)
          /\ Len(queue) <= MaxDepth
          /\ dedup \in [Contents -> 0 .. Window]
          /\ slept \in 0 .. DrainMax

(* A ttl that covers a full queue's worth of drains is never outlived in the  *)
(* queue.                                                                     *)
NeverExpires == \A i \in 1 .. Len(queue) :
                  queue[i].ttl >= MaxDepth * DrainMax => ~expired(queue[i])

(* A dedup window longer than that keeps an event and its repetition from     *)
(* being in the queue together.                                               *)
NoTwins == Window > MaxDepth * DrainMax
             => \A i, j \in 1 .. Len(queue) :
                  queue[i].content = queue[j].content => i = j

(* With the deployed values (20 events, one drain a second, a ttl of 60 s and *)
(* a window of 30 s) the queue loses an event by overflow only, and the panel *)
(* is never handed an event whose repetition already waits behind it.         *)
DrainsInTime == NeverExpires /\ NoTwins
=============================================================================
