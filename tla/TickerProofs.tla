---------------------------- MODULE TickerProofs ----------------------------
(***************************************************************************)
(* No event waits in the ticker for more than MaxDepth drains, whatever    *)
(* the depth, the dedup window and the drain interval, so that one with a  *)
(* ttl that long does not expire there and none meets its repetition.      *)
(***************************************************************************)
EXTENDS Ticker, SequenceTheorems, TLAPS

\* How long an event at place i has waited, with the drains still to come before
\* its own, is within MaxDepth drains.
Waits == \A i \in 1 .. Len(queue) :
           queue[i].age + i * DrainMax <= MaxDepth * DrainMax + slept

\* An event's content stays in the cache for Window.
Recorded == \A i \in 1 .. Len(queue) :
              dedup[queue[i].content] + queue[i].age >= Window

-----------------------------------------------------------------------------
(* Arithmetic *)

\* More places mean more drains.
LEMMA Places ==
  ASSUME NEW D \in Nat
  PROVE  /\ \A i, j \in Nat : i <= j => i * D <= j * D
         /\ \A i \in Nat : (i + 1) * D = i * D + D
         /\ \A i \in Nat : i * D \in Nat
<1>1. \A i \in Nat : i * D \in Nat
  OBVIOUS
<1>2. \A i \in Nat : (i + 1) * D = i * D + D
  OBVIOUS
<1>3. ASSUME NEW i \in Nat, NEW j \in Nat, i <= j
      PROVE  i * D <= j * D
  <2>1. PICK k \in Nat : j = i + k
    BY <1>3
  <2>2. j * D = i * D + k * D
    BY <2>1
  <2>3. k * D \in Nat /\ i * D \in Nat
    OBVIOUS
  <2> QED
    BY <2>2, <2>3
<1> QED
  BY <1>1, <1>2, <1>3

-----------------------------------------------------------------------------
(* What the operations do to the queue *)

\* enqueue appends, and a full queue loses its first event.
LEMMA Enqueued ==
  ASSUME NEW q \in Seq(Events), NEW e \in Events, Len(q) <= MaxDepth,
         NEW r, r = IF Len(q) = MaxDepth THEN Append(Tail(q), e) ELSE Append(q, e)
  PROVE  /\ r \in Seq(Events) /\ Len(r) <= MaxDepth /\ Len(r) > 0
         /\ r[Len(r)] = e
         /\ \E d \in {0, 1} : \A i \in 1 .. Len(r) - 1 :
              i + d \in 1 .. Len(q) /\ r[i] = q[i + d]
<1> USE TickerAssumption
<1>0. Len(q) \in Nat
  OBVIOUS
<1>1. CASE Len(q) = MaxDepth
  <2> DEFINE u == Tail(q)
  <2>0. q # <<>>
    BY <1>1
  <2>1. u \in Seq(Events)
    BY <2>0, HeadTailProperties
  <2>2. Len(u) = Len(q) - 1
    BY <2>0, HeadTailProperties
  <2>3. \A i \in 1 .. Len(q) - 1 : u[i] = q[i + 1]
    BY <2>0
  <2> HIDE DEF u
  <2>4. r = Append(u, e)
    BY <1>1 DEF u
  <2>5. r \in Seq(Events) /\ Len(r) = Len(q) /\ r[Len(r)] = e
    BY <2>1, <2>2, <2>4
  <2>6. \A i \in 1 .. Len(r) - 1 : r[i] = u[i]
    BY <2>1, <2>2, <2>4, <2>5
  <2>7. \A i \in 1 .. Len(r) - 1 : i + 1 \in 1 .. Len(q) /\ r[i] = q[i + 1]
    BY <2>3, <2>5, <2>6, <1>0
  <2>8. Len(r) > 0
    BY <2>5, <1>1
  <2> QED
    BY <1>1, <2>5, <2>7, <2>8
<1>2. CASE Len(q) # MaxDepth
  <2>1. r = Append(q, e)
    BY <1>2
  <2>2. r \in Seq(Events) /\ Len(r) = Len(q) + 1 /\ r[Len(r)] = e
    BY <2>1
  <2>3. \A i \in 1 .. Len(r) - 1 : r[i] = q[i]
    BY <2>1, <2>2
  <2>4. \A i \in 1 .. Len(r) - 1 : i + 0 \in 1 .. Len(q) /\ r[i] = q[i + 0]
    BY <2>2, <2>3, <1>0
  <2>5. Len(r) <= MaxDepth /\ Len(r) > 0
    BY <1>0, <1>2, <2>2
  <2> QED
    BY <2>2, <2>4, <2>5
<1> QED
  BY <1>1, <1>2

\* A drain takes at least the first event and leaves the rest in order.
LEMMA Dequeued ==
  ASSUME NEW q \in Seq(Events), NEW n \in 0 .. Len(q), Len(q) <= MaxDepth,
         NEW r, r = SubSeq(q, n + 2, Len(q))
  PROVE  /\ r \in Seq(Events) /\ Len(r) <= MaxDepth
         /\ \A i \in 1 .. Len(r) : i + n + 1 \in 1 .. Len(q) /\ r[i] = q[i + n + 1]
<1> USE TickerAssumption
<1>0. Len(q) \in Nat
  OBVIOUS
<1>1. CASE n + 2 > Len(q)
  <2>1. r = <<>>
    BY <1>0, <1>1, SubSeqEmpty
  <2> QED
    BY <2>1
<1>2. CASE n + 2 <= Len(q)
  <2>1. r \in Seq(Events) /\ Len(r) = Len(q) - n - 1
    BY <1>0, <1>2, SubSeqProperties
  <2>2. \A i \in 1 .. Len(r) : r[i] = q[i + n + 1]
    <3>1. n + 2 \in 1 .. Len(q) + 1 /\ Len(q) \in 0 .. Len(q) /\ n + 2 \in Int
      BY <1>0, <1>2
    <3>2. \A i \in 1 .. Len(q) - (n + 2) + 1 : r[i] = q[n + 2 + i - 1]
      BY <1>2, <3>1, SubSeqProperties
    <3> QED
      BY <1>0, <2>1, <3>2
  <2> QED
    BY <1>0, <1>2, <2>1, <2>2
<1> QED
  BY <1>0, <1>1, <1>2

\* A tick adds to the ages and moves nothing.
LEMMA Aged ==
  ASSUME NEW q \in Seq(Events),
         NEW r, r = [i \in DOMAIN q |-> [q[i] EXCEPT !.age = @ + 1]]
  PROVE  /\ r \in Seq(Events) /\ Len(r) = Len(q)
         /\ \A i \in 1 .. Len(q) : /\ r[i].content = q[i].content
                                   /\ r[i].ttl = q[i].ttl
                                   /\ r[i].age = q[i].age + 1
<1>1. Len(q) \in Nat /\ DOMAIN q = 1 .. Len(q)
  OBVIOUS
<1>2. \A i \in 1 .. Len(q) : q[i] \in Events
  OBVIOUS
<1>3. ASSUME NEW i \in 1 .. Len(q)
      PROVE  /\ r[i] \in Events
             /\ r[i].content = q[i].content
             /\ r[i].ttl = q[i].ttl
             /\ r[i].age = q[i].age + 1
  <2>1. r[i] = [q[i] EXCEPT !.age = @ + 1]
    BY <1>1
  <2>2. q[i] \in [content : Contents, ttl : Ttls, age : Nat]
    BY <1>2 DEF Events
  <2>3. q[i].age + 1 \in Nat
    BY <2>2
  <2>4. r[i] \in [content : Contents, ttl : Ttls, age : Nat]
    BY <2>1, <2>2, <2>3
  <2>5. r[i].content = q[i].content
    BY <2>1, <2>2
  <2>6. r[i].ttl = q[i].ttl
    BY <2>1, <2>2
  <2>7. r[i].age = q[i].age + 1
    BY <2>1, <2>2
  <2> QED
    BY <2>4, <2>5, <2>6, <2>7 DEF Events
<1>4. r \in [1 .. Len(q) -> Events]
  BY <1>1, <1>3
<1>5. r \in Seq(Events) /\ Len(r) = Len(q)
  BY <1>1, <1>4
<1> QED
  BY <1>3, <1>5

\* What one action makes of the queue, for each of the actions.
LEMMA Routed ==
  ASSUME TypeOK, NEW c \in Contents, NEW ttl \in Ttls, RouteEvent(c, ttl)
  PROVE  /\ queue' \in Seq(Events) /\ Len(queue') <= MaxDepth /\ Len(queue') > 0
         /\ queue'[Len(queue')] = [content |-> c, ttl |-> ttl, age |-> 0]
         /\ \E d \in {0, 1} : \A i \in 1 .. Len(queue') - 1 :
              i + d \in 1 .. Len(queue) /\ queue'[i] = queue[i + d]
<1>1. [content |-> c, ttl |-> ttl, age |-> 0] \in Events
  BY TickerAssumption DEF Events
<1>2. queue \in Seq(Events) /\ Len(queue) <= MaxDepth
  BY DEF TypeOK
<1>3. queue' = IF Len(queue) = MaxDepth
               THEN Append(Tail(queue), [content |-> c, ttl |-> ttl, age |-> 0])
               ELSE Append(queue, [content |-> c, ttl |-> ttl, age |-> 0])
  BY DEF RouteEvent, enqueue
<1> QED
  BY <1>1, <1>2, <1>3, Enqueued

\* A drain takes events from the front and keeps the others in place.
LEMMA Drained ==
  ASSUME TypeOK, Drain
  PROVE  /\ queue' \in Seq(Events) /\ Len(queue') <= MaxDepth
         /\ \E d \in Nat : \A i \in 1 .. Len(queue') :
              i + d + 1 \in 1 .. Len(queue) /\ queue'[i] = queue[i + d + 1]
<1>1. queue \in Seq(Events) /\ Len(queue) <= MaxDepth
  BY DEF TypeOK
<1>2. PICK n \in 0 .. Len(queue) : queue' = SubSeq(queue, n + 2, Len(queue))
  BY DEF Drain
<1>3. n \in Nat
  BY <1>1, <1>2
<1>4. /\ queue' \in Seq(Events) /\ Len(queue') <= MaxDepth
      /\ \A i \in 1 .. Len(queue') :
           i + n + 1 \in 1 .. Len(queue) /\ queue'[i] = queue[i + n + 1]
  BY <1>1, <1>2, Dequeued
<1> QED
  BY <1>3, <1>4

\* Every step keeps the types.
LEMMA StepTyped == TypeOK /\ [Next]_vars => TypeOK'
<1> SUFFICES ASSUME TypeOK, [Next]_vars
             PROVE  TypeOK'
  OBVIOUS
<1> USE TickerAssumption
<1>1. ASSUME NEW c \in Contents, NEW ttl \in Ttls, RouteEvent(c, ttl)
      PROVE  TypeOK'
  <2>1. queue' \in Seq(Events) /\ Len(queue') <= MaxDepth
    BY <1>1, Routed
  <2>2. dedup' \in [Contents -> 0 .. Window]
    BY <1>1 DEF TypeOK, RouteEvent, record
  <2> QED
    BY <1>1, <2>1, <2>2 DEF TypeOK, RouteEvent
<1>2. CASE Drain
  <2>1. queue' \in Seq(Events) /\ Len(queue') <= MaxDepth
    BY <1>2, Drained
  <2> QED
    BY <1>2, <2>1 DEF TypeOK, Drain
<1>3. CASE Tick
  <2>1. queue' \in Seq(Events) /\ Len(queue') = Len(queue)
    BY <1>3, Aged DEF TypeOK, Tick
  <2>2. dedup' \in [Contents -> 0 .. Window]
    BY <1>3 DEF TypeOK, Tick
  <2>3. slept' \in 0 .. DrainMax
    BY <1>3 DEF TypeOK, Tick
  <2> QED
    BY <2>1, <2>2, <2>3 DEF TypeOK
<1>4. CASE Restart
  BY <1>4 DEF TypeOK, Restart
<1>5. CASE UNCHANGED vars
  BY <1>5 DEF TypeOK, vars
<1> QED
  BY <1>1, <1>2, <1>3, <1>4, <1>5 DEF Next

-----------------------------------------------------------------------------
(* The invariant *)

\* An event's members.
LEMMA Members ==
  ASSUME TypeOK, NEW i \in 1 .. Len(queue)
  PROVE  /\ queue[i].age \in Nat /\ queue[i].ttl \in Nat
         /\ queue[i].content \in Contents
         /\ dedup[queue[i].content] \in Nat
         /\ i \in Nat /\ i * DrainMax \in Nat
<1>1. queue[i] \in Events
  BY DEF TypeOK
<1>2. queue[i].content \in Contents
  BY <1>1 DEF Events
<1>3. dedup[queue[i].content] \in 0 .. Window
  BY <1>2 DEF TypeOK
<1>4. i \in Nat
  OBVIOUS
<1>5. queue[i].age \in Nat
  BY <1>1 DEF Events
<1>6. queue[i].ttl \in Nat
  BY <1>1, TickerAssumption DEF Events
<1>7. dedup[queue[i].content] \in Nat
  BY <1>3, TickerAssumption
<1>8. i * DrainMax \in Nat
  BY <1>4, TickerAssumption, Places
<1> QED
  BY <1>2, <1>4, <1>5, <1>6, <1>7, <1>8

\* Nothing waits for more than MaxDepth drains.
LEMMA AgeBounded ==
  ASSUME TypeOK, Waits, NEW i \in 1 .. Len(queue)
  PROVE  queue[i].age <= MaxDepth * DrainMax
<1>1. queue[i].age + i * DrainMax <= MaxDepth * DrainMax + slept
  BY DEF Waits
<1>2. slept <= DrainMax /\ slept \in Nat
  BY TickerAssumption DEF TypeOK
<1>3. 1 * DrainMax <= i * DrainMax
  BY TickerAssumption, Places
<1>4. MaxDepth * DrainMax \in Nat
  BY TickerAssumption, Places
<1>5. queue[i].age \in Nat /\ i * DrainMax \in Nat
  BY Members
<1>6. 1 * DrainMax = DrainMax
  BY TickerAssumption
<1> QED
  BY <1>1, <1>2, <1>3, <1>4, <1>5, <1>6, TickerAssumption

\* An event comes nearer to its drain than it ages.
LEMMA StepWaits == TypeOK /\ Waits /\ [Next]_vars => Waits'
<1> SUFFICES ASSUME TypeOK, Waits, [Next]_vars
             PROVE  Waits'
  OBVIOUS
<1> USE TickerAssumption
<1>a. slept \in Nat /\ slept <= DrainMax
  BY DEF TypeOK
<1>b. MaxDepth * DrainMax \in Nat
  BY Places
<1>1. ASSUME NEW c \in Contents, NEW ttl \in Ttls, RouteEvent(c, ttl)
      PROVE  Waits'
  <2> SUFFICES ASSUME NEW i \in 1 .. Len(queue')
               PROVE  queue'[i].age + i * DrainMax <= MaxDepth * DrainMax + slept
    BY <1>1 DEF Waits, RouteEvent
  <2>0. /\ queue' \in Seq(Events) /\ Len(queue') <= MaxDepth
        /\ queue'[Len(queue')] = [content |-> c, ttl |-> ttl, age |-> 0]
    BY <1>1, Routed
  <2>1. i \in Nat /\ Len(queue') \in Nat /\ i <= MaxDepth
    BY <2>0
  <2>2. CASE i = Len(queue')
    <3>1. queue'[i].age = 0
      BY <2>0, <2>2
    <3>2. i * DrainMax <= MaxDepth * DrainMax /\ i * DrainMax \in Nat
      BY <2>1, Places
    <3> QED
      BY <1>a, <1>b, <3>1, <3>2
  <2>3. CASE i # Len(queue')
    <3>1. i \in 1 .. Len(queue') - 1
      BY <2>1, <2>3
    <3>2. PICK d \in {0, 1} : i + d \in 1 .. Len(queue) /\ queue'[i] = queue[i + d]
      BY <1>1, <3>1, Routed
    <3>3. queue[i + d].age + (i + d) * DrainMax <= MaxDepth * DrainMax + slept
      BY <3>2 DEF Waits
    <3>4. i * DrainMax <= (i + d) * DrainMax
      <4>1. i + d \in Nat /\ i <= i + d
        BY <2>1, <3>2
      <4> QED
        BY <2>1, <4>1, Places
    <3>5. queue[i + d].age \in Nat /\ (i + d) * DrainMax \in Nat /\ i * DrainMax \in Nat
      BY <2>1, <3>2, Members, Places
    <3>6. queue'[i].age = queue[i + d].age
      BY <3>2
    <3> QED
      BY <1>a, <1>b, <3>3, <3>4, <3>5, <3>6
  <2> QED
    BY <2>2, <2>3
<1>2. CASE Drain
  <2> SUFFICES ASSUME NEW i \in 1 .. Len(queue')
               PROVE  queue'[i].age + i * DrainMax <= MaxDepth * DrainMax + 0
    BY <1>2 DEF Waits, Drain
  <2>1. PICK d \in Nat : i + d + 1 \in 1 .. Len(queue) /\ queue'[i] = queue[i + d + 1]
    BY <1>2, Drained
  <2>2. i \in Nat
    BY <1>2, Drained
  <2>3. queue[i + d + 1].age + (i + d + 1) * DrainMax <= MaxDepth * DrainMax + slept
    BY <2>1 DEF Waits
  <2>4. (i + 1) * DrainMax <= (i + d + 1) * DrainMax
    <3>1. i + 1 \in Nat /\ i + d + 1 \in Nat /\ i + 1 <= i + d + 1
      BY <2>1, <2>2
    <3> QED
      BY <3>1, Places
  <2>5. (i + 1) * DrainMax = i * DrainMax + DrainMax /\ i * DrainMax \in Nat
    BY <2>2, Places
  <2>6. queue[i + d + 1].age \in Nat /\ (i + d + 1) * DrainMax \in Nat
    BY <2>1, Members
  <2>7. queue'[i].age = queue[i + d + 1].age
    BY <2>1
  <2> DEFINE age == queue[i + d + 1].age
             max == MaxDepth * DrainMax
             here == i * DrainMax
             next == (i + 1) * DrainMax
             was == (i + d + 1) * DrainMax
  <2>8. /\ age \in Nat /\ max \in Nat /\ here \in Nat /\ was \in Nat
        /\ age + was <= max + slept /\ next <= was /\ next = here + DrainMax
    BY <1>b, <2>3, <2>4, <2>5, <2>6
  <2>9. queue'[i].age = age
    BY <2>7
  <2> HIDE DEF age, max, here, next, was
  <2>10. age + here <= max
    BY <1>a, <2>8
  <2>11. age + here <= max + 0
    BY <2>8, <2>10
  <2> QED
    BY <2>9, <2>11 DEF here, max
<1>3. CASE Tick
  <2> SUFFICES ASSUME NEW i \in 1 .. Len(queue')
               PROVE  queue'[i].age + i * DrainMax <= MaxDepth * DrainMax + (slept + 1)
    BY <1>3 DEF Waits, Tick
  <2>1. i \in 1 .. Len(queue) /\ queue'[i].age = queue[i].age + 1
    BY <1>3, Aged DEF TypeOK, Tick
  <2>2. queue[i].age + i * DrainMax <= MaxDepth * DrainMax + slept
    BY <2>1 DEF Waits
  <2>3. queue[i].age \in Nat /\ i * DrainMax \in Nat
    BY <2>1, Members
  <2> QED
    BY <1>a, <1>b, <2>1, <2>2, <2>3
<1>4. CASE Restart
  BY <1>4 DEF Waits, Restart
<1>5. CASE UNCHANGED vars
  BY <1>5 DEF Waits, vars
<1> QED
  BY <1>1, <1>2, <1>3, <1>4, <1>5 DEF Next

\* An event and its dedup entry age together.
LEMMA StepRecorded == TypeOK /\ Recorded /\ [Next]_vars => Recorded'
<1> SUFFICES ASSUME TypeOK, Recorded, [Next]_vars
             PROVE  Recorded'
  OBVIOUS
<1> USE TickerAssumption
<1>1. ASSUME NEW c \in Contents, NEW ttl \in Ttls, RouteEvent(c, ttl)
      PROVE  Recorded'
  <2> SUFFICES ASSUME NEW i \in 1 .. Len(queue')
               PROVE  dedup'[queue'[i].content] + queue'[i].age >= Window
    BY DEF Recorded
  <2>0. /\ queue' \in Seq(Events)
        /\ queue'[Len(queue')] = [content |-> c, ttl |-> ttl, age |-> 0]
    BY <1>1, Routed
  <2>1. dedup \in [Contents -> 0 .. Window] /\ dedup' = [dedup EXCEPT ![c] = Window]
    BY <1>1 DEF TypeOK, RouteEvent, record
  <2>2. CASE i = Len(queue')
    <3>1. queue'[i].content = c /\ queue'[i].age = 0
      BY <2>0, <2>2
    <3>2. dedup'[c] = Window
      BY <2>1
    <3> QED
      BY <3>1, <3>2
  <2>3. CASE i # Len(queue')
    <3>1. i \in 1 .. Len(queue') - 1
      BY <2>0, <2>3
    <3>2. PICK d \in {0, 1} : i + d \in 1 .. Len(queue) /\ queue'[i] = queue[i + d]
      BY <1>1, <3>1, Routed
    <3>3. dedup[queue[i + d].content] + queue[i + d].age >= Window
      BY <3>2 DEF Recorded
    <3>4. /\ queue[i + d].age \in Nat
          /\ queue[i + d].content \in Contents
          /\ dedup[queue[i + d].content] \in Nat
      BY <3>2, Members
    <3>5. \/ dedup'[queue[i + d].content] = dedup[queue[i + d].content]
          \/ dedup'[queue[i + d].content] = Window
      BY <2>1, <3>4
    <3> QED
      BY <3>2, <3>3, <3>4, <3>5
  <2> QED
    BY <2>2, <2>3
<1>2. CASE Drain
  <2> SUFFICES ASSUME NEW i \in 1 .. Len(queue')
               PROVE  dedup[queue'[i].content] + queue'[i].age >= Window
    BY <1>2 DEF Recorded, Drain
  <2>1. PICK d \in Nat : i + d + 1 \in 1 .. Len(queue) /\ queue'[i] = queue[i + d + 1]
    BY <1>2, Drained
  <2> QED
    BY <2>1 DEF Recorded
<1>3. CASE Tick
  <2> SUFFICES ASSUME NEW i \in 1 .. Len(queue')
               PROVE  dedup'[queue'[i].content] + queue'[i].age >= Window
    BY DEF Recorded
  <2>1. /\ i \in 1 .. Len(queue)
        /\ queue'[i].age = queue[i].age + 1
        /\ queue'[i].content = queue[i].content
    BY <1>3, Aged DEF TypeOK, Tick
  <2>2. dedup[queue[i].content] + queue[i].age >= Window
    BY <2>1 DEF Recorded
  <2>3. /\ queue[i].age \in Nat /\ queue[i].content \in Contents
        /\ dedup[queue[i].content] \in Nat
    BY <2>1, Members
  <2>4. dedup'[queue[i].content] = IF dedup[queue[i].content] > 0
                                   THEN dedup[queue[i].content] - 1 ELSE 0
    BY <1>3, <2>3 DEF Tick
  <2> QED
    BY <2>1, <2>2, <2>3, <2>4
<1>4. CASE Restart
  BY <1>4 DEF Recorded, Restart
<1>5. CASE UNCHANGED vars
  BY <1>5 DEF Recorded, vars
<1> QED
  BY <1>1, <1>2, <1>3, <1>4, <1>5 DEF Next

\* A repetition is a duplicate for as long as the event waits.
LEMMA StepNoTwins == TypeOK /\ Waits /\ Recorded /\ NoTwins /\ [Next]_vars => NoTwins'
<1> SUFFICES ASSUME TypeOK, Waits, Recorded, NoTwins, [Next]_vars,
                    Window > MaxDepth * DrainMax,
                    NEW i \in 1 .. Len(queue'), NEW j \in 1 .. Len(queue'),
                    queue'[i].content = queue'[j].content
             PROVE  i = j
  BY DEF NoTwins
<1> USE TickerAssumption
<1>a. \A k, l \in 1 .. Len(queue) : queue[k].content = queue[l].content => k = l
  BY DEF NoTwins
<1>1. ASSUME NEW c \in Contents, NEW ttl \in Ttls, RouteEvent(c, ttl)
      PROVE  i = j
  <2>0. /\ queue' \in Seq(Events)
        /\ queue'[Len(queue')] = [content |-> c, ttl |-> ttl, age |-> 0]
    BY <1>1, Routed
  <2>1. PICK d \in {0, 1} : \A k \in 1 .. Len(queue') - 1 :
                              k + d \in 1 .. Len(queue) /\ queue'[k] = queue[k + d]
    BY <1>1, Routed
  <2>2. ASSUME NEW k \in 1 .. Len(queue') - 1
        PROVE  queue'[k].content # c
    <3>1. k + d \in 1 .. Len(queue) /\ queue'[k] = queue[k + d]
      BY <2>1
    <3>2. queue[k + d].age <= MaxDepth * DrainMax /\ queue[k + d].age \in Nat
      BY <3>1, AgeBounded, Members
    <3>3. dedup[queue[k + d].content] + queue[k + d].age >= Window
      BY <3>1 DEF Recorded
    <3>4. MaxDepth * DrainMax \in Nat
      BY Places
    <3>5. dedup[queue[k + d].content] \in Nat
      BY <3>1, Members
    <3>6. dedup[queue[k + d].content] # 0
      BY <3>2, <3>3, <3>4, <3>5
    <3>7. dedup[c] = 0
      BY <1>1 DEF RouteEvent
    <3> QED
      BY <3>1, <3>6, <3>7
  <2>3. queue'[Len(queue')].content = c /\ Len(queue') \in Nat
    BY <2>0
  <2>4. CASE i = Len(queue') \/ j = Len(queue')
    BY <2>2, <2>3, <2>4
  <2>5. CASE i # Len(queue') /\ j # Len(queue')
    <3>1. i \in 1 .. Len(queue') - 1 /\ j \in 1 .. Len(queue') - 1
      BY <2>3, <2>5
    <3>2. i + d = j + d
      BY <1>a, <2>1, <3>1
    <3> QED
      BY <2>1, <3>1, <3>2
  <2> QED
    BY <2>4, <2>5
<1>2. CASE Drain
  <2>1. PICK d \in Nat : \A k \in 1 .. Len(queue') :
                           k + d + 1 \in 1 .. Len(queue) /\ queue'[k] = queue[k + d + 1]
    BY <1>2, Drained
  <2>2. i + d + 1 = j + d + 1
    BY <1>a, <2>1
  <2>3. i \in Nat /\ j \in Nat
    BY <1>2, Drained
  <2> QED
    BY <2>1, <2>2, <2>3
<1>3. CASE Tick
  <2>1. /\ Len(queue') = Len(queue)
        /\ \A k \in 1 .. Len(queue) : queue'[k].content = queue[k].content
    BY <1>3, Aged DEF TypeOK, Tick
  <2> QED
    BY <1>a, <2>1
<1>4. CASE Restart
  BY <1>4 DEF Restart
<1>5. CASE UNCHANGED vars
  BY <1>a, <1>5 DEF vars
<1> QED
  BY <1>1, <1>2, <1>3, <1>4, <1>5 DEF Next

\* Ages bounded by the drains leave no event whose ttl covers them expired.
LEMMA LastingKept == TypeOK /\ Waits => NeverExpires
<1> SUFFICES ASSUME TypeOK, Waits, NEW i \in 1 .. Len(queue),
                    queue[i].ttl >= MaxDepth * DrainMax
             PROVE  ~(queue[i].age > queue[i].ttl)
  BY DEF NeverExpires, expired
<1>1. queue[i].age <= MaxDepth * DrainMax
  BY AgeBounded
<1>2. queue[i].age \in Nat /\ queue[i].ttl \in Nat
  BY Members
<1>3. MaxDepth * DrainMax \in Nat
  BY TickerAssumption, Places
<1> QED
  BY <1>1, <1>2, <1>3

\* The empty queue of a new process.
LEMMA InitInvariant == Init => TypeOK /\ Waits /\ Recorded /\ NoTwins
<1> SUFFICES ASSUME Init
             PROVE  TypeOK /\ Waits /\ Recorded /\ NoTwins
  OBVIOUS
<1>1. queue = <<>> /\ slept = 0 /\ dedup = [c \in Contents |-> 0]
  BY DEF Init
<1>2. TypeOK
  BY <1>1, TickerAssumption DEF TypeOK
<1>3. Waits /\ Recorded /\ NoTwins
  BY <1>1 DEF Waits, Recorded, NoTwins
<1> QED
  BY <1>2, <1>3

-----------------------------------------------------------------------------
(* Properties *)

\* The ticker's state has its types; the queue never holds more than MaxDepth events.
THEOREM TickerTypeCorrect == Spec => []TypeOK
  BY InitInvariant, StepTyped, PTL DEF Spec

\* An event whose ttl covers MaxDepth drains does not expire in the queue, and with a
\* longer dedup window none is queued together with its repetition.
THEOREM TickerDrainsInTime == Spec => []DrainsInTime
<1>1. TypeOK /\ Waits /\ Recorded /\ NoTwins /\ [Next]_vars
        => (TypeOK /\ Waits /\ Recorded /\ NoTwins)'
  BY StepTyped, StepWaits, StepRecorded, StepNoTwins
<1>2. TypeOK /\ Waits /\ Recorded /\ NoTwins => DrainsInTime
  BY LastingKept DEF DrainsInTime
<1> QED
  BY <1>1, <1>2, InitInvariant, PTL DEF Spec
=============================================================================
