--------------------------- MODULE OrderedOutbox ---------------------------
(***************************************************************************)
(* What the aggregator's routing may rely on when it hands its commands to *)
(* the dispatch worker, and what the panel sees of it.  One command is     *)
(* posted at a time, never one past its time to live, and never one while  *)
(* an older command of its priority is pending: so once a newer update was *)
(* posted, whether or not it arrived, no older one follows.  A post may be *)
(* repeated, since a failed one may have arrived.  What was delivered or   *)
(* dropped stays so; a command that waits is dropped only when it is late. *)
(***************************************************************************)
EXTENDS Integers

CONSTANTS Commands, Priorities   \* commands are numbers, in the order of acceptance

VARIABLE box   \* per command: where it is, and its priority while it is pending

Left(how) == [at |-> how, prio |-> 0]

Pending(c) == box[c].at \in {"waiting", "late", "posting"}

Init == box = [c \in Commands |-> Left("new")]

\* A command is taken or refused, and late ones are dropped to make room.
Accept(c, p) ==
  /\ box[c].at = "new" /\ \A d \in Commands : d < c => box[d].at # "new"
  /\ \E entry \in {[at |-> "waiting", prio |-> p], Left("dropped")},
        purged \in SUBSET {d \in Commands : box[d].at = "late"} :
       box' = [d \in Commands |-> IF d = c THEN entry
                                  ELSE IF d \in purged THEN Left("dropped") ELSE box[d]]

Post(c) ==
  /\ box[c].at = "waiting"
  /\ \A d \in Commands : box[d].at # "posting"
  /\ \A d \in Commands : d < c /\ Pending(d) => box[d].prio # box[c].prio
  /\ box' = [box EXCEPT ![c] = [@ EXCEPT !.at = "posting"]]

Delivered(c) ==
  /\ box[c].at = "posting"
  /\ box' = [box EXCEPT ![c] = Left("delivered")]

\* The post failed: it is tried again, or there is no room for it any more.
Failed(c) ==
  /\ box[c].at = "posting"
  /\ \E entry \in {[box[c] EXCEPT !.at = "waiting"], [box[c] EXCEPT !.at = "late"],
                   Left("dropped")} :
       box' = [box EXCEPT ![c] = entry]

Drop(c) ==
  /\ box[c].at = "late"
  /\ box' = [box EXCEPT ![c] = Left("dropped")]

\* Time passes.
Expire ==
  \E late \in SUBSET {c \in Commands : box[c].at = "waiting"} :
    box' = [c \in Commands |-> IF c \in late THEN [box[c] EXCEPT !.at = "late"] ELSE box[c]]

Next ==
  \/ \E c \in Commands :
       \/ \E p \in Priorities : Accept(c, p)
       \/ Post(c) \/ Delivered(c) \/ Failed(c) \/ Drop(c)
  \/ Expire

Spec == Init /\ [][Next]_box
=============================================================================
