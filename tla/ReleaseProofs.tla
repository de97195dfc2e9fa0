--------------------------- MODULE ReleaseProofs ---------------------------
(***************************************************************************)
(* For any number of services, commits and faults: outside of a rollout    *)
(* every service names the release verified last, unless a change was cut  *)
(* off, and so does deployed.json unless a run ended before it was written *)
(* (OneRelease); and what GitHub is told implements the abstract   *)
(* DeploymentRecord (Truthful), so that a success is reported only while   *)
(* every service names that release.                                       *)
(***************************************************************************)
EXTENDS ReleaseAgent, TLAPS

Changing == {"rollout", "rollback", "verified"}
Trying == Changing \cup {"prepare", "deploy", "failing", "failed"}

\* A run works on a commit that main has reached and that deployed.json does not
\* name yet; so a cluster left half-changed is never the one of main's head.
Ahead == /\ marker.sha <= sha
         /\ sha <= head
         /\ pc \in Trying => marker.sha < sha
         /\ unsettled \/ unrecorded => marker.sha < head

\* changed names services during a rollout only.
NothingOpen == pc \notin Changing => changed = 0

\* The services rolled out so far name the new release.
RolledOut == /\ pc \in {"rollout", "verified"}
                  => \A s \in SERVICES : s <= changed => image[s] = sha
             /\ pc = "verified" => changed = NumServices /\ verified = sha /\ ~unsettled

\* What was read as the baseline is the release verified last, and the services
\* that are not in changed still name it.
Restorable == pc \in {"rollout", "rollback"} /\ ~unsettled
                => \A s \in SERVICES : /\ previous[s] = verified
                                       /\ s > changed => image[s] = verified

\* A success is reported for the release of deployed.json.
Reporting == pc \in {"report", "reported"} => marker.sha = sha /\ ~unsettled /\ ~unrecorded

IInv == /\ Ahead
        /\ NothingOpen
        /\ RolledOut
        /\ Restorable
        /\ Reporting
        /\ Whole
        /\ Recorded

-----------------------------------------------------------------------------
(* Types *)

\* What a call under way may have done keeps the types.
LEMMA EffectsTyped ==
  ASSUME TypeOK
  PROVE  /\ InFlight \subseteq [SERVICES -> Releases]
         /\ Posted \subseteq [Releases -> {NoStatus, "in_progress", "failure", "success"}]
         /\ Written \subseteq Releases \cup {None, Torn}
<1>1. /\ image \in [SERVICES -> Releases]
      /\ previous \in [SERVICES -> Releases]
      /\ sha \in Releases
  BY DEF TypeOK
<1>2. \A i : [image EXCEPT ![i] = sha] \in [SERVICES -> Releases]
  BY <1>1
<1>3. \A i \in SERVICES : [image EXCEPT ![i] = previous[i]] \in [SERVICES -> Releases]
  BY <1>1
<1>4. changed > 0 => changed \in SERVICES
  BY ReleaseAssumption DEF TypeOK, SERVICES
<1>5. InFlight \subseteq [SERVICES -> Releases]
  BY <1>1, <1>2, <1>3, <1>4 DEF InFlight
<1>6. \A p \in DOMAIN status : status[p] \in {"in_progress", "failure", "success"}
  BY DEF status
<1>7. Posted \subseteq [Releases -> {NoStatus, "in_progress", "failure", "success"}]
  BY <1>6 DEF Posted, TypeOK
<1>8. Written \subseteq Releases \cup {None, Torn}
  BY DEF Written, TypeOK
<1> QED
  BY <1>5, <1>7, <1>8

\* Every step keeps the types.
LEMMA StepTyped == TypeOK /\ [Next]_vars => TypeOK'
<1> SUFFICES ASSUME TypeOK, [Next]_vars
             PROVE  TypeOK'
  OBVIOUS
<1> USE ReleaseAssumption DEF history
<1>1. CASE Push
  BY <1>1 DEF TypeOK, Push, Releases
<1>2. CASE \E r \in Releases : CIPasses(r)
  BY <1>2 DEF TypeOK, CIPasses
<1>3. CASE Start
  BY <1>3 DEF TypeOK, Start, outside, Phases
<1>4. CASE Agent
  <2>1. CASE Prepare
    BY <2>1 DEF TypeOK, Prepare, outside, Phases
  <2>2. CASE ReadBaseline
    BY <2>2 DEF TypeOK, ReadBaseline, outside, Phases
  <2>3. CASE RollOut
    <3>1. image' \in [SERVICES -> Releases]
      BY <2>3 DEF TypeOK, RollOut
    <3>2. changed' \in 0 .. NumServices
      BY <2>3 DEF TypeOK, RollOut, append_changed
    <3>3. pc' \in Phases
      BY <2>3 DEF TypeOK, RollOut, Phases
    <3> QED
      BY <2>3, <3>1, <3>2, <3>3 DEF TypeOK, RollOut, outside
  <2>4. CASE Verify
    <3>1. verified' \in Releases /\ unsettled' \in BOOLEAN /\ pc' \in Phases
      BY <2>4 DEF TypeOK, Verify, Phases
    <3> QED
      BY <2>4, <3>1 DEF TypeOK, Verify, outside
  <2>5. CASE RollBack
    <3>1. image' \in [SERVICES -> Releases]
      <4>1. changed \in SERVICES
        BY <2>5 DEF TypeOK, RollBack, SERVICES
      <4> QED
        BY <2>5, <4>1 DEF TypeOK, RollBack
    <3>2. changed' \in 0 .. NumServices
      BY <2>5 DEF TypeOK, RollBack
    <3>3. unsettled' \in BOOLEAN
      BY <2>5 DEF TypeOK, RollBack
    <3> QED
      BY <2>5, <3>1, <3>2, <3>3 DEF TypeOK, RollBack, outside
  <2>6. CASE RolledBack
    BY <2>6 DEF TypeOK, RolledBack, outside, Phases
  <2>7. CASE Hold
    BY <2>7 DEF TypeOK, Hold, outside, Phases
  <2>8. CASE ReportFailure
    BY <2>8 DEF TypeOK, ReportFailure, outside, Phases
  <2>9. CASE Deployed
    <3>1. marker' \in [sha : Releases, status_reported : BOOLEAN]
      BY <2>9 DEF TypeOK, Deployed
    <3>2. changed' \in 0 .. NumServices /\ pc' \in Phases
      BY <2>9 DEF Deployed, Phases
    <3>3. unrecorded' \in BOOLEAN
      BY <2>9 DEF Deployed
    <3> QED
      BY <2>9, <3>1, <3>2, <3>3 DEF TypeOK, Deployed, outside
  <2>10. CASE ReportSuccess
    BY <2>10 DEF TypeOK, ReportSuccess, outside, Phases
  <2>11. CASE Reported
    BY <2>11 DEF TypeOK, Reported, outside, Phases
  <2> QED
    BY <1>4, <2>1, <2>2, <2>3, <2>4, <2>5, <2>6, <2>7, <2>8, <2>9, <2>10, <2>11
    DEF Agent
<1>5. CASE Raises
  <2>1. image' \in [SERVICES -> Releases]
    BY <1>5, EffectsTyped DEF TypeOK, Raises
  <2>2. /\ changed' \in 0 .. NumServices
        /\ pc' \in Phases
        /\ faults' \in 0 .. MaxFaults
    BY <1>5 DEF TypeOK, Raises, Phases
  <2>3. unsettled' \in BOOLEAN /\ unrecorded' \in BOOLEAN
    BY <1>5 DEF TypeOK, Raises
  <2> QED
    BY <1>5, <2>1, <2>2, <2>3 DEF TypeOK, Raises, outside
<1>6. CASE Exits
  <2>1. /\ image' \in [SERVICES -> Releases]
        /\ github' \in [Releases -> {NoStatus, "in_progress", "failure", "success"}]
        /\ failed' \in Releases \cup {None, Torn}
    BY <1>6, EffectsTyped DEF Exits
  <2>2. /\ changed' \in 0 .. NumServices
        /\ pc' \in Phases
        /\ faults' \in 0 .. MaxFaults
    BY <1>6 DEF TypeOK, Exits, Phases
  <2>3. unsettled' \in BOOLEAN /\ unrecorded' \in BOOLEAN
    BY <1>6 DEF TypeOK, Exits
  <2> QED
    BY <1>6, <2>1, <2>2, <2>3 DEF TypeOK, Exits, outside
<1>7. CASE UNCHANGED vars
  BY <1>7 DEF TypeOK, vars
<1> QED
  BY <1>1, <1>2, <1>3, <1>4, <1>5, <1>6, <1>7 DEF Next

\* The initial state has its types.
LEMMA InitTyped == Init => TypeOK
<1> SUFFICES ASSUME Init
             PROVE  TypeOK
  OBVIOUS
<1>1. 0 \in Releases
  BY ReleaseAssumption DEF Releases
<1>2. /\ image \in [SERVICES -> Releases]
      /\ previous \in [SERVICES -> Releases]
      /\ github \in [Releases -> {NoStatus, "in_progress", "failure", "success"}]
  BY <1>1 DEF Init
<1>3. marker \in [sha : Releases, status_reported : BOOLEAN]
  BY <1>1 DEF Init
<1>4. changed \in 0 .. NumServices /\ faults \in 0 .. MaxFaults
  BY ReleaseAssumption DEF Init
<1> QED
  BY <1>1, <1>2, <1>3, <1>4 DEF Init, TypeOK, Phases

\* The release agent's state has its types.
THEOREM ReleaseTypeCorrect == Spec => []TypeOK
  BY InitTyped, StepTyped, PTL DEF Spec

-----------------------------------------------------------------------------
(* One release at a time *)

\* What the types say of the numbers the invariant compares.
LEMMA Numbers ==
  ASSUME TypeOK
  PROVE  /\ head \in Int /\ sha \in Int /\ marker.sha \in Int /\ changed \in Int
         /\ 0 <= changed /\ changed <= NumServices
         /\ verified \in Int /\ unsettled \in BOOLEAN /\ unrecorded \in BOOLEAN
         /\ \A s \in SERVICES : s \in Int /\ 1 <= s /\ s <= NumServices
  BY ReleaseAssumption DEF TypeOK, Releases, SERVICES

\* A run stays ahead of deployed.json.
LEMMA StepAhead == TypeOK /\ IInv /\ [Next]_vars => Ahead'
<1> SUFFICES ASSUME TypeOK, IInv, [Next]_vars
             PROVE  Ahead'
  OBVIOUS
<1> USE Numbers DEF Ahead, Trying, Changing, history
<1>1. CASE Push
  BY <1>1 DEF Push, IInv
<1>2. CASE \E r \in Releases : CIPasses(r)
  BY <1>2 DEF CIPasses, IInv
<1>3. CASE Start
  BY <1>3 DEF Start, outside, IInv
<1>4. CASE Agent
  <2>1. CASE Prepare \/ ReadBaseline \/ Verify \/ RolledBack \/ Hold \/ ReportFailure
    BY <2>1 DEF Prepare, ReadBaseline, Verify, RolledBack, Hold, ReportFailure, outside, IInv
  <2>2. CASE RollOut
    BY <2>2 DEF RollOut, outside, IInv
  <2>3. CASE RollBack
    BY <2>3 DEF RollBack, outside, IInv
  <2>4. CASE Deployed
    BY <2>4 DEF Deployed, outside, IInv, RolledOut
  <2>5. CASE ReportSuccess
    BY <2>5 DEF ReportSuccess, outside, IInv
  <2>6. CASE Reported
    BY <2>6 DEF Reported, outside, IInv, TypeOK
  <2> QED
    BY <1>4, <2>1, <2>2, <2>3, <2>4, <2>5, <2>6 DEF Agent
<1>5. CASE Raises
  <2>1. pc \in {"rollout", "rollback", "verified"} /\ marker.sha < sha /\ sha <= head
    BY <1>5 DEF Raises, IInv
  <2>2. head' = head /\ sha' = sha /\ marker' = marker
    BY <1>5 DEF Raises, outside
  <2> QED
    BY <2>1, <2>2
<1>6. CASE Exits
  <2>1. unsettled' \/ unrecorded' => marker.sha < head
    <3>1. changed > 0 => marker.sha < sha
      BY DEF IInv, NothingOpen
    <3>2. image' # image => marker.sha < sha
      BY <1>6 DEF Exits, InFlight, IInv
    <3>3. pc = "verified" => marker.sha < sha
      BY DEF IInv
    <3> QED
      BY <1>6, <3>1, <3>2, <3>3 DEF Exits, IInv
  <2> QED
    BY <1>6, <2>1 DEF Exits, outside, IInv
<1>7. CASE UNCHANGED vars
  BY <1>7 DEF vars, IInv
<1> QED
  BY <1>1, <1>2, <1>3, <1>4, <1>5, <1>6, <1>7 DEF Next

\* The steps that leave the cluster, deployed.json and the rollout alone.
Quiet == \/ Push \/ (\E r \in Releases : CIPasses(r)) \/ Start \/ Prepare
         \/ Hold \/ ReportFailure \/ ReportSuccess \/ UNCHANGED vars

\* A step is quiet or one of those that the lemmas below take in turn.
LEMMA Steps ==
  ASSUME [Next]_vars
  PROVE  \/ Quiet \/ ReadBaseline \/ RollOut \/ Verify \/ RollBack \/ RolledBack
         \/ Deployed \/ Reported \/ Raises \/ Exits
  BY DEF Next, Agent, Quiet

\* What a quiet step leaves as it is.
LEMMA QuietKeeps ==
  ASSUME TypeOK, Quiet
  PROVE  /\ UNCHANGED <<image, marker, previous, changed, history>>
         /\ pc \in Changing <=> pc' \in Changing
         /\ pc \in Changing => pc' = pc /\ sha' = sha
<1> USE DEF Changing, history
<1>1. CASE Push \/ (\E r \in Releases : CIPasses(r))
  BY <1>1 DEF Push, CIPasses
<1>2. CASE Start
  BY <1>2 DEF Start
<1>3. CASE Prepare \/ Hold \/ ReportFailure
  BY <1>3 DEF Prepare, Hold, ReportFailure
<1>4. CASE ReportSuccess
  BY <1>4 DEF ReportSuccess
<1>5. CASE UNCHANGED vars
  BY <1>5 DEF vars
<1> QED
  BY <1>1, <1>2, <1>3, <1>4, <1>5 DEF Quiet

\* changed is put back to 0 with the end of every rollout.
LEMMA StepNothingOpen == TypeOK /\ IInv /\ [Next]_vars => NothingOpen'
<1> SUFFICES ASSUME TypeOK, IInv, [Next]_vars
             PROVE  NothingOpen'
  OBVIOUS
<1> USE DEF NothingOpen, IInv, history
<1>1. CASE Quiet
  BY <1>1, QuietKeeps
<1>2. CASE ReadBaseline \/ Verify \/ RolledBack
  BY <1>2 DEF ReadBaseline, Verify, RolledBack, Changing
<1>3. CASE RollOut \/ RollBack
  BY <1>3 DEF RollOut, RollBack, Changing
<1>4. CASE Deployed \/ Reported
  BY <1>4 DEF Deployed, Reported, Changing
<1>5. CASE Raises \/ Exits
  BY <1>5 DEF Raises, Exits, Changing
<1> QED
  BY Steps, <1>1, <1>2, <1>3, <1>4, <1>5

\* A rollout goes through the services in order.
LEMMA StepRolledOut == TypeOK /\ IInv /\ [Next]_vars => RolledOut'
<1> SUFFICES ASSUME TypeOK, IInv, [Next]_vars
             PROVE  RolledOut'
  OBVIOUS
<1> USE Numbers DEF RolledOut, history
<1>1. CASE Quiet
  BY <1>1, QuietKeeps DEF IInv, Changing
<1>2. CASE ReadBaseline
  <2>1. changed = 0
    BY <1>2 DEF ReadBaseline, IInv, NothingOpen, Changing
  <2> QED
    BY <1>2, <2>1 DEF ReadBaseline
<1>3. CASE RollOut
  <2>1. pc' # "verified"
    BY <1>3 DEF RollOut
  <2>2. ASSUME pc' = "rollout", NEW s \in SERVICES, s <= changed'
        PROVE  image'[s] = sha'
    <3>1. image' = [image EXCEPT ![changed + 1] = sha]
      BY <1>3, <2>2 DEF RollOut
    <3>2. image \in [SERVICES -> Releases]
      BY DEF TypeOK
    <3>3. CASE s = changed + 1
      BY <1>3, <3>1, <3>2, <3>3 DEF RollOut
    <3>4. CASE s # changed + 1
      <4>1. s <= changed
        BY <1>3, <2>2, <3>4 DEF RollOut, append_changed
      <4>2. image[s] = sha
        BY <1>3, <4>1 DEF RollOut, IInv
      <4> QED
        BY <1>3, <3>1, <3>2, <3>4, <4>2 DEF RollOut
    <3> QED
      BY <3>3, <3>4
  <2> QED
    BY <2>1, <2>2
<1>4. CASE Verify
  BY <1>4 DEF Verify, outside, IInv
<1>5. CASE RollBack \/ RolledBack \/ Deployed \/ Reported \/ Raises \/ Exits
  BY <1>5 DEF RollBack, RolledBack, Deployed, Reported, Raises, Exits
<1> QED
  BY Steps, <1>1, <1>2, <1>3, <1>4, <1>5

\* A rollback puts back what deployed.json names.
LEMMA StepRestorable == TypeOK /\ IInv /\ [Next]_vars => Restorable'
<1> SUFFICES ASSUME TypeOK, IInv, [Next]_vars
             PROVE  Restorable'
  OBVIOUS
<1> USE Numbers DEF Restorable, history
<1>1. CASE Quiet
  BY <1>1, QuietKeeps DEF IInv, Changing
<1>2. CASE ReadBaseline
  BY <1>2 DEF ReadBaseline, IInv, Whole
<1>3. CASE RollOut
  <2> SUFFICES ASSUME ~unsettled, NEW s \in SERVICES
               PROVE  /\ previous[s] = verified
                      /\ s > changed + 1 => image'[s] = verified
    BY <1>3 DEF RollOut, append_changed
  <2>1. pc \in {"rollout", "rollback"}
    BY <1>3 DEF RollOut
  <2>2. image'[s] = image[s] \/ s = changed + 1
    BY <1>3 DEF RollOut, TypeOK
  <2> QED
    BY <2>1, <2>2 DEF IInv
<1>4. CASE Verify
  BY <1>4 DEF Verify, IInv
<1>5. CASE RollBack
  <2> SUFFICES ASSUME ~unsettled', NEW s \in SERVICES
               PROVE  /\ previous[s] = verified
                      /\ s > changed - 1 => image'[s] = verified
    BY <1>5 DEF RollBack
  <2>1. pc \in {"rollout", "rollback"} /\ ~unsettled
    BY <1>5 DEF RollBack
  <2>2. image' = [image EXCEPT ![changed] = previous[changed]]
    BY <1>5 DEF RollBack
  <2>3. image \in [SERVICES -> Releases]
    BY DEF TypeOK
  <2>4. image'[s] = IF s = changed THEN previous[s] ELSE image[s]
    BY <2>2, <2>3
  <2> QED
    BY <2>1, <2>4 DEF IInv
<1>6. CASE RolledBack \/ Deployed \/ Reported
  BY <1>6 DEF RolledBack, Deployed, Reported
<1>7. CASE Raises
  <2>1. CASE pc = "rollout"
    BY <1>7, <2>1 DEF Raises, IInv
  <2>2. CASE pc \in {"rollback", "verified"}
    BY <1>7, <2>2 DEF Raises
  <2> QED
    BY <1>7, <2>1, <2>2 DEF Raises
<1>8. CASE Exits
  BY <1>8 DEF Exits
<1> QED
  BY Steps, <1>1, <1>2, <1>3, <1>4, <1>5, <1>6, <1>7, <1>8

\* A status is sent for the release that deployed.json names, on a whole cluster.
LEMMA StepReporting == TypeOK /\ IInv /\ [Next]_vars => Reporting'
<1> SUFFICES ASSUME TypeOK, IInv, [Next]_vars
             PROVE  Reporting'
  OBVIOUS
<1> USE Numbers DEF Reporting, history
<1>1. CASE Start
  BY <1>1 DEF Start, IInv, Ahead
<1>2. CASE Push \/ (\E r \in Releases : CIPasses(r)) \/ UNCHANGED vars
  BY <1>2 DEF Push, CIPasses, vars, IInv
<1>3. CASE Prepare \/ Hold \/ ReportFailure \/ ReadBaseline \/ Verify \/ RolledBack
  BY <1>3 DEF Prepare, Hold, ReportFailure, ReadBaseline, Verify, RolledBack
<1>4. CASE ReportSuccess \/ Reported
  BY <1>4 DEF ReportSuccess, Reported, IInv
<1>5. CASE RollOut \/ RollBack
  BY <1>5 DEF RollOut, RollBack
<1>6. CASE Deployed
  BY <1>6 DEF Deployed, IInv, RolledOut
<1>7. CASE Raises \/ Exits
  BY <1>7 DEF Raises, Exits
<1> QED
  BY Steps, <1>1, <1>2, <1>3, <1>4, <1>5, <1>6, <1>7 DEF Quiet

\* A rollout ends with one release everywhere, or with a change on record as cut off.
LEMMA StepWhole == TypeOK /\ IInv /\ [Next]_vars => Whole'
<1> SUFFICES ASSUME TypeOK, IInv, [Next]_vars
             PROVE  Whole'
  OBVIOUS
<1> USE Numbers DEF Whole, history
<1>1. CASE Quiet
  <2>1. pc' \notin {"rollout", "rollback"} => pc \notin {"rollout", "rollback"}
    BY <1>1, QuietKeeps DEF Changing
  <2> QED
    BY <1>1, <2>1, QuietKeeps DEF IInv
<1>2. CASE ReadBaseline
  BY <1>2 DEF ReadBaseline, IInv
<1>3. CASE RollOut \/ RollBack
  BY <1>3 DEF RollOut, RollBack
<1>4. CASE Verify
  BY <1>4 DEF Verify, IInv, RolledOut
<1>5. CASE RolledBack
  BY <1>5 DEF RolledBack, IInv, Restorable
<1>6. CASE Deployed \/ Reported
  BY <1>6 DEF Deployed, Reported, IInv
<1>7. CASE Raises
  <2>1. CASE pc = "rollout"
    BY <1>7, <2>1 DEF Raises
  <2>2. CASE pc = "rollback" /\ changed > 0
    BY <1>7, <2>2 DEF Raises
  <2>3. CASE pc = "rollback" /\ changed = 0
    BY <1>7, <2>3 DEF Raises, InFlight, IInv, Restorable
  <2>4. CASE pc = "verified"
    BY <1>7, <2>4 DEF Raises, IInv
  <2> QED
    BY <1>7, <2>1, <2>2, <2>3, <2>4 DEF Raises
<1>8. CASE Exits
  <2>1. CASE unsettled'
    BY <2>1
  <2>2. CASE ~unsettled'
    <3>1. unsettled' = (unsettled \/ (pc # "verified" /\ (changed > 0 \/ image' # image)))
      BY <1>8 DEF Exits
    <3>2. verified' = verified /\ image' \in InFlight
      BY <1>8 DEF Exits
    <3>3. ~unsettled
      BY <2>2, <3>1, Zenon
    <3>4. CASE pc \in {"rollout", "rollback"}
      <4>1. ~(changed > 0) /\ image' = image
        BY <2>2, <3>1, <3>4, Zenon
      <4> QED
        BY <3>2, <3>3, <3>4, <4>1 DEF IInv, Restorable
    <3>5. CASE pc \notin {"rollout", "rollback"}
      <4>1. image' = image
        BY <3>2, <3>5 DEF InFlight
      <4> QED
        BY <3>2, <3>3, <3>5, <4>1 DEF IInv
    <3> QED
      BY <3>4, <3>5
  <2> QED
    BY <2>1, <2>2
<1> QED
  BY Steps, <1>1, <1>2, <1>3, <1>4, <1>5, <1>6, <1>7, <1>8

\* deployed.json follows each verification, or the run that did not get to it is on record.
LEMMA StepRecorded == TypeOK /\ IInv /\ [Next]_vars => Recorded'
<1> SUFFICES ASSUME TypeOK, IInv, [Next]_vars
             PROVE  Recorded'
  OBVIOUS
<1> USE DEF Recorded, history
<1>1. CASE Quiet
  <2>1. pc' # "verified" => pc # "verified"
    BY <1>1, QuietKeeps DEF Changing
  <2> QED
    BY <1>1, <2>1, QuietKeeps DEF IInv
<1>2. CASE ReadBaseline \/ RollOut \/ RollBack \/ RolledBack
  BY <1>2 DEF ReadBaseline, RollOut, RollBack, RolledBack, IInv
<1>3. CASE Verify
  BY <1>3 DEF Verify, IInv
<1>4. CASE Deployed
  BY <1>4 DEF Deployed, IInv, RolledOut
<1>5. CASE Reported
  BY <1>5 DEF Reported, IInv, TypeOK
<1>6. CASE Raises
  BY <1>6 DEF Raises, IInv
<1>7. CASE Exits
  <2>1. /\ unrecorded' = (unrecorded \/ pc = "verified")
        /\ UNCHANGED <<verified, marker>>
    BY <1>7 DEF Exits
  <2>2. ~unrecorded' => ~unrecorded /\ pc # "verified"
    BY <2>1, Zenon
  <2> QED
    BY <2>1, <2>2 DEF IInv
<1> QED
  BY Steps, <1>1, <1>2, <1>3, <1>4, <1>5, <1>6, <1>7

\* The invariant holds from the start and through every step.
LEMMA ReleaseInvariant == Spec => [](TypeOK /\ IInv)
<1>1. Init => TypeOK
  BY InitTyped
<1>2. Init => IInv
  BY ReleaseAssumption
  DEF Init, IInv, Ahead, Trying, Changing, NothingOpen, RolledOut, Restorable, Reporting,
      Whole, Recorded
<1>3. TypeOK /\ IInv /\ [Next]_vars => (TypeOK /\ IInv)'
  BY StepTyped, StepAhead, StepNothingOpen, StepRolledOut, StepRestorable, StepReporting,
     StepWhole, StepRecorded
  DEF IInv
<1> QED
  BY <1>1, <1>2, <1>3, PTL DEF Spec

-----------------------------------------------------------------------------
(* Properties *)

\* Outside of a rollout every service names the release verified last, unless a
\* change was cut off, or a rollback failed, and no complete release followed; and
\* deployed.json names it too, unless a run ended before it was written.
THEOREM ReleaseIsOne == Spec => []OneRelease
<1>1. TypeOK /\ IInv => OneRelease
  BY DEF IInv, OneRelease
<1> QED
  BY <1>1, ReleaseInvariant, PTL

-----------------------------------------------------------------------------
(* The record on GitHub *)

\* GitHub has heard of no release later than that of the latest run.
Known == \A r \in Releases : github[r] # NoStatus => r <= sha

\* A release is announced before anything changes for it, and one that is deployed
\* but not reported is announced or already a success.
Announced == /\ pc \in Trying \ {"prepare"} => github[sha] = "in_progress"
             /\ pc = "report" => ~marker.status_reported
             /\ ~marker.status_reported => github[marker.sha] \in {"in_progress", "success"}

\* A success is a release that was deployed.
WasDeployed == \A r \in Releases : github[r] = "success" => r <= marker.sha

\* No run takes up a release reported as failed: it is the one failed.json names,
\* failed.json is torn and stops every run, or main has moved on.
NeverAgain == /\ pc = "failed" => failed = sha
              /\ \A r \in Releases :
                   github[r] = "failure" => /\ failed \in {r, Torn} \/ r < head
                                            /\ pc \in Trying => r # sha

Told == Known /\ Announced /\ WasDeployed /\ NeverAgain

\* GitHub is told something by one of three steps, or by a call that was under way
\* when the run was cut off.
LEMMA WhoTells ==
  ASSUME TypeOK, [Next]_vars
  PROVE  \/ UNCHANGED github
         \/ /\ pc \in DOMAIN status
            /\ github' = [github EXCEPT ![sha] = status[pc]]
            /\ UNCHANGED <<head, image, marker, failed, sha>>
            /\ \/ pc' = "idle"
               \/ pc = "prepare" /\ pc' = "deploy"
               \/ pc = "report" /\ pc' = "reported"
<1>1. CASE Push \/ (\E r \in Releases : CIPasses(r)) \/ Start \/ UNCHANGED vars
  BY <1>1 DEF Push, CIPasses, Start, vars
<1>2. CASE Prepare
  BY <1>2 DEF Prepare, outside, status
<1>3. CASE ReportFailure
  BY <1>3 DEF ReportFailure, outside, status
<1>4. CASE ReportSuccess
  BY <1>4 DEF ReportSuccess, outside, status
<1>5. CASE Hold \/ ReadBaseline \/ RollOut \/ Verify \/ RollBack \/ RolledBack
  BY <1>5 DEF Hold, ReadBaseline, RollOut, Verify, RollBack, RolledBack
<1>6. CASE Deployed \/ Reported \/ Raises
  BY <1>6 DEF Deployed, Reported, Raises
<1>7. CASE Exits
  <2>1. CASE github' = github
    BY <2>1
  <2>2. CASE github' # github
    <3>1. pc \in DOMAIN status /\ github' = [github EXCEPT ![sha] = status[pc]]
      BY <1>7, <2>2 DEF Exits, Posted
    <3>2. pc \in {"prepare", "failed", "report"}
      BY <3>1 DEF status
    <3>3. image' = image /\ failed' = failed
      BY <1>7, <3>2 DEF Exits, InFlight, Written
    <3> QED
      BY <1>7, <3>1, <3>3 DEF Exits, outside
  <2> QED
    BY <2>1, <2>2
<1> QED
  BY Steps, <1>1, <1>2, <1>3, <1>4, <1>5, <1>6, <1>7 DEF Quiet

\* Main, the runs and deployed.json only go forward.
LEMMA Forward ==
  ASSUME TypeOK, IInv, [Next]_vars
  PROVE  sha <= sha' /\ head <= head' /\ marker.sha <= marker'.sha
<1> USE Numbers DEF IInv, Ahead
<1>1. CASE Quiet
  BY <1>1 DEF Quiet, Push, CIPasses, Start, Prepare, Hold, ReportFailure, ReportSuccess,
              outside, vars
<1>2. CASE ReadBaseline \/ RollOut \/ Verify \/ RollBack \/ RolledBack
  BY <1>2 DEF ReadBaseline, RollOut, Verify, RollBack, RolledBack, outside
<1>3. CASE Deployed \/ Reported
  BY <1>3 DEF Deployed, Reported, outside, TypeOK
<1>4. CASE Raises \/ Exits
  BY <1>4 DEF Raises, Exits, outside
<1> QED
  BY Steps, <1>1, <1>2, <1>3, <1>4

\* GitHub hears of the release of the run only.
LEMMA StepKnown == TypeOK /\ IInv /\ Known /\ [Next]_vars => Known'
<1> SUFFICES ASSUME TypeOK, IInv, Known, [Next]_vars,
                    NEW r \in Releases, github'[r] # NoStatus
             PROVE  r <= sha'
  BY DEF Known, Releases
<1>1. github'[r] = github[r] \/ r = sha
  BY WhoTells DEF TypeOK
<1>2. r <= sha
  BY <1>1, Numbers DEF Known, Releases
<1>3. r \in Int /\ sha \in Int /\ sha' \in Int
  BY Numbers, StepTyped DEF TypeOK, Releases
<1> QED
  BY <1>2, <1>3, Forward

\* Only the release of deployed.json becomes a success.
LEMMA StepWasDeployed == TypeOK /\ IInv /\ WasDeployed /\ [Next]_vars => WasDeployed'
<1> SUFFICES ASSUME TypeOK, IInv, WasDeployed, [Next]_vars,
                    NEW r \in Releases, github'[r] = "success"
             PROVE  r <= marker'.sha
  BY DEF WasDeployed
<1>1. r <= marker.sha
  <2>1. CASE github' = github
    BY <2>1 DEF WasDeployed
  <2>2. CASE github' # github
    <3>1. pc \in DOMAIN status /\ github' = [github EXCEPT ![sha] = status[pc]]
      BY <2>2, WhoTells
    <3>2. CASE r # sha
      BY <3>1, <3>2 DEF WasDeployed
    <3>3. CASE r = sha
      <4>1. pc = "report"
        BY <3>1, <3>3 DEF TypeOK, status
      <4> QED
        BY <4>1, <3>3, Numbers DEF IInv, Reporting
    <3> QED
      BY <3>2, <3>3
  <2> QED
    BY <2>1, <2>2
<1>2. TypeOK'
  BY StepTyped
<1>3. r \in Int /\ marker.sha \in Int /\ marker'.sha \in Int
  BY <1>2, Numbers DEF TypeOK, Releases
<1> QED
  BY <1>1, <1>3, Forward

\* A release is announced by its run before the rollout, and the status changes again
\* only when the run is over.
LEMMA StepAnnounced == TypeOK /\ IInv /\ Announced /\ [Next]_vars => Announced'
<1> SUFFICES ASSUME TypeOK, IInv, Announced, [Next]_vars
             PROVE  Announced'
  OBVIOUS
<1> USE Numbers DEF Announced, Trying, Changing, IInv, Ahead, Reporting
<1>1. CASE Push \/ (\E r \in Releases : CIPasses(r)) \/ UNCHANGED vars
  BY <1>1 DEF Push, CIPasses, vars
<1>2. CASE Start
  BY <1>2 DEF Start, outside
<1>3. CASE Prepare
  BY <1>3 DEF Prepare, outside, TypeOK
<1>4. CASE ReportFailure \/ ReportSuccess
  BY <1>4 DEF ReportFailure, ReportSuccess, outside, TypeOK
<1>5. CASE Hold \/ ReadBaseline \/ RollOut \/ Verify
  BY <1>5 DEF Hold, ReadBaseline, RollOut, Verify, outside
<1>6. CASE RollBack \/ RolledBack \/ Raises
  BY <1>6 DEF RollBack, RolledBack, Raises, outside
<1>7. CASE Deployed \/ Reported
  BY <1>7 DEF Deployed, Reported, outside, TypeOK
<1>8. CASE Exits
  BY <1>8 DEF Exits, outside, Posted, status, TypeOK
<1> QED
  BY Steps, <1>1, <1>2, <1>3, <1>4, <1>5, <1>6, <1>7, <1>8 DEF Quiet

\* A release reported as failed was held before; a later one may take its place in
\* failed.json only because main has moved on.
LEMMA StepNeverAgain ==
  TypeOK /\ IInv /\ Known /\ NeverAgain /\ [Next]_vars => NeverAgain'
<1> SUFFICES ASSUME TypeOK, IInv, Known, NeverAgain, [Next]_vars
             PROVE  NeverAgain'
  OBVIOUS
<1> USE Numbers DEF NeverAgain, Known, Trying, Changing, IInv, Ahead, Releases, NoStatus
<1>1. CASE Push \/ (\E r \in Releases : CIPasses(r)) \/ UNCHANGED vars
  BY <1>1 DEF Push, CIPasses, vars
<1>2. CASE Start
  BY <1>2 DEF Start, outside, TypeOK
<1>3. CASE Prepare
  BY <1>3 DEF Prepare, outside, TypeOK
<1>4. CASE Hold
  BY <1>4 DEF Hold, outside, TypeOK
<1>5. CASE ReportFailure
  BY <1>5 DEF ReportFailure, outside, TypeOK
<1>6. CASE ReportSuccess
  BY <1>6 DEF ReportSuccess, outside, TypeOK
<1>7. CASE ReadBaseline \/ RollOut \/ Verify \/ RollBack \/ RolledBack
  BY <1>7 DEF ReadBaseline, RollOut, Verify, RollBack, RolledBack, outside
<1>8. CASE Deployed \/ Reported \/ Raises
  BY <1>8 DEF Deployed, Reported, Raises, outside
<1>9. CASE Exits
  <2>1. /\ pc' = "idle" /\ head' = head
        /\ failed' \in {failed, Torn}
    BY <1>9 DEF Exits, outside, Written
  <2>2. ASSUME NEW r \in Releases, github'[r] = "failure"
        PROVE  failed' \in {r, Torn} \/ r < head
    <3>1. github[r] = "failure" \/ (pc = "failed" /\ r = sha)
      <4>1. CASE github' = github
        BY <2>2, <4>1
      <4>2. CASE github' # github
        <5>1. pc \in DOMAIN status /\ github' = [github EXCEPT ![sha] = status[pc]]
          BY <4>2, WhoTells
        <5> QED
          BY <2>2, <5>1 DEF status, TypeOK
      <4> QED
        BY <4>1, <4>2
    <3>2. CASE github[r] = "failure"
      BY <2>1, <3>2
    <3>3. CASE pc = "failed" /\ r = sha
      BY <2>1, <3>3
    <3> QED
      BY <3>1, <3>2, <3>3
  <2> QED
    BY <2>1, <2>2
<1> QED
  BY Steps, <1>1, <1>2, <1>3, <1>4, <1>5, <1>6, <1>7, <1>8, <1>9 DEF Quiet

\* The invariant of the record.
LEMMA RecordInvariant == Spec => []Told
<1>1. Init => Told
  BY ReleaseAssumption
  DEF Init, Told, Known, Announced, WasDeployed, NeverAgain, Trying, Changing, NoStatus
<1>2. (TypeOK /\ IInv) /\ Told /\ [Next]_vars => Told'
  BY StepKnown, StepAnnounced, StepWasDeployed, StepNeverAgain DEF Told
<1> QED
  BY <1>1, <1>2, ReleaseInvariant, PTL DEF Spec

\* Until it is deployed, the release of a run is the newest GitHub has heard of.
LEMMA TryingNewest ==
  ASSUME TypeOK, IInv, Told, pc \in Trying
  PROVE  Record!Newest(sha)
<1>1. marker.sha < sha
  BY DEF IInv, Ahead
<1>2. \A later \in Releases : later > sha => github[later] = "none"
  BY Numbers DEF Told, Known, NoStatus, Releases
<1> QED
  BY <1>1, <1>2, Numbers DEF Record!Newest

\* A service is changed only for the release of a run that is being rolled out.
LEMMA ServiceChanges ==
  ASSUME TypeOK, IInv, Told, pc \in Changing,
         UNCHANGED <<marker, github>>,
         \/ image' = image
         \/ \E s \in SERVICES, r \in Releases : image' = [image EXCEPT ![s] = r]
  PROVE  \/ UNCHANGED <<image, marker.sha, github>>
         \/ \E s \in SERVICES : Record!Change(sha, s)
<1>1. Record!Newest(sha)
  BY TryingNewest DEF Trying
<1>2. github[sha] = "in_progress"
  BY DEF Told, Announced, Trying, Changing
<1> QED
  BY <1>1, <1>2 DEF Record!Change

\* What a rollout or rollback does to the services, whether or not it is cut off.
LEMMA ChangesAreSingle ==
  ASSUME TypeOK, IInv, RollOut \/ RollBack \/ Raises \/ Exits
  PROVE  \/ image' = image
         \/ /\ pc \in Changing
            /\ \E s \in SERVICES, r \in Releases : image' = [image EXCEPT ![s] = r]
<1> USE Numbers DEF Changing
<1>1. CASE RollOut
  <2>1. changed + 1 \in SERVICES /\ sha \in Releases
    BY <1>1, ReleaseAssumption DEF RollOut, SERVICES, TypeOK
  <2> QED
    BY <1>1, <2>1 DEF RollOut
<1>2. \A i \in SERVICES : previous[i] \in Releases
  BY DEF TypeOK
<1>3. changed > 0 => changed \in SERVICES
  BY ReleaseAssumption DEF SERVICES, TypeOK
<1>4. CASE RollBack
  BY <1>2, <1>3, <1>4 DEF RollBack
<1>5. CASE Raises \/ Exits
  <2>1. image' = image \/ (image' \in InFlight /\ image' # image)
    BY <1>5 DEF Raises, Exits
  <2>2. CASE image' \in InFlight /\ image' # image
    <3>1. CASE pc = "rollout" /\ changed < NumServices /\ image' = [image EXCEPT ![changed + 1] = sha]
      <4>1. changed + 1 \in SERVICES /\ sha \in Releases
        BY <3>1, ReleaseAssumption DEF SERVICES, TypeOK
      <4> QED
        BY <3>1, <4>1
    <3>2. CASE pc = "rollback" /\ changed > 0 /\ image' = [image EXCEPT ![changed] = previous[changed]]
      BY <1>2, <1>3, <3>2
    <3> QED
      BY <2>2, <3>1, <3>2 DEF InFlight
  <2> QED
    BY <2>1, <2>2
<1> QED
  BY <1>1, <1>4, <1>5

\* What GitHub is told is true and final: the agent implements DeploymentRecord,
\* whatever fails, is cut off or is overtaken by main.
THEOREM RecordIsTruthful == Spec => Truthful
<1>1. Init => Record!Init
  BY DEF Init, Record!Init, NoStatus
<1>2. (TypeOK /\ IInv) /\ Told /\ [Next]_vars
        => [Record!Next]_<<image, marker.sha, github>>
  <2> SUFFICES ASSUME TypeOK, IInv, Told, [Next]_vars
               PROVE  Record!Next \/ UNCHANGED <<image, marker.sha, github>>
    OBVIOUS
  <2> USE DEF Record!Next
  <2>1. sha \in Releases
    BY DEF TypeOK
  <2>2. CASE github' # github
    <3>1. /\ pc \in DOMAIN status
          /\ github' = [github EXCEPT ![sha] = status[pc]]
          /\ UNCHANGED <<image, marker>>
      BY <2>2, WhoTells
    <3>2. CASE pc = "prepare"
      <4>1. Record!Newest(sha)
        BY <3>2, TryingNewest DEF Trying
      <4>2. github[sha] \in {"none", "in_progress"}
        <5>1. github[sha] # "failure"
          BY <2>1, <3>2 DEF Told, NeverAgain, Trying
        <5>2. github[sha] # "success"
          BY <2>1, <3>2, Numbers DEF Told, WasDeployed, IInv, Ahead, Trying
        <5> QED
          BY <2>1, <5>1, <5>2 DEF TypeOK, NoStatus
      <4>3. Record!Begin(sha)
        BY <3>1, <3>2, <4>1, <4>2 DEF Record!Begin, status
      <4> QED
        BY <2>1, <4>3
    <3>3. CASE pc = "failed"
      <4>1. Record!Newest(sha) /\ github[sha] = "in_progress"
        BY <3>3, TryingNewest DEF Trying, Told, Announced
      <4>2. Record!Fail(sha)
        BY <3>1, <3>3, <4>1 DEF Record!Fail, status
      <4> QED
        BY <2>1, <4>2
    <3>4. CASE pc = "report"
      <4>1. sha = marker.sha /\ \A s \in SERVICES : image[s] = sha
        BY <3>4 DEF IInv, Reporting, Whole, Recorded
      <4>2. github[sha] = "in_progress"
        <5>1. github[sha] \in {"in_progress", "success"}
          BY <3>4, <4>1 DEF Told, Announced
        <5>2. github[sha] # "success"
          BY <2>1, <2>2, <3>1, <3>4 DEF status, TypeOK
        <5> QED
          BY <5>1, <5>2
      <4>3. Record!Succeed(sha)
        BY <3>1, <3>4, <4>1, <4>2 DEF Record!Succeed, Record!Everywhere, status
      <4> QED
        BY <2>1, <4>3
    <3> QED
      BY <3>1, <3>2, <3>3, <3>4 DEF status
  <2>3. CASE github' = github /\ marker' # marker
    <3>1. CASE Deployed
      <4>1. Record!Newest(sha) /\ github[sha] = "in_progress"
        BY <3>1, TryingNewest DEF Deployed, Trying, Changing, Told, Announced
      <4>2. \A s \in SERVICES : image[s] = sha
        BY <3>1, Numbers DEF Deployed, IInv, RolledOut
      <4>3. Record!Deploy(sha)
        BY <2>3, <3>1, <4>1, <4>2 DEF Deployed, Record!Deploy, Record!Everywhere
      <4> QED
        BY <2>1, <4>3
    <3>2. CASE Reported
      BY <3>2 DEF Reported, TypeOK
    <3>3. CASE Quiet
      BY <2>3, <3>3, QuietKeeps
    <3>4. CASE ReadBaseline \/ RollOut \/ Verify \/ RollBack \/ RolledBack \/ Raises \/ Exits
      BY <2>3, <3>4 DEF ReadBaseline, RollOut, Verify, RollBack, RolledBack, Raises, Exits
    <3> QED
      BY Steps, <3>1, <3>2, <3>3, <3>4
  <2>4. CASE github' = github /\ marker' = marker
    <3>1. CASE RollOut \/ RollBack \/ Raises \/ Exits
      BY <2>1, <2>4, <3>1, ChangesAreSingle, ServiceChanges
    <3>2. CASE Quiet
      BY <2>4, <3>2, QuietKeeps
    <3>3. CASE ReadBaseline \/ Verify \/ RolledBack \/ Deployed \/ Reported
      BY <2>4, <3>3 DEF ReadBaseline, Verify, RolledBack, Deployed, Reported
    <3> QED
      BY Steps, <3>1, <3>2, <3>3
  <2> QED
    BY <2>2, <2>3, <2>4
<1> QED
  BY <1>1, <1>2, ReleaseInvariant, RecordInvariant, PTL DEF Spec, Truthful, Record!Spec

\* GitHub is told of a success only while every service names that release, also when
\* a later run sends the status that an earlier one could not.
SuccessIsLive == [][\A r \in Releases :
                      github[r] # "success" /\ github'[r] = "success"
                        => \A s \in SERVICES : image[s] = r]_vars

\* The record's promise about a success, as a property of the agent's steps.
THEOREM ReportedSuccessIsLive == Spec => SuccessIsLive
<1> DEFINE A == \A r \in Releases :
                  github[r] # "success" /\ github'[r] = "success"
                    => \A s \in SERVICES : image[s] = r
<1>1. TypeOK /\ IInv /\ [Next]_vars => [A]_vars
  <2> SUFFICES ASSUME TypeOK, IInv, [Next]_vars,
                      NEW r \in Releases,
                      github[r] # "success", github'[r] = "success",
                      NEW s \in SERVICES
               PROVE  image[s] = r
    BY DEF vars
  <2>1. pc = "report" /\ r = sha
    <3>1. github \in [Releases -> {NoStatus, "in_progress", "failure", "success"}]
      BY DEF TypeOK
    <3>2. CASE ReportSuccess
      BY <3>1, <3>2 DEF ReportSuccess
    <3>3. CASE Exits
      <4>1. pc \in DOMAIN status /\ github' = [github EXCEPT ![sha] = status[pc]]
        BY <3>3 DEF Exits, Posted
      <4>2. r = sha /\ status[pc] = "success"
        BY <3>1, <4>1
      <4> QED
        BY <4>1, <4>2 DEF status
    <3>4. CASE Prepare \/ ReportFailure
      BY <3>1, <3>4 DEF Prepare, ReportFailure
    <3>5. CASE Push \/ (\E q \in Releases : CIPasses(q)) \/ Start \/ UNCHANGED vars
      BY <3>5 DEF Push, CIPasses, Start, vars
    <3>6. CASE Hold \/ ReadBaseline \/ RollOut \/ Verify \/ RollBack \/ RolledBack
      BY <3>6 DEF Hold, ReadBaseline, RollOut, Verify, RollBack, RolledBack
    <3>7. CASE Deployed \/ Reported \/ Raises
      BY <3>7 DEF Deployed, Reported, Raises
    <3> QED
      BY <3>2, <3>3, <3>4, <3>5, <3>6, <3>7, Steps DEF Quiet
  <2>2. marker.sha = sha /\ image[s] = marker.sha
    BY <2>1 DEF IInv, Reporting, Whole, Recorded
  <2> QED
    BY <2>1, <2>2
<1> QED
  BY <1>1, ReleaseInvariant, PTL DEF Spec, SuccessIsLive
=============================================================================
