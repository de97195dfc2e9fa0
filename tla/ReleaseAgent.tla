---------------------------- MODULE ReleaseAgent ----------------------------
(* The release agent of src/tools/release_agent.py: run by a timer, it takes   *)
(* the images that CI built from the head of main, rolls the six services out *)
(* one after the other, verifies the delivery, and rolls back what it changed *)
(* when anything fails.  deployed.json (marker) and failed.json (failed)      *)
(* outlive it; a lock file keeps a second agent out, so there is one process. *)
(*                                                                            *)
(* Releases are numbered in the order of main; release 0 is the one that runs *)
(* first.  A service is its position in SERVICES.  A command that fails may   *)
(* have taken effect (a timeout), and SIGTERM (systemd's TimeoutStartSec)     *)
(* raises RuntimeError wherever the agent is.                                 *)
EXTENDS Integers

CONSTANTS
  NumServices,  \* how many services a release rolls out
  MaxHead,      \* bound: commits pushed to main after release 0
  MaxFaults     \* bound: crashes, signals and failed GitHub calls

ASSUME ReleaseAssumption == /\ NumServices \in Nat \ {0}
                            /\ MaxHead \in Nat
                            /\ MaxFaults \in Nat

VARIABLES
  head,       \* the head of main on GitHub
  built,      \* the commits whose push CI succeeded and left its artifact
  github,     \* the newest deployment status of each release
  image,      \* the release each deployment of the cluster names
  marker,     \* deployed.json
  failed,     \* the release failed.json names, None, or Torn
  pc,         \* where the agent is; "idle" between two runs
  sha,        \* the release this run is about
  previous,   \* the images read before the first change
  changed,    \* len(changed): the first so many of SERVICES
  verified,   \* history: the release that was last verified on every service
  unsettled,  \* history: a change of the cluster was cut off since
  unrecorded, \* history: a run ended between its verification and deployed.json
  faults

vars == <<head, built, github, image, marker, failed, pc, sha, previous, changed,
          verified, unsettled, unrecorded, faults>>
outside == <<head, built>>
history == <<verified, unsettled, unrecorded>>

SERVICES == 1 .. NumServices
Releases == 0 .. MaxHead
None == -1
Torn == -2
NoStatus == "none"

Init == /\ head = 0
        /\ built = {}
        /\ github = [r \in Releases |-> NoStatus]
        /\ image = [s \in SERVICES |-> 0]
        /\ marker = [sha |-> 0, status_reported |-> TRUE]
        /\ failed = None
        /\ pc = "idle"
        /\ sha = 0
        /\ previous = image
        /\ changed = 0
        /\ verified = 0
        /\ unsettled = FALSE
        /\ unrecorded = FALSE
        /\ faults = 0

-----------------------------------------------------------------------------
(* GitHub. *)

Push == /\ head < MaxHead
        /\ head' = head + 1
        /\ UNCHANGED <<built, github, image, marker, failed, pc, sha, previous, changed,
                       history, faults>>

CIPasses(r) == /\ r \in 1 .. head \ built
               /\ built' = built \cup {r}
               /\ UNCHANGED <<head, github, image, marker, failed, pc, sha, previous,
                              changed, history, faults>>

-----------------------------------------------------------------------------
(* One run of the agent. *)

(* Mutant: a status that was not sent is sent also once main has moved on. *)
Start_AnyMarker ==
  /\ pc = "idle"
  /\ head \in built
  /\ IF marker.sha # head /\ failed \notin {Torn, head}
     THEN pc' = "prepare" /\ sha' = head
     ELSE ~marker.status_reported /\ pc' = "report" /\ sha' = marker.sha
  /\ UNCHANGED <<outside, github, image, marker, failed, previous, changed, history,
                 faults>>

(* Mutant: failed.json is not asked. *)
Start_Held ==
  /\ pc = "idle"
  /\ head \in built
  /\ \/ marker.sha = head /\ ~marker.status_reported /\ pc' = "report"
     \/ marker.sha # head /\ pc' = "prepare"
  /\ sha' = head
  /\ UNCHANGED <<outside, github, image, marker, failed, previous, changed, history,
                 faults>>

(* Mutant: a deployed release is left alone, its status sent or not. *)
Start_NewOnly ==
  /\ pc = "idle"
  /\ head \in built
  /\ marker.sha # head
  /\ failed \notin {Torn, head}
  /\ pc' = "prepare"
  /\ sha' = head
  /\ UNCHANGED <<outside, github, image, marker, failed, previous, changed, history,
                 faults>>

(* A run with something to do; every other run returns, or raises, with all   *)
(* state as it was: json.loads of a torn failed.json raises in each of them.  *)
Start == /\ pc = "idle"
         /\ head \in built
         /\ \/ /\ marker.sha = head
               /\ ~marker.status_reported
               /\ pc' = "report"
            \/ /\ marker.sha # head
               /\ failed \notin {Torn, head}
               /\ pc' = "prepare"
         /\ sha' = head
         /\ UNCHANGED <<outside, github, image, marker, failed, previous, changed,
                        history, faults>>

(* The download is checked; the release goes on unless main moved on.         *)
Prepare == /\ pc = "prepare"
           /\ IF head = sha
              THEN /\ github' = [github EXCEPT ![sha] = "in_progress"]
                   /\ pc' = "deploy"
              ELSE /\ pc' = "idle"
                   /\ UNCHANGED github
           /\ UNCHANGED <<outside, image, marker, failed, sha, previous, changed,
                          history, faults>>

(* deploy(): the images in place are noted and the new ones pushed to the     *)
(* registry, or the baseline is not healthy and nothing was changed.          *)
ReadBaseline == /\ pc = "deploy"
                /\ previous' = image
                /\ pc' \in {"rollout", "failing"}
                /\ UNCHANGED <<outside, github, image, marker, failed, sha, changed,
                               history, faults>>

(* changed.append comes before the change, so that a failure rolls it back.   *)
append_changed == changed' = changed + 1

(* Mutant: a service is noted as changed once its rollout is done. *)
RollOut_NotedAfter ==
  /\ pc = "rollout"
  /\ changed < NumServices
  /\ \/ append_changed /\ image' = [image EXCEPT ![changed + 1] = sha] /\ pc' = pc
     \/ /\ image' \in {image, [image EXCEPT ![changed + 1] = sha]}
        /\ pc' = "rollback"
        /\ UNCHANGED changed
  /\ UNCHANGED <<outside, github, marker, failed, sha, previous, history, faults>>

RollOut == /\ pc = "rollout"
           /\ changed < NumServices
           /\ append_changed
           /\ \/ /\ image' = [image EXCEPT ![changed + 1] = sha]
                 /\ pc' = pc
              \/ /\ image' \in {image, [image EXCEPT ![changed + 1] = sha]}
                 /\ pc' = "rollback"
           /\ UNCHANGED <<outside, github, marker, failed, sha, previous, history,
                          faults>>

(* Every rollout done: health, restarts, the panel, a delivery per poller.    *)
Verify == /\ pc = "rollout"
          /\ changed = NumServices
          /\ \/ pc' = "verified" /\ verified' = sha /\ unsettled' = FALSE
             \/ pc' = "rollback" /\ UNCHANGED <<verified, unsettled>>
          /\ UNCHANGED <<outside, github, image, marker, failed, sha, previous, changed,
                         unrecorded, faults>>

(* reversed(changed): one that cannot be put back is reported, and the next   *)
(* one is still tried.                                                        *)
RollBack == /\ pc = "rollback"
            /\ changed > 0
            /\ changed' = changed - 1
            /\ \/ /\ image' = [image EXCEPT ![changed] = previous[changed]]
                  /\ UNCHANGED unsettled
               \/ /\ image' \in {image, [image EXCEPT ![changed] = previous[changed]]}
                  /\ unsettled' = TRUE
            /\ UNCHANGED <<outside, github, marker, failed, pc, sha, previous, verified,
                           unrecorded, faults>>

RolledBack == /\ pc = "rollback"
              /\ changed = 0
              /\ pc' = "failing"
              /\ UNCHANGED <<outside, github, image, marker, failed, sha, previous,
                             changed, history, faults>>

(* except BaseException around deploy(): the release is held.                 *)
Hold == /\ pc = "failing"
        /\ failed' = sha
        /\ pc' = "failed"
        /\ UNCHANGED <<outside, github, image, marker, sha, previous, changed,
                       history, faults>>

ReportFailure == /\ pc = "failed"
                 /\ github' = [github EXCEPT ![sha] = "failure"]
                 /\ pc' = "idle"
                 /\ UNCHANGED <<outside, image, marker, failed, sha, previous, changed,
                                history, faults>>

Deployed == /\ pc = "verified"
            /\ marker' = [sha |-> sha, status_reported |-> FALSE]
            /\ changed' = 0
            /\ unrecorded' = FALSE
            /\ pc' = "report"
            /\ UNCHANGED <<outside, github, image, failed, sha, previous, verified,
                           unsettled, faults>>

(* The success status, of this run or of an earlier one that did not get to   *)
(* it, and then the note that it was sent.                                    *)
ReportSuccess == /\ pc = "report"
                 /\ github' = [github EXCEPT ![sha] = "success"]
                 /\ pc' = "reported"
                 /\ UNCHANGED <<outside, image, marker, failed, sha, previous, changed,
                                history, faults>>

Reported == /\ pc = "reported"
            /\ marker' = [marker EXCEPT !.status_reported = TRUE]
            /\ pc' = "idle"
            /\ UNCHANGED <<outside, github, image, failed, sha, previous, changed,
                           history, faults>>

-----------------------------------------------------------------------------
(* What cuts a run off. *)

(* What the call that was under way may have done: kubectl set image, the     *)
(* status of the deployment, and failed.write_text, which truncates the file  *)
(* before it writes it.                                                       *)
InFlight == {image}
            \cup (IF pc = "rollout" /\ changed < NumServices
                  THEN {[image EXCEPT ![changed + 1] = sha]} ELSE {})
            \cup (IF pc = "rollback" /\ changed > 0
                  THEN {[image EXCEPT ![changed] = previous[changed]]} ELSE {})

(* SIGTERM (or an error of print) in deploy().  The rollout is rolled back.   *)
(* In the rollback it is a RuntimeError, which `except SubprocessError` does  *)
(* not catch: the services that are left keep the new images.  After the      *)
(* verification it is outside of deploy()'s try: nothing is rolled back, and  *)
(* main holds the release that runs everywhere, with deployed.json as it was. *)
Raises == /\ faults < MaxFaults
          /\ faults' = faults + 1
          /\ \/ /\ pc = "rollout"
                /\ pc' = "rollback"
                /\ UNCHANGED <<image, changed, unsettled, unrecorded>>
             \/ /\ pc = "rollback"
                /\ pc' = "failing"
                /\ image' \in InFlight
                /\ changed' = 0
                /\ unsettled' = (unsettled \/ changed > 0)
                /\ UNCHANGED unrecorded
             \/ /\ pc = "verified"
                /\ pc' = "failing"
                /\ changed' = 0
                /\ unrecorded' = TRUE
                /\ UNCHANGED <<image, unsettled>>
          /\ UNCHANGED <<outside, github, marker, failed, sha, previous, verified>>

status == [prepare |-> "in_progress", failed |-> "failure", report |-> "success"]

Posted == {github} \cup (IF pc \in DOMAIN status
                         THEN {[github EXCEPT ![sha] = status[pc]]} ELSE {})

Written == {failed} \cup (IF pc = "failing" THEN {Torn} ELSE {})

(* The process is killed, or an exception nobody catches ends it: a failed    *)
(* call of gh, SIGTERM outside of deploy().                                   *)
Exits == /\ pc # "idle"
         /\ faults < MaxFaults
         /\ faults' = faults + 1
         /\ image' \in InFlight
         /\ github' \in Posted
         /\ failed' \in Written
         /\ pc' = "idle"
         /\ changed' = 0
         /\ unsettled' = (unsettled \/ (pc # "verified" /\ (changed > 0 \/ image' # image)))
         /\ unrecorded' = (unrecorded \/ pc = "verified")
         /\ UNCHANGED <<outside, marker, sha, previous, verified>>

-----------------------------------------------------------------------------
Agent == \/ Prepare \/ ReadBaseline \/ RollOut \/ Verify \/ RollBack \/ RolledBack
         \/ Hold \/ ReportFailure \/ Deployed \/ ReportSuccess \/ Reported

Next == \/ Push
        \/ \E r \in Releases : CIPasses(r)
        \/ Start
        \/ Agent
        \/ Raises
        \/ Exits

Spec == Init /\ [][Next]_vars

(* The timer starts the agent again and again, and a running agent gets on:   *)
(* each of its commands has a timeout.                                        *)
FairSpec == Spec /\ WF_vars(Start) /\ WF_vars(Agent)

-----------------------------------------------------------------------------
(* Types. *)
Phases == {"idle", "prepare", "deploy", "rollout", "rollback", "failing", "failed",
           "verified", "report", "reported"}

TypeOK == /\ head \in Releases
          /\ built \subseteq Releases
          /\ github \in [Releases -> {NoStatus, "in_progress", "failure", "success"}]
          /\ image \in [SERVICES -> Releases]
          /\ marker \in [sha : Releases, status_reported : BOOLEAN]
          /\ failed \in Releases \cup {None, Torn}
          /\ pc \in Phases
          /\ sha \in Releases
          /\ previous \in [SERVICES -> Releases]
          /\ changed \in 0 .. NumServices
          /\ verified \in Releases
          /\ unsettled \in BOOLEAN
          /\ unrecorded \in BOOLEAN
          /\ faults \in 0 .. MaxFaults

(* A failed rollout puts back what it had changed, wherever it failed, unless  *)
(* it is cut off or a rollback fails, and no complete release follows.         *)
Whole == pc \notin {"rollout", "rollback"} /\ ~unsettled
           => \A s \in SERVICES : image[s] = verified

(* A release that was verified is the one of deployed.json, unless a run ended *)
(* between the two, and no later one got there.                                *)
Recorded == pc # "verified" /\ ~unrecorded => verified = marker.sha

(* Outside of a rollout every service names the release that was last          *)
(* verified, and that is the one of deployed.json.                             *)
OneRelease == Whole /\ Recorded

(* What GitHub is told is true and final (DeploymentRecord): a success was on  *)
(* every service, also when a later run sends the status that an earlier one   *)
(* could not; a release reported as failed is never tried again, although      *)
(* failed.json names one release only; deployed.json never goes back.          *)
Record == INSTANCE DeploymentRecord WITH
  Services <- SERVICES, live <- image, deployed <- marker.sha, told <- github

Truthful == Record!Spec

(* When main rests at a commit that CI has built, its release ends up on every *)
(* service with GitHub told of it, or is held, whatever was cut off before;    *)
(* but an agent cut off while it writes failed.json can stop every later one.  *)
Live == /\ marker = [sha |-> head, status_reported |-> TRUE]
        /\ github[head] = "success"
        /\ \A s \in SERVICES : image[s] = head
Held == failed \in {head, Torn}
Settled == <>[](head \in built) => <>[](Live \/ Held)
=============================================================================
