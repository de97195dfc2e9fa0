-------------------------- MODULE DeploymentRecord --------------------------
(***************************************************************************)
(* What the deployment page of the repository on GitHub promises to who    *)
(* reads it, whatever the release agent goes through: each release is told *)
(* of in the order pending, in progress, and then success or failure for   *)
(* good; a success was on every service when it was told; a release that   *)
(* was told to have failed is never tried again; deployments only go       *)
(* forward; and no service is touched but for a release in progress.       *)
(***************************************************************************)
EXTENDS Integers

CONSTANTS Services, Releases   \* releases are numbers, in the order of main

VARIABLES
  live,      \* the release of each service
  deployed,  \* the last release that was rolled out everywhere and verified
  told       \* the status of each release

Statuses == {"none", "in_progress", "failure", "success"}

Init ==
  /\ live = [s \in Services |-> 0]
  /\ deployed = 0
  /\ told = [r \in Releases |-> "none"]

\* Of the releases told of, r is the newest, and it is not deployed yet.
Newest(r) == r > deployed /\ \A later \in Releases : later > r => told[later] = "none"

Everywhere(r) == \A s \in Services : live[s] = r

\* A release is announced, or announced again after a run that came to nothing.
Begin(r) ==
  /\ Newest(r) /\ told[r] \in {"none", "in_progress"}
  /\ told' = [told EXCEPT ![r] = "in_progress"]
  /\ UNCHANGED <<live, deployed>>

\* A service is changed, forth or back, for the release in progress.
Change(r, s) ==
  /\ Newest(r) /\ told[r] = "in_progress"
  /\ \E image \in Releases : live' = [live EXCEPT ![s] = image]
  /\ UNCHANGED <<deployed, told>>

Deploy(r) ==
  /\ Newest(r) /\ told[r] = "in_progress" /\ Everywhere(r)
  /\ deployed' = r
  /\ UNCHANGED <<live, told>>

Succeed(r) ==
  /\ r = deployed /\ told[r] = "in_progress" /\ Everywhere(r)
  /\ told' = [told EXCEPT ![r] = "success"]
  /\ UNCHANGED <<live, deployed>>

Fail(r) ==
  /\ Newest(r) /\ told[r] = "in_progress"
  /\ told' = [told EXCEPT ![r] = "failure"]
  /\ UNCHANGED <<live, deployed>>

Next ==
  \E r \in Releases :
    \/ Begin(r) \/ Deploy(r) \/ Succeed(r) \/ Fail(r)
    \/ \E s \in Services : Change(r, s)

Spec == Init /\ [][Next]_<<live, deployed, told>>
=============================================================================
