---------------------------- MODULE AtomicUpdate ----------------------------
(***************************************************************************)
(* What an operator may rely on when panel_firmware.py updates a panel     *)
(* over Wi-Fi (docs/firmware-ota.md): whatever is lost, refused or         *)
(* restarted, an image enters the panel whole, by the boot the upload      *)
(* addressed and at most once; a failed upload never takes effect, and a   *)
(* confirmed one has seen its revision running in a later boot.            *)
(***************************************************************************)
EXTENDS Naturals, Sequences

CONSTANTS Uploads, Factory, Revision   \* as in OtaUpdate

VARIABLES
  ran,        \* the images the panel has booted, in order
  installed,  \* the uploads whose image the bootloader took
  began,      \* per upload: the boot it addresses, 0 before it knows
  result      \* per upload: what the operator is told

vars == <<ran, installed, began, result>>

Init ==
  /\ ran = <<Factory>>
  /\ installed = {}
  /\ began = [u \in Uploads |-> 0]
  /\ result = [u \in Uploads |-> "pending"]

\* The board restarts with the image it has.
Restart ==
  /\ ran' = Append(ran, ran[Len(ran)])
  /\ UNCHANGED <<installed, began, result>>

\* The uploader learns which boot answers.
Begin(u) ==
  /\ result[u] = "pending" /\ began[u] = 0
  /\ \E b \in 1..Len(ran) : began' = [began EXCEPT ![u] = b]
  /\ UNCHANGED <<ran, installed, result>>

\* The bootloader takes the image: never after a definite answer, never twice,
\* and not if the boot that was addressed has ended.
Install(u) ==
  /\ result[u] \notin {"failed", "success"} /\ u \notin installed
  /\ began[u] = Len(ran)
  /\ ran' = Append(ran, u) /\ installed' = installed \cup {u}
  /\ UNCHANGED <<began, result>>

Confirmed(u) ==
  /\ began[u] > 0
  /\ \E b \in began[u] + 1 .. Len(ran) : Revision[ran[b]] = Revision[u]

\* The operator is told how the upload ended.
Report(u, r) ==
  /\ result[u] = "pending"
  /\ r = "success" => Confirmed(u)
  /\ r = "failed" => u \notin installed
  /\ result' = [result EXCEPT ![u] = r]
  /\ UNCHANGED <<ran, installed, began>>

Next ==
  \/ Restart
  \/ \E u \in Uploads :
       \/ Begin(u) \/ Install(u)
       \/ \E r \in {"success", "failed", "uncertain"} : Report(u, r)

Spec == Init /\ [][Next]_vars
=============================================================================
