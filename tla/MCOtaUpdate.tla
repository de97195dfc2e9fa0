---------------------------- MODULE MCOtaUpdate ----------------------------
(* Instances of OtaUpdate for TLC; the bounds are in the .cfg files. *)
EXTENDS OtaUpdate

CONSTANTS rebuild, update   \* the uploads

\* "rebuild" is the revision the board has, built again; "update" is a new one.
MCRevision == [image \in {rebuild, update, Factory} |->
                 IF image = update THEN "new" ELSE "old"]
=============================================================================
