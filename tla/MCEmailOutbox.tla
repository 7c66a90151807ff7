--------------------------- MODULE MCEmailOutbox ---------------------------
(***************************************************************************)
(* Small instance of EmailOutbox: two workers whose containers give them   *)
(* the same process id, hence the same lease owner.                        *)
(***************************************************************************)
EXTENDS EmailOutbox

MCOwnerOf == [w \in Workers |-> "email-1"]
=============================================================================
