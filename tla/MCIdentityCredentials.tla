------------------------ MODULE MCIdentityCredentials ------------------------
(***************************************************************************)
(* Small instances of IdentityCredentials: two requests at a time, two     *)
(* passwords, two links of each purpose and one or two sessions.           *)
(***************************************************************************)
EXTENDS IdentityCredentials, TLC

Symmetry == Permutations(Requests) \cup Permutations(Resets)
              \cup Permutations(Sessions)
=============================================================================
