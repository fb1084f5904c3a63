------------------------- MODULE MCTemporalTestData -------------------------
(***************************************************************************)
(* A block in which the owner and a helper work on a subject and on        *)
(* attachments, each of which may have been there before; a person whose   *)
(* NIP no request takes comes between the two in the clean-up.             *)
(***************************************************************************)
EXTENDS TemporalTestData

MCItems == {"attachments", "nobody", "subject"}
MCCategory == [i \in MCItems |-> CASE i = "attachments" -> 2 [] i = "nobody" -> 4 [] OTHER -> 5]
MCMalformed == {"nobody"}
=============================================================================
