------------------------ MODULE EngagementLifecycle ------------------------
(***************************************************************************)
(* What the platform promises of one engagement's encrypted content, with  *)
(* no keys, locks, transactions or workflows in sight: content is sealed   *)
(* while the engagement is live, a shred ends that for good, and only the  *)
(* content of a shredded engagement is ever blanked.                       *)
(***************************************************************************)

CONSTANT Rows       \* the encrypted column values an engagement can hold

VARIABLES live,     \* the data encryption key still exists
          sealed    \* the rows that carry ciphertext

vars == <<live, sealed>>

Init == live = TRUE /\ sealed = {}

(* A crypto session commits ciphertext. *)
Seal == /\ live
        /\ \E W \in SUBSET Rows : sealed' = sealed \cup W
        /\ UNCHANGED live

(* The key is destroyed; the ciphertext stays behind, unreadable. *)
Shred == live /\ live' = FALSE /\ UNCHANGED sealed

(* Dead ciphertext is blanked. *)
Purge == /\ ~live
         /\ \E P \in SUBSET Rows : sealed' = sealed \ P
         /\ UNCHANGED live

Next == Seal \/ Shred \/ Purge

Spec == Init /\ [][Next]_vars
=============================================================================
