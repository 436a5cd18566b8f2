----------------------------- MODULE BuildTree -----------------------------
(***************************************************************************)
(* What the build lease promises: a build tree that changes only while     *)
(* nobody holds it.  Holders come and go one at a time; a change may be    *)
(* any (the tree moved aside, half-written, rebuilt, restored).            *)
(***************************************************************************)
CONSTANTS Procs, Contents

VARIABLES holders, content

Init == holders = {} /\ content \in Contents

Hold(p) == p \notin holders /\ holders' = holders \cup {p} /\ UNCHANGED content

Drop(p) == p \in holders /\ holders' = holders \ {p} /\ UNCHANGED content

Change == holders = {} /\ content' \in Contents /\ UNCHANGED holders

Next == Change \/ \E p \in Procs : Hold(p) \/ Drop(p)

Spec == Init /\ [][Next]_<<holders, content>>
=============================================================================
