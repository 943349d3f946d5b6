------------------------------ MODULE MCHeap ------------------------------
(* NarcHeap with two size classes, four physical pages and a window of four. *)
EXTENDS NarcHeap

ClassSizes == <<2, 3>>

\* No guard reads what the kernel asked for.
Shape == <<heap, DOMAIN live, others>>
=============================================================================
