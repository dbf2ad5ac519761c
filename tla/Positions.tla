------------------------------ MODULE Positions ------------------------------
(***************************************************************************)
(* The two ways to name a place in a publication, side by side: a content  *)
(* fragment identifier and a position in the media overlays.  They do not  *)
(* interact: a behaviour is one of the first or one of the second.         *)
(***************************************************************************)
EXTENDS CFI, MediaOverlays

Init == CFIInit /\ OverlaysInit
Next == \/ pc = "start" /\ CFINext /\ UNCHANGED overlays
        \/ cfi = Empty /\ OverlaysNext /\ UNCHANGED fragment
Spec == Init /\ [][Next]_<<fragment, overlays>>
=============================================================================
