---- MODULE RealtimeBase ----
(***************************************************************************)
(* What the modules of the realtime path share.                            *)
(***************************************************************************)

CONSTANTS
    Projects, \* projects, that may send notifications and have subscribers
    Tables    \* tables whose changes are announced
====
