------------------------- MODULE MCHandlerLifecycle -------------------------
(* Values of the constants for the runs of HandlerLifecycle. *)
EXTENDS HandlerLifecycle

CONSTANTS f1, f2, f3  \* places for frames

\* Two frames live at a time; the third lets a place be used again or not.
ThreePlaces == {f1, f2, f3}
=============================================================================
