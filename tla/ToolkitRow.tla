----------------------------- MODULE ToolkitRow ------------------------------
(* What the components around the claim protocol run on.  A behaviour is   *)
(* one of one component, the subject, chosen at the start: no two of them  *)
(* share state that either of their modules leaves out, so running them    *)
(* side by side would only multiply their states.  Their variables take    *)
(* the first of a common row, x1 to x16, and what a component leaves over  *)
(* of the row stays blank.                                                 *)

(* What stands for "nothing here" in components of several groups, and the *)
(* settings several of them read.                                          *)
CONSTANTS
    Idle, None, Absent, Torn, Root,
    Stagnation      \* coordinator.branch_stagnation

VARIABLES subject, x1, x2, x3, x4, x5, x6, x7, x8, x9, x10, x11, x12, x13, x14, x15, x16

Rest2 == <<subject, x3, x4, x5, x6, x7, x8, x9, x10, x11, x12, x13, x14, x15, x16>>
Rest3 == <<subject, x4, x5, x6, x7, x8, x9, x10, x11, x12, x13, x14, x15, x16>>
Rest4 == <<subject, x5, x6, x7, x8, x9, x10, x11, x12, x13, x14, x15, x16>>
Rest5 == <<subject, x6, x7, x8, x9, x10, x11, x12, x13, x14, x15, x16>>
Rest7 == <<subject, x8, x9, x10, x11, x12, x13, x14, x15, x16>>
Rest8 == <<subject, x9, x10, x11, x12, x13, x14, x15, x16>>
Rest9 == <<subject, x10, x11, x12, x13, x14, x15, x16>>
Rest11 == <<subject, x12, x13, x14, x15, x16>>
Rest12 == <<subject, x13, x14, x15, x16>>
Rest13 == <<subject, x14, x15, x16>>
Blank13 == x14 = None /\ x15 = None /\ x16 = None
Blank12 == x13 = None /\ Blank13
Blank11 == x12 = None /\ Blank12
Blank9 == x10 = None /\ x11 = None /\ Blank11
Blank8 == x9 = None /\ Blank9
Blank7 == x8 = None /\ Blank8
Blank5 == x6 = None /\ x7 = None /\ Blank7
Blank4 == x5 = None /\ Blank5
Blank3 == x4 = None /\ Blank4
Blank2 == x3 = None /\ Blank3

pool == <<x1, x2, x3, x4, x5, x6, x7, x8, x9, x10, x11, x12, x13, x14, x15, x16>>
vars == <<subject, pool>>
=============================================================================
