--------------------------- MODULE MCNativeHandles ----------------------------
(***************************************************************************)
(* Instances of NativeHandles for TLC.  Every object is opened: in the C   *)
(* ABI the last one finds the counter used up, in the Android bridge the   *)
(* counters have wrapped.                                                  *)
(***************************************************************************)
EXTENDS NativeHandles

SmallCounters == [b \in {"ffi", "jni"} |-> IF b = "ffi" THEN 3 ELSE 1]
===============================================================================
