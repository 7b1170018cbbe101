--------------------------- MODULE MCJobProcessor ---------------------------
(* Instances of JobProcessor for TLC.  Job 1 never started, 2 and 3 are    *)
(* builds with three specs in common, two of which they traverse in        *)
(* opposite orders, and 4 is a failed build of the spec of 2.  That spec   *)
(* names no compiler, and 2 has a timing of the spec of 3.                 *)
EXTENDS JobProcessor

MCOutcome == [j \in Jobs |-> IF j = 4 THEN "failed" ELSE "success"]
MCDay     == [j \in Jobs |-> IF j = 3 THEN "monday" ELSE "sunday"]
MCSpecs   == [j \in Jobs |-> CASE j = 2 -> <<"curl", "ssl", "zlib">>
                               [] j = 3 -> <<"git", "zlib", "ssl", "curl">>
                               [] j = 4 -> <<"curl">>
                               [] OTHER -> <<>>]
MCTimings == [j \in Jobs |-> CASE j = 2 -> {"curl", "zlib", "git"}
                                 [] j = 3 -> {"git", "ssl", "curl"}
                                 [] OTHER -> {}]
MCMaxDeliveries == [j \in Jobs |-> CASE j = 3 -> 1 [] j = 4 -> 2 [] OTHER -> 0]
=============================================================================
