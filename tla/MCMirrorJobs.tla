---------------------------- MODULE MCMirrorJobs ----------------------------
(* MirrorJobs for TLC: what two develop pipelines concretize for two       *)
(* stacks, and which stacks of which ref build which hash, one of them     *)
(* twice.                                                                  *)
EXTENDS MirrorJobs, TLC

CONSTANTS s1, s2, a, b

MCGenerated == << (s1 :> {a} @@ s2 :> {b}), (s1 :> {b} @@ s2 :> {}) >>
MCBuilt   == {<<"develop", 1, a>>, <<"develop", 2, a>>, <<"release", 1, b>>}
MCRebuilt == {<<"develop", 1, a>>}
=============================================================================
