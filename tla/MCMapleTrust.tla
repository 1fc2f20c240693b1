---------------------------- MODULE MCMapleTrust ----------------------------
(* Model values for the runs of MapleTrust.                                *)
EXTENDS MapleTrust

\* Nothing, or an occlusion to the left.
MCMasks == {{}, {1}}
=============================================================================
