------------------------------ MODULE MCMapleK ------------------------------
(* Model values and the masks the lidar sees in the runs of MapleK.        *)
EXTENDS MapleK

\* For a half turn of three cells: far to both sides, farther to the left, and
\* farther to the right.  The masks that two of these have in common are on the
\* left only, on the right only, and as far to the left as to the right; so there
\* is one for each case of the planner, the one that fails included.
MCMasks == {{}, {-2, 2}, {-2, -1, 1}, {-1, 1, 2}}

\* A wide occlusion, and the same angle occluded on both sides of the robot.
MCMasksBothSides == {{}, {-2, 1}, {-1, 0, 1}}

=============================================================================
