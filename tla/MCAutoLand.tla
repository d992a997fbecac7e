----------------------------- MODULE MCAutoLand -----------------------------
EXTENDS AutoLandByPose
Reading(n, xy, z) == [n |-> n, xy |-> xy, z |-> z]
SomeTags == {Reading(2, 0, 0), Reading(2, 0, 1), Reading(2, 0, 2), Reading(1, 0, 2),
             Reading(2, 2, 3), Reading(1, 1, 4), Reading(4, 0, 4)}
=============================================================================
