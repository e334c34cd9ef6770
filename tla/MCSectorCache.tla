---------------------------- MODULE MCSectorCache ----------------------------
(* SectorCache for TLC: three or four deadlines of a few epochs each.      *)
EXTENDS SectorCache

AnyLayout == [Deadlines -> {0, 1}]

=============================================================================
