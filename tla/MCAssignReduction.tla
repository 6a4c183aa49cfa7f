-------------------------- MODULE MCAssignReduction --------------------------
(***************************************************************************)
(* AssignReduction for TLC: every launch of up to MaxGroups groups over up *)
(* to MaxSize elements, seen from each of its groups.                      *)
(***************************************************************************)
EXTENDS AssignReduction

CONSTANTS MaxGroups, MaxSize

AllLaunches ==
    {l \in [groups : 1 .. MaxGroups, group : 0 .. MaxGroups - 1,
            size : 0 .. MaxSize] : l.group < l.groups}
================================================================================
