----------------------------- MODULE MCMemory ------------------------------
(* An instance of Memory for TLC: the boot with every map of two entries
   below MapTop, and the allocator on two larger maps: one whose kernel lies
   inside an entry, and one of adjacent entries. *)
EXTENDS Memory

CONSTANT MapTop

Entry == {e \in [start : 0..MapTop, end : 0..MapTop, available : BOOLEAN] : e.start < e.end}
TwoEntryMaps ==
  UNION {{<<e, f>> : f \in {g \in Entry : e.end <= g.start}} : e \in Entry}

Ram(s, e) == [start |-> s, end |-> e, available |-> TRUE]
FollowedMaps == {<<Ram(0, 19), Ram(20, 29)>>,
                 <<Ram(0, 2), Ram(6, 14), Ram(14, 20), Ram(20, 26)>>}
AllMaps == TwoEntryMaps \cup FollowedMaps

\* TLC keeps the value of BootLayouts; it would work out a replacement anew
\* in every state.
AllLayouts == BootLayouts
=============================================================================
