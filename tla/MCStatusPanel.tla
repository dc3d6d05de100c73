--------------------------- MODULE MCStatusPanel ---------------------------
(***************************************************************************)
(* Two repositories, two handlers at once, two panels per history; what a  *)
(* user and the agent do is split into mixes that exercise one another.    *)
(***************************************************************************)
EXTENDS StatusPanel

CONSTANTS R1, R2

MCSections == <<"home", "roadmap">>

Pinned == [mode |-> "pin", pinned |-> R1, last |-> R2]

MCMixes == {
    [ops |-> {"turn", "tool", "off", "auto"}, panels |-> 0, saved |-> {Torn, Pinned}],
    [ops |-> {"turn", "pin"}, panels |-> 0, saved |-> {Torn, Pinned}],
    [ops |-> {"turn", "altw", "status"}, panels |-> 2, saved |-> {Torn, Pinned}],
    [ops |-> {"altw", "statusOf"}, panels |-> 2, saved |-> {Torn}],
    [ops |-> {"altw", "switch"}, panels |-> 2, saved |-> {Pinned}],
    [ops |-> {"altw", "switch", "block", "browse"}, panels |-> 1, saved |-> {Pinned}],
    [ops |-> {"turn", "show", "cycle"}, panels |-> 0, saved |-> {Pinned}],
    [ops |-> {"show", "altw"}, panels |-> 1, saved |-> {Pinned}],
    [ops |-> {"show", "unpin"}, panels |-> 0, saved |-> {Pinned}],
    [ops |-> {"show", "repin"}, panels |-> 0, saved |-> {Pinned}]}
=============================================================================
