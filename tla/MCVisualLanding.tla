--------------------------- MODULE MCVisualLanding --------------------------
EXTENDS VisualLanding
OneTag == {[n |-> 2, xy |-> 0, z |-> 2]}
HoverOfMux == From("mux", "Hover")
SomeMuxCmds == {HoverOfMux} \union
  {From(who, c) : who \in {"node", "demo"}, c \in {"Land", "Takeoff", "move"}}
=============================================================================
