---------------------------- MODULE MCFormation -----------------------------
EXTENDS SwarmFormation
TheOrigin == <<"origin", 0>>
A == <<"a", 0>>
B == <<"b", 0>>
AB == <<A, B>>
BA == <<B, A>>
OnlyB == {B}
Fleet == {[type |-> 0, id |-> 1], [type |-> 1, id |-> 1]}
UavOne == {[type |-> 0, id |-> 1]}
=============================================================================
