------------------------------- MODULE MCEgo --------------------------------
EXTENDS EgoFlight
CONSTANTS g1, g2
Routes == {<<>>, <<g1, g2>>}
=============================================================================
