------------------------ MODULE MCControllerRefinement ------------------------
EXTENDS ControllerRefinement, MCControllerAgent
=============================================================================
