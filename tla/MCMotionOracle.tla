---------------------------- MODULE MCMotionOracle ----------------------------
EXTENDS MotionOracle, MCControllerAgent
=============================================================================
