-------------------------- MODULE MCBoardPage --------------------------
EXTENDS BoardPage, TLC
========================================================================
