--------------------------- MODULE MCVoicePanels ---------------------------
EXTENDS VoicePanels, TLC
===========================================================================
