------------------------- MODULE MCAsyncOwnership -------------------------
EXTENDS AsyncOwnership, TLC
==========================================================================
