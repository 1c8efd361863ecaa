---------------------------- MODULE MCAsyncSpsc -----------------------------
EXTENDS AsyncSpsc, TLC
AnyOrder == Permutations(Futures)
=============================================================================
