---------------------------- MODULE MCTTSHealth -----------------------------
EXTENDS TTSHealth
=============================================================================
