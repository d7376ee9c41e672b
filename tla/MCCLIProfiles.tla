--------------------------- MODULE MCCLIProfiles ---------------------------
EXTENDS CLIProfiles, TLC

CONSTANTS s1, s2

MCDerived == (s1 :> 1) @@ (s2 :> 2)
=============================================================================
