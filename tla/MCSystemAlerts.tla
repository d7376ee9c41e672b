--------------------------- MODULE MCSystemAlerts ---------------------------
EXTENDS SystemAlerts, TLC
Symmetry == Permutations(Admins)
=============================================================================
