--------------------------- MODULE MCGoogleLogin ----------------------------
EXTENDS GoogleLogin
=============================================================================
