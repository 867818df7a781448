----------------------- MODULE MCContactSuppression -----------------------
\* The instance of ContactSuppression for TLC: its constants are model values
\* and numbers, so that it defines nothing.
EXTENDS ContactSuppression
=============================================================================
