----------------------------- MODULE MCSession -----------------------------
\* One client that connects twice, is suspended once and changes its shape twice.
EXTENDS Session
=============================================================================
