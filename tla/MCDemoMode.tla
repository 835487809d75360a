----------------------------- MODULE MCDemoMode -----------------------------
EXTENDS DemoMode
=============================================================================
