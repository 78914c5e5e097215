----------------------------- MODULE MCDeploy -----------------------------
EXTENDS Deploy
Schema3 == <<1, 2, 3>>
============================================================================
