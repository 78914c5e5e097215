----------------------------- MODULE MCHistory -----------------------------
EXTENDS HistoryRequirements
============================================================================
