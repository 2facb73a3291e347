----------------------------- MODULE MCPresence -----------------------------
EXTENDS Presence

MCMaps == {"starter_field", "crossroads"}
=============================================================================
