------------------------------ MODULE MCVoiceChat -----------------------------
\* VoiceChat needs nothing but values for its constants.
EXTENDS VoiceChat
===============================================================================
