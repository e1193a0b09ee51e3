----------------------------- MODULE MCRegistry -----------------------------
\* A wrapper with a watch thread, a bridge kept by hand, and a message of each: that of
\* the wrapper has an attachment.
EXTENDS Registry

MCBridgeOf == <<"imsg", "test">>

MCFileOf == <<"photo", "none">>

=============================================================================
