----------------------------- MODULE MCTalkPoll -----------------------------
\* Five messages, one of them our own, the third in a room of its own.
EXTENDS TalkPoll

MCRoomOf == [m \in Msgs |-> IF m = 3 THEN "r2" ELSE "r1"]

=============================================================================
