--------------------------- MODULE MCImsgInbound ---------------------------
\* Four messages in two chats, one of them our own; a poll returns the two
\* newest messages of a chat, so that the three of chat "a" overflow it.
EXTENDS ImsgInbound

MCChatOf == <<"a", "a", "b", "a">>
MCOwn    == {2}

=============================================================================
