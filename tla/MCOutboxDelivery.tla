-------------------------- MODULE MCOutboxDelivery --------------------------
\* Three messages, the first by a cron process: it may stay torn at the head
\* of the list, in front of two of the gateway whose order matters.
EXTENDS OutboxDelivery

MCCronMsgs == {1}

=============================================================================
