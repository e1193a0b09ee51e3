-------------------------- MODULE MCIdentityClaim --------------------------
\* Ann and Cat on talk; Bob, and somebody whose name is Ann's, on imsg.
EXTENDS IdentityClaim

Account(b, u) == [bridge |-> b, user |-> u]

MCAccounts == {Account("talk", "ann"), Account("talk", "cat"),
               Account("imsg", "bob"), Account("imsg", "ann")}

=============================================================================
