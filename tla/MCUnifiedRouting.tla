-------------------------- MODULE MCUnifiedRouting --------------------------
\* Ann and Bob share a room on talk; Ann also has an account on imsg, which an
\* identity claim may make the same person, and a direct chat there.
EXTENDS UnifiedRouting, TLC

Seat(b, u, c) == [account |-> [bridge |-> b, user |-> u], chat |-> c]

MCSeats == {Seat("talk", "ann", "room"), Seat("talk", "bob", "room"),
            Seat("imsg", "ann2", "ann1")}

AnyName == Permutations(Threads)

=============================================================================
