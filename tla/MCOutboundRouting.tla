------------------------- MODULE MCOutboundRouting -------------------------
(* Two wrappers; the first member joined from both, named one address     *)
(* twice, and shares the other one with the second member.                *)
EXTENDS OutboundRouting

At(b, c) == [bridge |-> b, chat |-> c]
TwoMembers == << <<At("imsg", "c"), At("talk", "c"), At("imsg", "c")>>,
                 <<At("talk", "c")>> >>
OneMisfit == {<<"talk", "family">>}
=============================================================================
