-------------------------- MODULE MCInboxDelivery --------------------------
(* Two bridges.  On "talk" an id-carrying file that is written twice (a      *)
(* wrapper retry) and an id-less one; on "imsg" a file with the same local   *)
(* id, written in place.                                                     *)
EXTENDS InboxDelivery

MCFiles == {"t1", "bare", "i1"}
MCBridgeOrder == <<"talk", "imsg">>
MCBridgeOf == [f \in MCFiles |-> IF f = "i1" THEN "imsg" ELSE "talk"]
MCIdOf == [f \in MCFiles |-> IF f = "bare" THEN NoId ELSE "id1"]
MCMayHold ==
    [f \in MCFiles |->
        CASE f = "t1"   -> {"chat"}
          [] f = "bare" -> {"chat", "absorbed", "reaction", "malformed", "link"}
          [] f = "i1"   -> {"chat", "refused", "nosender", "corrupt"}]
MCMaxWrites == [f \in MCFiles |-> IF f = "t1" THEN 2 ELSE 1]

============================================================================
