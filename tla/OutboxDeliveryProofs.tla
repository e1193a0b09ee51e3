------------------------ MODULE OutboxDeliveryProofs ------------------------
(***************************************************************************)
(* The outbox is a MessageChannel, repeats only what a fault pays for and  *)
(* sends the oldest first, for every number of messages, every set of cron *)
(* messages, every cleanup age and any number of faults.                   *)
(***************************************************************************)
EXTENDS OutboxDelivery, Functions, FiniteSetTheorems, SequenceTheorems, TLAPS

----------------------------------------------------------------------------
(* Types. *)

Drains == [at : {"idle", "list", "next", "send", "reached", "unlink"},
           found : SUBSET Msgs, todo : Seq(Msgs), msg : Msgs \cup {0}]

Files == [Msgs -> Contents \cup {"none", "torn", "gone"}]
Ages  == [Msgs -> 0..(MaxAge + 1)]

\* A listing has the messages found in it, in a sequence.
LEMMA ListingType ==
    ASSUME NEW S \in SUBSET Msgs, NEW s \in ByMtime(S)
    PROVE  s \in Seq(Msgs)
<1>1. IsFiniteSet(Msgs)
  <2>1. 1 \in Int /\ NMsgs \in Int
    BY OutboxAssumption
  <2> QED
    BY <2>1, FS_Interval DEF Msgs
<1>2. Cardinality(S) \in Nat
  BY <1>1, FS_Subset, FS_CardinalityType
<1>3. s \in [1..Cardinality(S) -> Msgs]
  BY DEF ByMtime
<1> QED
  BY <1>2, <1>3, SeqDef

LEMMA InitType == Init => TypeOK
<1> SUFFICES ASSUME Init
             PROVE  TypeOK
  OBVIOUS
<1>1. Idle \in Drains
  BY EmptySeq DEF Idle, Drains
<1> QED
  BY <1>1, OutboxAssumption DEF Init, TypeOK, Drains, Contents, Idle, Msgs

LEMMA WritersType == TypeOK /\ Writers => TypeOK'
<1> SUFFICES ASSUME TypeOK, NEW m \in Msgs,
                    GatewayWrites(m) \/ GatewayFailsToWrite(m)
                    \/ CronCreates(m) \/ CronCompletes(m)
             PROVE  TypeOK'
  BY DEF Writers
<1>1. PICK c \in Contents \cup {"torn", "gone"} : Written(m, c)
  BY DEF GatewayWrites, GatewayFailsToWrite, CronCreates, CronCompletes, Contents
<1> QED
  BY <1>1, OutboxAssumption DEF TypeOK, Written, Contents

LEMMA TimeType == TypeOK /\ (Tick \/ \E m \in Msgs : CleansUp(m)) => TypeOK'
<1> SUFFICES ASSUME TypeOK, Tick \/ \E m \in Msgs : CleansUp(m)
             PROVE  TypeOK'
  OBVIOUS
<1>1. CASE Tick
  <2>1. \A m \in Msgs : Older(m) \in 0..(MaxAge + 1)
    BY OutboxAssumption DEF Older, TypeOK
  <2> QED
    BY <1>1, <2>1 DEF Tick, TypeOK, history
<1>2. ASSUME NEW m \in Msgs, CleansUp(m)
      PROVE  TypeOK'
  <2>1. age' \in Ages
    BY <1>2, OutboxAssumption DEF CleansUp, TypeOK, Ages
  <2> QED
    BY <1>2, <2>1 DEF CleansUp, TypeOK, Contents, Ages
<1> QED
  BY <1>1, <1>2

LEMMA RemovesType ==
    ASSUME TypeOK, NEW m, Removes(m)
    PROVE  file' \in Files /\ age' \in Ages
<1>1. file \in Files /\ age \in Ages
  BY DEF TypeOK, Files, Ages
<1>2. 0 \in 0..(MaxAge + 1)
  BY OutboxAssumption
<1>3. file' \in Files
  BY <1>1 DEF Removes, Files
<1>4. age' \in Ages
  BY <1>1, <1>2 DEF Removes, Ages
<1> QED
  BY <1>3, <1>4

\* A fault is paid from the budget.
LEMMA FaultType ==
    ASSUME TypeOK, faults < MaxFaults
    PROVE  faults + 1 \in 0..MaxFaults
BY OutboxAssumption DEF TypeOK

\* What is left of the list after its head is a list.
LEMMA TodoType ==
    ASSUME TypeOK, drain.todo # <<>>
    PROVE  Tail(drain.todo) \in Seq(Msgs)
BY HeadTailProperties DEF TypeOK

\* The steps that list the directory and the end of a sweep.
LEMMA SweepType ==
    TypeOK /\ (ListBegins \/ ListEnds \/ StatFails \/ SweepEnds \/ WrapperCrashes)
        => TypeOK'
<1> SUFFICES ASSUME TypeOK, ListBegins \/ ListEnds \/ StatFails \/ SweepEnds
                            \/ WrapperCrashes
             PROVE  TypeOK'
  OBVIOUS
<1> USE DEF TypeOK, DrainOnly, Keeps, Present
<1>0. 0 \notin Msgs
  BY DEF Msgs
<1>1. CASE ListBegins
  BY <1>0, <1>1, EmptySeq DEF ListBegins, Idle
<1>2. CASE ListEnds
  <2>1. PICK new \in SUBSET (Present \ drain.found) :
            \E s \in ByMtime(drain.found \cup new) :
                drain' = [drain EXCEPT !.at = "next", !.todo = s]
    BY <1>2 DEF ListEnds
  <2>2. PICK s \in ByMtime(drain.found \cup new) :
            drain' = [drain EXCEPT !.at = "next", !.todo = s]
    BY <2>1
  <2>3. drain.found \cup new \in SUBSET Msgs
    OBVIOUS
  <2>4. s \in Seq(Msgs)
    BY <2>3, ListingType
  <2> QED
    BY <1>2, <2>2, <2>4 DEF ListEnds
<1>3. CASE StatFails
  BY <1>0, <1>3, EmptySeq DEF StatFails, Idle
<1>5. CASE SweepEnds
  BY <1>0, <1>5, EmptySeq DEF SweepEnds, Idle
<1>4. CASE WrapperCrashes
  BY <1>0, <1>4, EmptySeq, FaultType DEF WrapperCrashes, Idle, history
<1> QED
  BY <1>1, <1>2, <1>3, <1>4, <1>5

\* The steps that take the next file of the list.
LEMMA FileType ==
    ASSUME TypeOK, NEW m \in Msgs,
           Skips(m) \/ CutCharacter(m) \/ Consumes(m) \/ ConsumeFails(m) \/ Reads(m)
    PROVE  TypeOK'
<1>0. 0 \notin Msgs
  BY DEF Msgs
<1>1. Tail(drain.todo) \in Seq(Msgs)
  BY TodoType DEF Skips, CutCharacter, Consumes, ConsumeFails, Reads, NextIs
<1> USE DEF TypeOK, DrainOnly, Keeps, NextIs
<1>2. CASE Skips(m)
  BY <1>1, <1>2 DEF Skips
<1>3. CASE CutCharacter(m)
  BY <1>0, <1>3, EmptySeq DEF CutCharacter, Idle
<1>4. CASE Consumes(m)
  <2>1. file' \in Files /\ age' \in Ages
    BY <1>4, RemovesType DEF Consumes
  <2> QED
    BY <1>1, <1>4, <2>1 DEF Consumes, Files, Ages
<1>5. CASE ConsumeFails(m)
  BY <1>0, <1>1, <1>5, EmptySeq, FaultType DEF ConsumeFails, Idle
<1>6. CASE Reads(m)
  BY <1>1, <1>6 DEF Reads
<1> QED
  BY <1>2, <1>3, <1>4, <1>5, <1>6

\* The steps of a send and of the removal after it.
LEMMA SendType ==
    TypeOK /\ (\/ PlatformTakes \/ SendReturns \/ SendFailsAndReturns \/ SendRaises
               \/ Unlinks \/ UnlinkFails)
        => TypeOK'
<1> SUFFICES ASSUME TypeOK, \/ PlatformTakes \/ SendReturns \/ SendFailsAndReturns
                            \/ SendRaises \/ Unlinks \/ UnlinkFails
             PROVE  TypeOK'
  OBVIOUS
<1>0. 0 \notin Msgs
  BY DEF Msgs
<1> USE DEF TypeOK, DrainOnly, Keeps
<1>1. CASE PlatformTakes
  <2>1. sent' \in [Msgs -> 0..2]
    BY <1>1 DEF PlatformTakes
  <2> QED
    BY <1>1, <2>1 DEF PlatformTakes
<1>2. CASE SendReturns
  BY <1>2 DEF SendReturns
<1>3. CASE SendFailsAndReturns
  BY <1>3 DEF SendFailsAndReturns
<1>4. CASE SendRaises
  BY <1>0, <1>4, FaultType DEF SendRaises
<1>5. CASE Unlinks
  <2>1. file' \in Files /\ age' \in Ages
    BY <1>5, RemovesType DEF Unlinks
  <2> QED
    BY <1>0, <1>5, <2>1 DEF Unlinks, Files, Ages
<1>6. CASE UnlinkFails
  BY <1>0, <1>6, FaultType DEF UnlinkFails
<1> QED
  BY <1>1, <1>2, <1>3, <1>4, <1>5, <1>6

LEMMA TypeStep == TypeOK /\ [Next]_vars => TypeOK'
<1> SUFFICES ASSUME TypeOK, [Next]_vars
             PROVE  TypeOK'
  OBVIOUS
<1>1. CASE UNCHANGED vars
  BY <1>1 DEF vars, TypeOK
<1>2. CASE Writers
  BY <1>2, WritersType
<1>3. CASE Tick \/ \E m \in Msgs : CleansUp(m)
  BY <1>3, TimeType
<1>4. CASE Drain
  BY <1>4, SweepType, FileType, SendType DEF Drain
<1>5. CASE WrapperCrashes
  BY <1>5, SweepType
<1> QED
  BY <1>1, <1>2, <1>3, <1>4, <1>5 DEF Next

\* Type correctness: whatever the four actors do to the directory, every file,
\* age and drain stays of its type, for every number of messages and bound.
THEOREM OutboxTypeCorrect == Spec => []TypeOK
BY InitType, TypeStep, PTL DEF Spec

----------------------------------------------------------------------------
(* The outbox is a MessageChannel.  That a text which leaves was sent or is  *)
(* excused needs to know what the drain has done so far with the one in hand.*)

\* The steps around a sweep touch neither the files nor a message.
LEMMA SweepKeeps ==
    ASSUME TypeOK, ListBegins \/ ListEnds \/ StatFails \/ SweepEnds
    PROVE  /\ UNCHANGED <<file, accepted, aged, sent, swallowed>>
           /\ drain.at \in {"idle", "list", "next"}
           /\ drain'.at \in {"idle", "list", "next"}
<1> USE DEF DrainOnly, Keeps
<1>1. CASE ListBegins
  BY <1>1 DEF ListBegins, Idle
<1>2. CASE ListEnds
  BY <1>2 DEF ListEnds, TypeOK
<1>3. CASE StatFails
  BY <1>3 DEF StatFails, Idle
<1>4. CASE SweepEnds
  BY <1>4 DEF SweepEnds, Idle
<1> QED
  BY <1>1, <1>2, <1>3, <1>4

\* A whole text is accepted, an accepted one is whole or gone.
FileInv ==
    /\ \A m \in accepted : file[m] \in {"text", "gone"}
    /\ \A m \in Msgs : file[m] = "text" => m \in accepted

\* Only the cleanup takes the message in hand away, and after the send it
\* reached the platform or its failure was swallowed.
HandInv ==
    \A m \in Msgs : InHand(m) =>
        /\ m \in accepted
        /\ file[m] = "text" \/ m \in aged
        /\ drain.at = "reached" => sent[m] > 0
        /\ drain.at = "unlink" => sent[m] > 0 \/ m \in swallowed

OutInv == TypeOK /\ FileInv /\ HandInv

LEMMA InitOut == Init => OutInv
BY InitType DEF Init, OutInv, FileInv, HandInv, InHand, Idle

LEMMA OutStep == OutInv /\ [Next]_vars => OutInv'
<1> SUFFICES ASSUME OutInv, [Next]_vars
             PROVE  FileInv' /\ HandInv'
  BY TypeStep DEF OutInv
<1> USE DEF OutInv, FileInv, HandInv, InHand
<1>t. TypeOK
  OBVIOUS
\* Steps of the drain that leave the files, and take nothing in hand.
<1>1. CASE /\ UNCHANGED <<file, accepted, aged, sent, swallowed>>
           /\ drain'.at \in {"idle", "list", "next"}
  BY <1>1
<1>2. ASSUME NEW m \in Msgs, NEW c, Written(m, c),
             file[m] \in {"none", "torn"}, c \in {"text", "typing", "empty", "torn", "gone"}
      PROVE  FileInv' /\ HandInv'
  <2>1. m \notin accepted /\ file' = [file EXCEPT ![m] = c] /\ ~InHand(m)
    BY <1>2 DEF Written
  <2> QED
    BY <1>t, <1>2, <2>1 DEF Written, TypeOK
<1>3. CASE Writers
  BY <1>2, <1>3 DEF Writers, GatewayWrites, GatewayFailsToWrite, CronCreates,
                    CronCompletes, InTurn
<1>4. ASSUME NEW m \in Msgs, CleansUp(m)
      PROVE  FileInv' /\ HandInv'
  BY <1>t, <1>4 DEF CleansUp, TypeOK
<1>5. CASE Tick
  BY <1>5 DEF Tick, history
<1>6. CASE ListBegins \/ ListEnds \/ StatFails \/ SweepEnds
  BY <1>t, <1>1, <1>6, SweepKeeps
<1>7. ASSUME NEW m \in Msgs, Skips(m) \/ CutCharacter(m) \/ ConsumeFails(m)
      PROVE  FileInv' /\ HandInv'
  BY <1>t, <1>1, <1>7
  DEF Skips, CutCharacter, ConsumeFails, NextIs, DrainOnly, Keeps, Idle, TypeOK
<1>8. ASSUME NEW m \in Msgs, Consumes(m)
      PROVE  FileInv' /\ HandInv'
  BY <1>t, <1>8 DEF Consumes, NextIs, Removes, DrainOnly, TypeOK
<1>9. ASSUME NEW m \in Msgs, Reads(m)
      PROVE  FileInv' /\ HandInv'
  BY <1>t, <1>9 DEF Reads, NextIs, DrainOnly, Keeps, TypeOK
<1>10. CASE PlatformTakes
  <2>1. /\ drain.msg \in Msgs /\ InHand(drain.msg)
        /\ drain'.at = "reached" /\ drain'.msg = drain.msg
        /\ UNCHANGED <<file, accepted, aged, swallowed>>
    BY <1>t, <1>10 DEF PlatformTakes, DrainOnly, Keeps, TypeOK
  <2>2. sent[drain.msg] \in 0..2
    BY <1>t, <2>1 DEF TypeOK
  <2>3. sent'[drain.msg] > 0
    BY <1>t, <1>10, <2>1, <2>2 DEF PlatformTakes, TypeOK
  <2> QED
    BY <2>1, <2>3
<1>11. CASE SendReturns \/ SendFailsAndReturns
  BY <1>t, <1>11 DEF SendReturns, SendFailsAndReturns, DrainOnly, Keeps, TypeOK
<1>12. CASE SendRaises \/ UnlinkFails
  BY <1>t, <1>1, <1>12 DEF SendRaises, UnlinkFails, DrainOnly, Keeps, TypeOK
<1>13. CASE Unlinks
  BY <1>t, <1>13 DEF Unlinks, Removes, DrainOnly, TypeOK
<1>14. CASE WrapperCrashes
  BY <1>1, <1>14 DEF WrapperCrashes, history, Idle
<1>15. CASE UNCHANGED vars
  BY <1>15 DEF vars
<1> QED
  BY <1>3, <1>4, <1>5, <1>6, <1>7, <1>8, <1>9, <1>10, <1>11, <1>12, <1>13, <1>14,
     <1>15 DEF Next, Drain

\* Where nothing accepted changes hands, every place stays.
LEMMA PlaceStays ==
    ASSUME accepted' = accepted, \A m \in accepted : Held(m)' <=> Held(m)
    PROVE  Place' = Place
BY DEF Place

\* Where one accepted message is no longer held, it alone is out now.
LEMMA PlaceOut ==
    ASSUME NEW m \in Msgs, m \in accepted, accepted' = accepted, ~Held(m)',
           \A k \in accepted \ {m} : Held(k)' <=> Held(k)
    PROVE  Place' = [Place EXCEPT ![m] = "out"]
BY DEF Place

LEMMA RefinesStep == OutInv /\ [Next]_vars => [Channel!Next]_(Channel!vars)
<1> SUFFICES ASSUME OutInv, [Next]_vars
             PROVE  [Channel!Next]_(Channel!vars)
  OBVIOUS
<1>t. TypeOK
  BY DEF OutInv
<1> USE DEF OutInv, FileInv, HandInv
\* Steps that change nothing the channel sees.
<1>1. ASSUME UNCHANGED <<accepted, sent, swallowed, aged>>,
             \A m \in accepted : Held(m)' <=> Held(m)
      PROVE  [Channel!Next]_(Channel!vars)
  BY <1>1, PlaceStays DEF Channel!vars, Excused
\* A message that leaves is retired.
<1>2. ASSUME NEW m \in Msgs, m \in accepted, Held(m), ~Held(m)',
             UNCHANGED <<accepted, sent, swallowed>>, aged' \in {aged, aged \cup {m}},
             \A k \in accepted \ {m} : Held(k)' <=> Held(k),
             sent[m] > 0 \/ m \in swallowed \/ m \in aged'
      PROVE  Channel!Retire(m)
  <2>1. Place' = [Place EXCEPT ![m] = "out"]
    BY <1>2, PlaceOut
  <2>2. Place[m] = "held"
    BY <1>2 DEF Place
  <2> QED
    BY <1>2, <2>1, <2>2 DEF Channel!Retire, Excused
<1>3. ASSUME NEW m \in Msgs, NEW c, Written(m, c),
             file[m] \in {"none", "torn"}, c \in {"text", "typing", "empty", "torn", "gone"}
      PROVE  [Channel!Next]_(Channel!vars)
  <2>1. /\ m \notin accepted /\ ~InHand(m)
        /\ drain' = drain /\ file' = [file EXCEPT ![m] = c]
    BY <1>3 DEF Written
  <2>2. \A k \in accepted : Held(k)' <=> Held(k)
    BY <1>t, <2>1 DEF Held, InHand, TypeOK
  <2>3. CASE c = "text"
    <3>1. accepted' = accepted \cup {m} /\ Held(m)'
      BY <1>t, <1>3, <2>1, <2>3 DEF Written, Held, TypeOK
    <3>2. Place' = [Place EXCEPT ![m] = "held"]
      BY <2>2, <3>1 DEF Place
    <3>3. Place[m] = "absent"
      BY <2>1 DEF Place
    <3>4. Channel!Accept(m)
      BY <1>3, <3>2, <3>3 DEF Channel!Accept, Written, Excused
    <3> QED
      BY <3>4 DEF Channel!Next
  <2>4. CASE c # "text"
    BY <1>1, <1>3, <2>2, <2>4 DEF Written
  <2> QED
    BY <2>3, <2>4
<1>4. CASE Writers
  BY <1>3, <1>4 DEF Writers, GatewayWrites, GatewayFailsToWrite, CronCreates,
                    CronCompletes, InTurn
<1>5. ASSUME NEW m \in Msgs, CleansUp(m)
      PROVE  [Channel!Next]_(Channel!vars)
  <2>1. /\ UNCHANGED <<drain, accepted, sent, swallowed>>
        /\ file' = [file EXCEPT ![m] = "gone"]
        /\ \A k \in Msgs \ {m} : Held(k)' <=> Held(k)
        /\ accepted \subseteq Msgs /\ m \in DOMAIN file
    BY <1>t, <1>5 DEF CleansUp, Held, InHand, TypeOK
  <2>2. CASE file[m] # "text"
    <3>1. Held(m)' <=> Held(m)
      BY <2>1, <2>2 DEF Held, InHand
    <3> QED
      BY <1>1, <1>5, <2>1, <2>2, <3>1 DEF CleansUp
  <2>3. CASE file[m] = "text"
    <3>1. m \in accepted /\ Held(m) /\ aged' = aged \cup {m}
      BY <1>5, <2>3 DEF CleansUp, Held
    <3>2. CASE InHand(m)
      <4>1. Held(m)'
        BY <2>1, <3>2 DEF Held, InHand
      <4>2. Place' = Place /\ Place[m] = "held"
        BY <2>1, <3>1, <4>1, PlaceStays DEF Place
      <4>3. Channel!Excuse(m)
        BY <2>1, <3>1, <4>2 DEF Channel!Excuse, Excused
      <4> QED
        BY <4>3 DEF Channel!Next
    <3>3. CASE ~InHand(m)
      <4>1. ~Held(m)'
        BY <2>1, <3>3 DEF Held, InHand
      <4>2. Channel!Retire(m)
        BY <1>2, <2>1, <3>1, <4>1
      <4> QED
        BY <4>2 DEF Channel!Next
    <3> QED
      BY <3>2, <3>3
  <2> QED
    BY <2>2, <2>3
<1>6. CASE Tick
  BY <1>1, <1>6 DEF Tick, history, Held, InHand
<1>7. CASE ListBegins \/ ListEnds \/ StatFails \/ SweepEnds
  BY <1>t, <1>1, <1>7, SweepKeeps DEF Held, InHand
<1>8. ASSUME NEW m \in Msgs, Skips(m) \/ CutCharacter(m) \/ ConsumeFails(m)
      PROVE  [Channel!Next]_(Channel!vars)
  BY <1>t, <1>1, <1>8
  DEF Skips, CutCharacter, ConsumeFails, NextIs, DrainOnly, Keeps, Idle, Held,
      InHand, TypeOK
<1>9. ASSUME NEW m \in Msgs, Consumes(m)
      PROVE  [Channel!Next]_(Channel!vars)
  <2>1. m \notin accepted
    BY <1>9 DEF Consumes
  <2>2. \A k \in accepted : Held(k)' <=> Held(k)
    BY <1>t, <1>9, <2>1 DEF Consumes, NextIs, Removes, Held, InHand, TypeOK
  <2> QED
    BY <1>1, <1>9, <2>2 DEF Consumes, NextIs, DrainOnly
<1>10. ASSUME NEW m \in Msgs, Reads(m)
       PROVE  [Channel!Next]_(Channel!vars)
  <2>1. \A k \in accepted : Held(k)' <=> Held(k)
    BY <1>t, <1>10 DEF Reads, NextIs, Keeps, Held, InHand, TypeOK
  <2> QED
    BY <1>1, <1>10, <2>1 DEF Reads, NextIs, DrainOnly
<1>11. CASE PlatformTakes
  <2> PICK m \in Msgs : m = drain.msg
    BY <1>t, <1>11 DEF TypeOK, PlatformTakes
  <2>1. m \in accepted /\ Held(m)
    BY <1>t, <1>11 DEF PlatformTakes, TypeOK, InHand, Held
  <2>2. \A k \in accepted : Held(k)' <=> Held(k)
    BY <1>t, <1>11 DEF PlatformTakes, Keeps, Held, InHand, TypeOK
  <2>3. Place' = Place /\ Place[m] = "held"
    BY <1>11, <2>1, <2>2, PlaceStays DEF PlatformTakes, DrainOnly, Place
  <2>4. Channel!HandOver(m)
    BY <1>11, <2>3 DEF Channel!HandOver, PlatformTakes, DrainOnly, Excused
  <2> QED
    BY <2>1, <2>4 DEF Channel!Next
<1>12. CASE SendReturns
  BY <1>t, <1>1, <1>12 DEF SendReturns, DrainOnly, Keeps, Held, InHand, TypeOK
<1>13. CASE SendFailsAndReturns
  <2> PICK m \in Msgs : m = drain.msg
    BY <1>t, <1>13 DEF TypeOK, SendFailsAndReturns
  <2>1. m \in accepted /\ Held(m)
    BY <1>t, <1>13 DEF SendFailsAndReturns, TypeOK, InHand, Held
  <2>2. \A k \in accepted : Held(k)' <=> Held(k)
    BY <1>t, <1>13 DEF SendFailsAndReturns, Keeps, Held, InHand, TypeOK
  <2>3. Place' = Place /\ Place[m] = "held"
    BY <1>13, <2>1, <2>2, PlaceStays DEF SendFailsAndReturns, DrainOnly, Place
  <2>4. Excused' = Excused \cup {m}
    BY <1>13 DEF SendFailsAndReturns, DrainOnly, Excused
  <2>5. Channel!Excuse(m)
    BY <1>13, <2>3, <2>4 DEF Channel!Excuse, SendFailsAndReturns
  <2> QED
    BY <2>1, <2>5 DEF Channel!Next
\* The message in hand is let go: held still if its file is there, or retired.
<1>14. ASSUME drain.at \in {"send", "reached", "unlink"},
              drain'.at \in {"idle", "next"},
              UNCHANGED <<file, accepted, sent, swallowed, aged>>
       PROVE  [Channel!Next]_(Channel!vars)
  <2> PICK m \in Msgs : m = drain.msg
    BY <1>t, <1>14 DEF TypeOK
  <2>1. m \in accepted /\ InHand(m) /\ Held(m)
    BY <1>t, <1>14 DEF TypeOK, InHand, Held
  <2>2. \A k \in accepted \ {m} : Held(k)' <=> Held(k)
    BY <1>14 DEF Held, InHand
  <2>3. CASE file[m] = "text"
    <3>1. Held(m)'
      BY <1>14, <2>3 DEF Held
    <3> QED
      BY <1>1, <1>14, <2>1, <2>2, <3>1
  <2>4. CASE file[m] # "text"
    <3>1. m \in aged
      BY <2>1, <2>4
    <3>2. ~Held(m)'
      BY <1>14, <2>4 DEF Held, InHand
    <3>3. Channel!Retire(m)
      BY <1>2, <1>14, <2>1, <2>2, <3>1, <3>2
    <3> QED
      BY <2>1, <3>3 DEF Channel!Next
  <2> QED
    BY <2>3, <2>4
<1>15. CASE SendRaises \/ UnlinkFails
  BY <1>t, <1>14, <1>15 DEF SendRaises, UnlinkFails, DrainOnly, Keeps, TypeOK
<1>16. CASE Unlinks
  <2> PICK m \in Msgs : m = drain.msg
    BY <1>t, <1>16 DEF TypeOK, Unlinks
  <2>1. m \in accepted /\ InHand(m) /\ Held(m)
    BY <1>t, <1>16 DEF Unlinks, TypeOK, InHand, Held
  <2>2. /\ sent[m] > 0 \/ m \in swallowed
        /\ UNCHANGED <<accepted, sent, swallowed, aged>>
    BY <1>16, <2>1 DEF Unlinks, DrainOnly
  <2>3. /\ ~Held(m)'
        /\ \A k \in accepted \ {m} : Held(k)' <=> Held(k)
    BY <1>t, <1>16, <2>1 DEF Unlinks, Removes, Held, InHand, TypeOK
  <2>4. Channel!Retire(m)
    BY <1>2, <2>1, <2>2, <2>3
  <2> QED
    BY <2>1, <2>4 DEF Channel!Next
<1>17. CASE WrapperCrashes
  <2>1. CASE drain.at \in {"send", "reached", "unlink"}
    BY <1>14, <1>17, <2>1 DEF WrapperCrashes, history, Idle
  <2>2. CASE drain.at \notin {"send", "reached", "unlink"}
    BY <1>1, <1>17, <2>2 DEF WrapperCrashes, history, Idle, Held, InHand
  <2> QED
    BY <2>1, <2>2
<1>18. CASE UNCHANGED vars
  BY <1>1, <1>18 DEF vars, Held, InHand
<1> QED
  BY <1>4, <1>5, <1>6, <1>7, <1>8, <1>9, <1>10, <1>11, <1>12, <1>13, <1>15, <1>16,
     <1>17, <1>18 DEF Next, Drain

\* T-095: whatever the writers, the drain and the cleanup do to each other, a
\* text stays in the outbox until it was sent, unless it grew too old or its
\* send failed without raising, and nothing that has left is sent.
THEOREM RefinesChannel == Spec => ImplementsChannel
<1>1. Init => Channel!Init
  BY DEF Init, Channel!Init, Place, Excused
<1> QED
  BY <1>1, InitOut, OutStep, RefinesStep, PTL DEF Spec, ImplementsChannel, Channel!Spec

----------------------------------------------------------------------------
(* Repeats.  A text that was sent and may be sent again is owed to a fault,  *)
(* from the moment its drain lets it go.                                     *)

\* m was sent, and its file is read again or about to be sent again.
Again(m) ==
    /\ sent[m] > 0
    /\ file[m] = "text" \/ InHand(m)
    /\ InHand(m) => drain.at = "send"

Owed == {m \in Msgs : sent[m] > 1 \/ Again(m)}

PaidInv ==
    /\ \A m \in Msgs : sent[m] > 0 => m \in accepted
    /\ Cardinality(Owed) <= faults

LEMMA MsgsFinite == \A S \in SUBSET Msgs : IsFiniteSet(S) /\ Cardinality(S) \in Nat
<1>1. 1 \in Int /\ NMsgs \in Int
  BY OutboxAssumption
<1> QED
  BY <1>1, FS_Interval, FS_Subset, FS_CardinalityType DEF Msgs

\* A step that owes no more keeps the debt paid, one that owes one message more
\* must take a fault.
LEMMA Pays ==
    ASSUME TypeOK, PaidInv,
           \A m \in Msgs : sent'[m] > 0 => m \in accepted',
           \/ Owed' \subseteq Owed /\ faults' \in {faults, faults + 1}
           \/ \E m \in Msgs : Owed' \subseteq Owed \cup {m} /\ faults' = faults + 1
    PROVE  PaidInv'
<1>1. Owed \in SUBSET Msgs /\ Owed' \in SUBSET Msgs /\ faults \in Nat
  BY OutboxAssumption DEF Owed, TypeOK
<1>2. IsFiniteSet(Owed) /\ Cardinality(Owed) \in Nat /\ Cardinality(Owed') \in Nat
  BY <1>1, MsgsFinite
<1>3. CASE Owed' \subseteq Owed /\ faults' \in {faults, faults + 1}
  <2>1. Cardinality(Owed') <= Cardinality(Owed)
    BY <1>2, <1>3, FS_Subset
  <2> QED
    BY <1>1, <1>2, <1>3, <2>1 DEF PaidInv
<1>4. ASSUME NEW m \in Msgs, Owed' \subseteq Owed \cup {m}, faults' = faults + 1
      PROVE  PaidInv'
  <2>1. /\ IsFiniteSet(Owed \cup {m})
        /\ Cardinality(Owed \cup {m}) \in {Cardinality(Owed), Cardinality(Owed) + 1}
    BY <1>2, FS_AddElement
  <2>2. Cardinality(Owed') <= Cardinality(Owed \cup {m})
    BY <1>4, <2>1, FS_Subset
  <2> QED
    BY <1>1, <1>2, <1>4, <2>1, <2>2 DEF PaidInv
<1> QED
  BY <1>3, <1>4

LEMMA InitPaid == Init => PaidInv
<1> SUFFICES ASSUME Init
             PROVE  PaidInv
  OBVIOUS
<1>1. Owed = {} /\ \A m \in Msgs : ~(sent[m] > 0)
  BY DEF Init, Owed, Again
<1>2. Cardinality(Owed) = 0
  BY <1>1, FS_EmptySet
<1> QED
  BY <1>1, <1>2 DEF Init, PaidInv

LEMMA PaidStep == OutInv /\ PaidInv /\ [Next]_vars => PaidInv'
<1> SUFFICES ASSUME OutInv, PaidInv, [Next]_vars
             PROVE  PaidInv'
  OBVIOUS
<1>t. /\ TypeOK
      /\ \A m \in Msgs : sent[m] \in 0..2
      /\ drain.at \in {"send", "reached", "unlink"} =>
            drain.msg \in Msgs /\ drain.msg \in accepted
  BY DEF OutInv, TypeOK, HandInv, InHand
<1>a. \A m \in Msgs : sent[m] > 0 => m \in accepted
  BY DEF PaidInv
\* Steps of the drain without a message in hand.
<1>1. CASE /\ UNCHANGED <<file, accepted, sent>>
           /\ drain.at \in {"idle", "list", "next"}
           /\ drain'.at \in {"idle", "list", "next"}
           /\ faults' \in {faults, faults + 1}
  <2>1. Owed' \subseteq Owed
    BY <1>1 DEF Owed, Again, InHand
  <2> QED
    BY <1>t, <1>a, <1>1, <2>1, Pays
<1>2. ASSUME NEW m \in Msgs, NEW c, Written(m, c), file[m] \in {"none", "torn"}
      PROVE  PaidInv'
  <2>1. m \notin accepted /\ accepted \subseteq accepted' /\ UNCHANGED <<drain, faults, sent>>
    BY <1>2 DEF Written, OutInv, FileInv
  <2>2. Owed' \subseteq Owed
    BY <1>t, <1>a, <1>2, <2>1 DEF Owed, Again, InHand, Written, TypeOK
  <2> QED
    BY <1>t, <1>a, <2>1, <2>2, Pays
<1>3. CASE Writers
  BY <1>2, <1>3 DEF Writers, GatewayWrites, GatewayFailsToWrite, CronCreates,
                    CronCompletes, InTurn
<1>4. ASSUME NEW m \in Msgs, CleansUp(m)
      PROVE  PaidInv'
  <2>1. Owed' \subseteq Owed
    BY <1>t, <1>4 DEF CleansUp, Owed, Again, InHand, TypeOK
  <2> QED
    BY <1>t, <1>a, <1>4, <2>1, Pays DEF CleansUp
<1>5. CASE Tick \/ UNCHANGED vars
  <2>1. Owed' = Owed /\ UNCHANGED <<sent, accepted, faults>>
    BY <1>5 DEF Tick, vars, history, Owed, Again, InHand
  <2> QED
    BY <1>t, <1>a, <2>1, Pays
<1>6. CASE ListBegins \/ ListEnds \/ StatFails \/ SweepEnds
  BY <1>t, <1>1, <1>6, SweepKeeps DEF ListBegins, ListEnds, StatFails, SweepEnds
<1>7. ASSUME NEW m \in Msgs, Skips(m) \/ CutCharacter(m) \/ ConsumeFails(m)
      PROVE  PaidInv'
  BY <1>t, <1>1, <1>7
  DEF Skips, CutCharacter, ConsumeFails, NextIs, DrainOnly, Keeps, Idle, TypeOK
<1>8. ASSUME NEW m \in Msgs, Consumes(m)
      PROVE  PaidInv'
  <2>1. Owed' \subseteq Owed
    BY <1>t, <1>8 DEF Consumes, NextIs, Removes, Owed, Again, InHand, TypeOK
  <2> QED
    BY <1>t, <1>a, <1>8, <2>1, Pays DEF Consumes, NextIs, DrainOnly
<1>9. ASSUME NEW m \in Msgs, Reads(m)
      PROVE  PaidInv'
  <2>1. Owed' \subseteq Owed
    BY <1>t, <1>9 DEF Reads, NextIs, Keeps, Owed, Again, InHand, TypeOK
  <2> QED
    BY <1>t, <1>a, <1>9, <2>1, Pays DEF Reads, NextIs, DrainOnly
\* The second time it was owed already.
<1>10. CASE PlatformTakes
  <2>1. /\ drain.msg \in Msgs /\ drain.msg \in accepted /\ InHand(drain.msg)
        /\ drain'.at = "reached" /\ drain'.msg = drain.msg
        /\ UNCHANGED <<file, accepted, faults>>
    BY <1>t, <1>10 DEF PlatformTakes, DrainOnly, Keeps, TypeOK, InHand
  <2>2. /\ \A m \in Msgs \ {drain.msg} : sent'[m] = sent[m]
        /\ sent'[drain.msg] > 1 => sent[drain.msg] > 0
    <3>1. /\ sent[drain.msg] \in 0..2 /\ DOMAIN sent = Msgs
          /\ sent' = [sent EXCEPT ![drain.msg] = IF @ < 2 THEN @ + 1 ELSE @]
      BY <1>t, <1>10, <2>1 DEF PlatformTakes, TypeOK
    <3> QED
      BY <2>1, <3>1
  <2>3. Owed' \subseteq Owed
    BY <1>t, <1>10, <2>1, <2>2 DEF Owed, Again, InHand, PlatformTakes
  <2> QED
    BY <1>t, <1>a, <2>1, <2>2, <2>3, Pays
<1>11. CASE SendReturns \/ SendFailsAndReturns
  <2>1. Owed' \subseteq Owed /\ UNCHANGED <<sent, accepted, faults>>
    BY <1>t, <1>11
    DEF SendReturns, SendFailsAndReturns, DrainOnly, Keeps, Owed, Again, InHand, TypeOK
  <2> QED
    BY <1>t, <1>a, <2>1, Pays
\* A fault makes at most the message in hand owed.
<1>12. CASE /\ drain.at \in {"send", "reached", "unlink"}
            /\ drain'.at \in {"idle", "next"}
            /\ UNCHANGED <<file, accepted, sent>>
            /\ faults' = faults + 1
  <2>1. Owed' \subseteq Owed \cup {drain.msg}
    BY <1>t, <1>12 DEF Owed, Again, InHand
  <2> QED
    BY <1>t, <1>a, <1>12, <2>1, Pays
<1>13. CASE SendRaises \/ UnlinkFails
  BY <1>t, <1>12, <1>13 DEF SendRaises, UnlinkFails, DrainOnly, Keeps, TypeOK
<1>14. CASE Unlinks
  <2>1. Owed' \subseteq Owed /\ UNCHANGED <<sent, accepted, faults>>
    BY <1>t, <1>14 DEF Unlinks, Removes, DrainOnly, Owed, Again, InHand, TypeOK
  <2> QED
    BY <1>t, <1>a, <2>1, Pays
<1>15. CASE WrapperCrashes
  <2>1. drain.at \in {"idle", "list", "next", "send", "reached", "unlink"}
    BY <1>t DEF TypeOK
  <2> QED
    BY <1>1, <1>12, <1>15, <2>1 DEF WrapperCrashes, history, Idle
<1> QED
  BY <1>3, <1>4, <1>5, <1>6, <1>7, <1>8, <1>9, <1>10, <1>11, <1>13, <1>14, <1>15
  DEF Next, Drain

\* RepeatsArePaidFor: a text that the platform took twice was let go by a fault
\* in between, a fault of its own for each such text: the unlink after the send
\* (loops.py 60-66) is the only step that may come too late.
THEOREM RepeatsPaid == Spec => []RepeatsArePaidFor
<1>1. ASSUME TypeOK, PaidInv
      PROVE  RepeatsArePaidFor
  <2> DEFINE twice == {m \in Msgs : sent[m] > 1}
  <2>1. twice \subseteq Owed /\ Owed \in SUBSET Msgs /\ twice \in SUBSET Msgs
    BY DEF Owed
  <2>2. Cardinality(twice) <= Cardinality(Owed)
    BY <2>1, MsgsFinite, FS_Subset
  <2>3. faults \in Nat /\ Cardinality(twice) \in Nat /\ Cardinality(Owed) \in Nat
    BY <1>1, <2>1, MsgsFinite, OutboxAssumption DEF TypeOK
  <2> QED
    BY <1>1, <2>2, <2>3 DEF PaidInv, RepeatsArePaidFor
<1>2. OutInv => TypeOK
  BY DEF OutInv
<1> QED
  BY <1>1, <1>2, InitOut, OutStep, InitPaid, PaidStep, PTL DEF Spec

----------------------------------------------------------------------------
(* Order.  Behind a gateway's file in the list are only files written no     *)
(* earlier, and what was found when the listing began is in the list until   *)
(* it is sent -- as long as nothing fails.                                   *)

Before(m, k) == m \in Present \ CronMsgs => age[m] >= age[k]

\* The message in hand keeps its age also when the cleanup takes its file.
OrderInv ==
    /\ \A m \in Msgs : file[m] = "torn" => m \in CronMsgs
    /\ \A m \in drain.found \cup Range(drain.todo) : file[m] # "none"
    /\ \A i, j \in DOMAIN drain.todo :
          i < j => Before(drain.todo[i], drain.todo[j])
    /\ \A m \in Msgs \ CronMsgs : InHand(m) =>
          /\ m \in Present \/ age[m] = MaxAge + 1
          /\ \A i \in DOMAIN drain.todo : age[m] >= age[drain.todo[i]]

\* Nothing found before the sweep is forgotten in it.
FoundInv ==
    faults = 0 /\ swallowed = {} =>
        \A m \in drain.found \ CronMsgs :
            file[m] = "text" /\ sent[m] = 0 /\ drain.at # "list" =>
                m \in Range(drain.todo) \/ InHand(m)

\* A list without its first place.
LEMMA RestOfList ==
    ASSUME NEW s \in Seq(Msgs), s # <<>>
    PROVE  /\ Head(s) \in Msgs /\ Tail(s) \in Seq(Msgs)
           /\ Range(s) = {Head(s)} \cup Range(Tail(s))
           /\ \A i \in DOMAIN Tail(s) : i + 1 \in DOMAIN s /\ Tail(s)[i] = s[i + 1]
           /\ \A i \in DOMAIN Tail(s) : 1 \in DOMAIN s /\ 1 < i + 1 /\ Head(s) = s[1]
<1>1. /\ Head(s) = s[1] /\ Head(s) \in Msgs /\ Tail(s) \in Seq(Msgs)
      /\ Len(Tail(s)) = Len(s) - 1
      /\ \A i \in 1..Len(Tail(s)) : Tail(s)[i] = s[i + 1]
  BY HeadTailProperties
<1>2. /\ Len(s) \in Nat /\ Len(s) >= 1 /\ DOMAIN s = 1..Len(s)
      /\ DOMAIN Tail(s) = 1..(Len(s) - 1)
  BY <1>1, LenProperties, EmptySeq
<1>3. /\ \A i \in DOMAIN Tail(s) : i + 1 \in DOMAIN s /\ Tail(s)[i] = s[i + 1] /\ 1 < i + 1
      /\ 1 \in DOMAIN s
  BY <1>1, <1>2
<1>4. \A i \in DOMAIN s : i = 1 \/ (i - 1 \in DOMAIN Tail(s) /\ Tail(s)[i - 1] = s[i])
  <2> TAKE i \in DOMAIN s
  <2>1. CASE i # 1
    <3>1. PICK k \in DOMAIN Tail(s) : k = i - 1 /\ k + 1 = i
      BY <1>2, <2>1
    <3>2. Tail(s)[k] = s[i]
      BY <1>3, <3>1
    <3> QED
      BY <3>1, <3>2
  <2> QED
    BY <2>1
<1>5. ASSUME NEW e \in Range(s)
      PROVE  e \in {Head(s)} \cup Range(Tail(s))
  <2>1. PICK i \in DOMAIN s : e = s[i]
    BY <1>5 DEF Range
  <2> QED
    BY <1>1, <1>4, <2>1 DEF Range
<1>6. Head(s) \in Range(s) /\ Range(Tail(s)) \subseteq Range(s)
  BY <1>1, <1>3 DEF Range
<1> QED
  BY <1>1, <1>3, <1>5, <1>6

\* A listing has each of the files, the older before the younger.
LEMMA Listing ==
    ASSUME NEW S \in SUBSET Msgs, NEW s \in ByMtime(S)
    PROVE  /\ s \in Seq(Msgs) /\ Range(s) = S
           /\ \A i, j \in DOMAIN s : i < j => age[s[i]] >= age[s[j]]
<1> DEFINE n == Cardinality(S)
<1>1. IsFiniteSet(S) /\ n \in Nat
  BY MsgsFinite
<1>2. s \in Injection(1..n, S)
  BY DEF ByMtime, Injection, IsInjective
<1>3. IsFiniteSet(1..n) /\ Cardinality(1..n) = n
  BY <1>1, FS_Interval
<1>4. s \in Surjection(1..n, S)
  BY <1>1, <1>2, <1>3, FS_Injection
<1>5. Range(s) = S
  BY <1>4 DEF Surjection, Range
<1> QED
  BY <1>5, ListingType DEF ByMtime

LEMMA InitOrder == Init => OrderInv /\ FoundInv
<1>1. Range(<<>>) = {} /\ DOMAIN <<>> = {}
  BY EmptySeq, LenProperties DEF Range
<1> QED
  BY <1>1 DEF Init, OrderInv, FoundInv, Idle, InHand

\* Steps that leave ages and files, and at most shorten the list.
LEMMA ShorterList ==
    ASSUME TypeOK, OrderInv, Keeps, drain'.found \subseteq drain.found,
           \/ drain'.todo = drain.todo
           \/ drain'.todo = <<>>
           \/ drain.todo # <<>> /\ drain'.todo = Tail(drain.todo),
           \A m \in Msgs : InHand(m)' => InHand(m) /\ drain'.todo = drain.todo
    PROVE  OrderInv'
<1>0. Range(<<>>) = {} /\ DOMAIN <<>> = {}
  BY EmptySeq, LenProperties DEF Range
<1>1. CASE drain'.todo = <<>>
  BY <1>0, <1>1 DEF OrderInv, Keeps, Before, Present
<1>2. CASE drain'.todo = drain.todo
  BY <1>2 DEF OrderInv, Keeps, Before, Present
<1>3. CASE drain.todo # <<>> /\ drain'.todo = Tail(drain.todo)
  <2>1. /\ Range(drain'.todo) \subseteq Range(drain.todo)
        /\ \A i \in DOMAIN drain'.todo :
              i + 1 \in DOMAIN drain.todo /\ drain'.todo[i] = drain.todo[i + 1]
        /\ DOMAIN drain'.todo \subseteq Nat
    BY <1>3, RestOfList, LenProperties DEF TypeOK
  <2>2. \A i, j \in DOMAIN drain'.todo : i < j => i + 1 < j + 1
    BY <2>1
  <2>3. \A m, k : Before(m, k)' <=> Before(m, k)
    BY DEF Before, Keeps, Present
  <2>4. \A i, j \in DOMAIN drain'.todo :
          i < j => Before(drain'.todo[i], drain'.todo[j])
    BY <2>1, <2>2 DEF OrderInv
  <2>5. \A m \in Msgs \ CronMsgs : InHand(m)' =>
          /\ m \in Present \/ age[m] = MaxAge + 1
          /\ \A i \in DOMAIN drain'.todo : age[m] >= age[drain'.todo[i]]
    BY DEF OrderInv
  <2> QED
    BY <2>1, <2>3, <2>4, <2>5 DEF OrderInv, Keeps, Present
<1> QED
  BY <1>1, <1>2, <1>3

\* What one file's change may do to the order.
LEMMA OneFileChanges ==
    ASSUME TypeOK, OrderInv, NEW m \in Msgs, NEW c, NEW a \in 0..(MaxAge + 1),
           file' = [file EXCEPT ![m] = c], age' = [age EXCEPT ![m] = a],
           c # "none", c = "torn" => m \in CronMsgs,
           drain' = drain,
           \/ c = "gone" /\ a <= age[m]
           \/ a = 0 /\ file[m] \in {"none", "torn"} /\ ~InHand(m),
           InHand(m) => a = MaxAge + 1
    PROVE  OrderInv'
<1>t. /\ file \in Files /\ age \in Ages /\ drain.todo \in Seq(Msgs)
      /\ \A i \in DOMAIN drain.todo : drain.todo[i] \in Msgs
      /\ drain.found \subseteq Msgs /\ Range(drain.todo) \subseteq Msgs
  <2>1. file \in Files /\ age \in Ages /\ drain.todo \in Seq(Msgs) /\ drain.found \subseteq Msgs
    BY DEF TypeOK, Files, Ages
  <2>2. \A i \in DOMAIN drain.todo : drain.todo[i] \in Msgs
    BY <2>1, ElementOfSeq, LenProperties
  <2> QED
    BY <2>1, <2>2 DEF Range
<1>a. \A k \in Msgs : age[k] \in 0..(MaxAge + 1) /\ age'[k] <= age[k] /\ age'[k] \in Nat
  BY <1>t, OutboxAssumption DEF Ages, OrderInv
<1>1. \A k \in Msgs : file'[k] = IF k = m THEN c ELSE file[k]
  BY <1>t DEF Files
<1>2. \A k \in drain.found \cup Range(drain.todo) : k \in Msgs /\ file[k] # "none"
  BY <1>t DEF OrderInv
\* The one is not of the gateway, or is gone now.
<1>3. m \in drain.found \cup Range(drain.todo) => m \in CronMsgs \/ m \notin Present'
  BY <1>1, <1>2 DEF OrderInv, Present, Contents
<1>4. \A k \in Msgs \ {m} : age'[k] = age[k] /\ (k \in Present' <=> k \in Present)
  BY <1>t, <1>1 DEF Present, Ages
<1>5. ASSUME NEW i \in DOMAIN drain.todo, NEW j \in DOMAIN drain.todo, i < j
      PROVE  Before(drain.todo[i], drain.todo[j])'
  <2>1. Before(drain.todo[i], drain.todo[j])
    BY <1>5 DEF OrderInv
  <2>2. drain.todo[i] \in Msgs /\ drain.todo[j] \in Msgs /\ drain.todo[i] \in Range(drain.todo)
    BY <1>t DEF Range
  <2>3. CASE drain.todo[i] = m
    BY <1>3, <2>2, <2>3 DEF Before
  <2>4. CASE drain.todo[i] # m
    BY <1>4, <1>a, <2>1, <2>2, <2>4 DEF Before
  <2> QED
    BY <2>3, <2>4
<1>6. ASSUME NEW k \in Msgs \ CronMsgs, InHand(k)
      PROVE  /\ k \in Present' \/ age'[k] = MaxAge + 1
             /\ \A i \in DOMAIN drain.todo : age'[k] >= age'[drain.todo[i]]
  <2>1. /\ k \in Present \/ age[k] = MaxAge + 1
        /\ \A i \in DOMAIN drain.todo : age[k] >= age[drain.todo[i]]
    BY <1>6 DEF OrderInv
  <2>2. CASE k = m
    <3>1. age'[k] = MaxAge + 1
      BY <1>6, <1>t, <2>2 DEF Ages
    <3> QED
      BY <1>a, <1>t, <3>1
  <2>3. CASE k # m
    BY <1>4, <1>a, <1>t, <2>1, <2>3
  <2> QED
    BY <2>2, <2>3
<1> QED
  BY <1>1, <1>2, <1>5, <1>6 DEF OrderInv, InHand

LEMMA OrderStep == OutInv /\ OrderInv /\ [Next]_vars => OrderInv'
<1> SUFFICES ASSUME OutInv, OrderInv, [Next]_vars
             PROVE  OrderInv'
  OBVIOUS
<1>t. /\ TypeOK
      /\ \A m \in Msgs : age[m] \in 0..(MaxAge + 1)
      /\ MaxAge \in Nat
  BY OutboxAssumption DEF OutInv, TypeOK
<1>0. Range(<<>>) = {} /\ DOMAIN <<>> = {}
  BY EmptySeq, LenProperties DEF Range
<1>n. 0 \notin Msgs
  BY DEF Msgs
<1>1. ASSUME NEW m \in Msgs, NEW c, Written(m, c), file[m] \in {"none", "torn"},
             c # "none", c = "torn" => m \in CronMsgs
      PROVE  OrderInv'
  <2>1. ~InHand(m)
    BY <1>1 DEF OutInv, FileInv, HandInv
  <2>2. 0 \in 0..(MaxAge + 1)
    BY <1>t
  <2> QED
    BY <1>t, <1>1, <2>1, <2>2, OneFileChanges DEF Written
<1>2. CASE Writers
  BY <1>1, <1>2 DEF Writers, GatewayWrites, GatewayFailsToWrite, CronCreates,
                    CronCompletes, InTurn
<1>3. ASSUME NEW m \in Msgs, CleansUp(m)
      PROVE  OrderInv'
  <2>1. PICK a \in 0..(MaxAge + 1) :
            /\ age' = [age EXCEPT ![m] = a] /\ a <= age[m]
            /\ InHand(m) => a = MaxAge + 1
    <3>1. CASE drain.msg = m
      <4>1. age' = [age EXCEPT ![m] = age[m]] /\ age[m] <= age[m] /\ age[m] = MaxAge + 1
        BY <1>t, <1>3, <3>1 DEF CleansUp, TypeOK
      <4> QED
        BY <1>t, <4>1
    <3>2. CASE drain.msg # m
      <4>1. /\ age' = [age EXCEPT ![m] = 0] /\ 0 <= age[m] /\ 0 \in 0..(MaxAge + 1)
            /\ ~InHand(m)
        BY <1>t, <1>3, <3>2 DEF CleansUp, InHand
      <4> QED
        BY <4>1
    <3> QED
      BY <3>1, <3>2
  <2> QED
    BY <1>t, <1>3, <2>1, OneFileChanges DEF CleansUp
<1>4. CASE Tick
  <2>1. \A m \in Msgs : age'[m] = Older(m)
    BY <1>4 DEF Tick
  <2>2. UNCHANGED <<file, drain>> /\ Present' = Present
    BY <1>4 DEF Tick, Present
  <2>3. ASSUME NEW m \in Msgs, NEW k \in Msgs, age[m] >= age[k],
               m \in Present \/ age[m] = MaxAge + 1
        PROVE  age'[m] >= age'[k]
    BY <1>t, <2>1, <2>3 DEF Older
  <2>4. \A i \in DOMAIN drain.todo : drain.todo[i] \in Msgs
    BY <1>t, ElementOfSeq, LenProperties DEF TypeOK
  <2>5. \A i, j \in DOMAIN drain.todo :
          i < j => Before(drain.todo[i], drain.todo[j])'
    BY <2>2, <2>3, <2>4 DEF OrderInv, Before
  <2>6. ASSUME NEW m \in Msgs \ CronMsgs, InHand(m)
        PROVE  /\ m \in Present \/ age'[m] = MaxAge + 1
               /\ \A i \in DOMAIN drain.todo : age'[m] >= age'[drain.todo[i]]
    <3>1. m \notin Present => age'[m] = MaxAge + 1
      BY <2>1, <2>6 DEF OrderInv, Older
    <3> QED
      BY <2>3, <2>4, <2>6, <3>1 DEF OrderInv
  <2> QED
    BY <2>2, <2>5, <2>6 DEF OrderInv, InHand
<1>5. CASE ListBegins
  BY <1>0, <1>5 DEF ListBegins, Idle, Keeps, OrderInv, InHand, Present, Contents
<1>6. CASE ListEnds
  <2>1. PICK new \in SUBSET (Present \ drain.found) :
            \E s \in ByMtime(drain.found \cup new) :
                drain' = [drain EXCEPT !.at = "next", !.todo = s]
    BY <1>6 DEF ListEnds
  <2>2. PICK s \in ByMtime(drain.found \cup new) :
            drain' = [drain EXCEPT !.at = "next", !.todo = s]
    BY <2>1
  <2>3. drain.found \cup new \in SUBSET Msgs /\ drain.found \cup new \subseteq Present
    BY <1>6 DEF ListEnds, Present
  <2>4. /\ Range(s) \subseteq Present
        /\ \A i, j \in DOMAIN s : i < j => age[s[i]] >= age[s[j]]
    BY <2>3, Listing
  <2>5. drain'.at = "next" /\ drain'.todo = s /\ drain'.found = drain.found
    BY <1>t, <2>2 DEF TypeOK
  <2> QED
    BY <1>6, <2>4, <2>5
    DEF ListEnds, Keeps, OrderInv, InHand, Before, Present, Contents
<1>7. CASE StatFails \/ SweepEnds \/ WrapperCrashes
  BY <1>t, <1>7, ShorterList
  DEF StatFails, SweepEnds, WrapperCrashes, Keeps, Idle, InHand
<1>8. ASSUME NEW m \in Msgs, Skips(m) \/ CutCharacter(m) \/ ConsumeFails(m)
      PROVE  OrderInv'
  <2>1. /\ Keeps /\ drain.todo # <<>>
        /\ drain' = Idle \/ drain' = [drain EXCEPT !.todo = Tail(@)]
        /\ drain.at = "next"
    BY <1>8 DEF Skips, CutCharacter, ConsumeFails, NextIs
  <2>2. CASE drain' = Idle
    BY <1>t, <2>1, <2>2, ShorterList DEF Idle, InHand
  <2>3. CASE drain' = [drain EXCEPT !.todo = Tail(@)]
    BY <1>t, <2>1, <2>3, ShorterList DEF InHand, TypeOK
  <2> QED
    BY <2>1, <2>2, <2>3
\* The head of the list is consumed: first the list, then the file.
<1>9. ASSUME NEW m \in Msgs, Consumes(m)
      PROVE  OrderInv'
  <2> SUFFICES ASSUME NEW rest, rest = Tail(drain.todo)
               PROVE  OrderInv'
    OBVIOUS
  <2>1. /\ drain.at = "next" /\ drain.todo # <<>>
        /\ drain'.at = "next" /\ drain'.todo = rest /\ drain'.found = drain.found
        /\ \A k \in Msgs : file'[k] = IF k = m THEN "gone" ELSE file[k]
        /\ \A k \in Msgs : age'[k] = IF k = m THEN 0 ELSE age[k]
    BY <1>t, <1>9 DEF Consumes, NextIs, Removes, TypeOK
  <2>2. /\ Range(rest) \subseteq Range(drain.todo) /\ Range(drain.todo) \subseteq Msgs
        /\ \A i \in DOMAIN rest :
              i + 1 \in DOMAIN drain.todo /\ rest[i] = drain.todo[i + 1]
        /\ DOMAIN rest \subseteq Nat
        /\ \A i \in DOMAIN rest : rest[i] \in Msgs
    <3>1. drain.todo \in Seq(Msgs) /\ Tail(drain.todo) \in Seq(Msgs)
      BY <1>t, <2>1, RestOfList DEF TypeOK
    <3> QED
      BY <2>1, <3>1, RestOfList, LenProperties, RangeOfSeq, ElementOfSeq
  <2>3. \A i, j \in DOMAIN rest : i < j => i + 1 < j + 1
    BY <2>2
  <2>4. ASSUME NEW k \in Msgs, NEW l \in Msgs, Before(k, l)
        PROVE  Before(k, l)'
    BY <1>t, <2>1, <2>4 DEF Before, Present, Contents
  <2>5. \A i, j \in DOMAIN rest :
          i < j => Before(rest[i], rest[j])'
    BY <2>2, <2>3, <2>4 DEF OrderInv
  <2>6. \A k \in drain.found \cup Range(drain.todo) : k \in Msgs /\ file[k] # "none"
    BY <1>t, <2>2 DEF OrderInv, TypeOK
  <2> QED
    BY <2>1, <2>2, <2>5, <2>6 DEF OrderInv, InHand
<1>10. ASSUME NEW m \in Msgs, Reads(m)
       PROVE  OrderInv'
  <2>1. /\ drain.at = "next" /\ drain.todo # <<>> /\ m = Head(drain.todo)
        /\ drain'.at = "send" /\ drain'.msg = m /\ drain'.found = drain.found
        /\ drain'.todo = Tail(drain.todo) /\ file[m] = "text" /\ Keeps
    BY <1>t, <1>10 DEF Reads, NextIs, TypeOK
  <2>2. /\ Range(Tail(drain.todo)) \subseteq Range(drain.todo)
        /\ \A i \in DOMAIN Tail(drain.todo) :
              /\ i + 1 \in DOMAIN drain.todo /\ Tail(drain.todo)[i] = drain.todo[i + 1]
              /\ 1 \in DOMAIN drain.todo /\ 1 < i + 1 /\ m = drain.todo[1]
        /\ DOMAIN Tail(drain.todo) \subseteq Nat
    <3>1. drain.todo \in Seq(Msgs) /\ Tail(drain.todo) \in Seq(Msgs)
      BY <1>t, <2>1, RestOfList DEF TypeOK
    <3> QED
      BY <2>1, <3>1, RestOfList, LenProperties
  <2>3. \A i, j \in DOMAIN Tail(drain.todo) : i < j => i + 1 < j + 1
    BY <2>2
  <2>4. \A k, l : Before(k, l)' <=> Before(k, l)
    BY <2>1 DEF Before, Keeps, Present
  <2>5. \A i, j \in DOMAIN Tail(drain.todo) :
          i < j => Before(Tail(drain.todo)[i], Tail(drain.todo)[j])
    BY <2>2, <2>3 DEF OrderInv
  <2>6. m \in Present
    BY <2>1 DEF Present, Contents
  <2>7. \A i \in DOMAIN Tail(drain.todo) : m \notin CronMsgs => age[m] >= age[Tail(drain.todo)[i]]
    BY <2>2, <2>6 DEF OrderInv, Before
  <2>8. \A k \in drain.found \cup Range(Tail(drain.todo)) : file[k] # "none"
    BY <2>2 DEF OrderInv
  <2> QED
    BY <2>1, <2>4, <2>5, <2>6, <2>7, <2>8 DEF OrderInv, InHand, Keeps, Present
<1>11. CASE PlatformTakes \/ SendReturns \/ SendFailsAndReturns
  BY <1>t, <1>11, ShorterList
  DEF PlatformTakes, SendReturns, SendFailsAndReturns, InHand, TypeOK
<1>12. CASE SendRaises \/ UnlinkFails
  BY <1>t, <1>n, <1>12, ShorterList DEF SendRaises, UnlinkFails, InHand, TypeOK
<1>13. CASE Unlinks
  <2>1. /\ drain.msg \in Msgs
        /\ drain'.at = "next" /\ drain'.todo = drain.todo /\ drain'.found = drain.found
        /\ \A k \in Msgs : file'[k] = IF k = drain.msg THEN "gone" ELSE file[k]
        /\ \A k \in Msgs : age'[k] = IF k = drain.msg THEN 0 ELSE age[k]
    BY <1>t, <1>13 DEF Unlinks, Removes, TypeOK
  <2>2. ASSUME NEW k \in Msgs, NEW l \in Msgs, Before(k, l)
        PROVE  Before(k, l)'
    BY <1>t, <2>1, <2>2 DEF Before, Present, Contents
  <2>3. /\ Range(drain.todo) \subseteq Msgs
        /\ \A i \in DOMAIN drain.todo : drain.todo[i] \in Msgs
    BY <1>t, ElementOfSeq, LenProperties DEF TypeOK, Range
  <2>4. \A k \in drain.found \cup Range(drain.todo) : k \in Msgs /\ file[k] # "none"
    BY <1>t, <2>3 DEF OrderInv, TypeOK
  <2> QED
    BY <2>1, <2>2, <2>3, <2>4 DEF OrderInv, InHand
<1>14. CASE UNCHANGED vars
  BY <1>14 DEF vars, OrderInv, InHand, Before, Present
<1> QED
  BY <1>2, <1>3, <1>4, <1>5, <1>6, <1>7, <1>8, <1>9, <1>10, <1>11, <1>12, <1>13,
     <1>14 DEF Next, Drain

\* Steps after which each file that must be in the list is where it was.
LEMMA StaysFound ==
    ASSUME TypeOK, FoundInv,
           faults' = 0 => faults = 0, swallowed' = {} => swallowed = {},
           drain'.found \subseteq drain.found, drain'.at # "list" => drain.at # "list",
           \A m \in Msgs \ CronMsgs :
              file'[m] = "text" /\ sent'[m] = 0 /\ m \in drain.found =>
                  /\ file[m] = "text" /\ sent[m] = 0
                  /\ m \in Range(drain.todo) => m \in Range(drain'.todo) \/ InHand(m)'
                  /\ InHand(m) => InHand(m)' \/ faults' # 0 \/ swallowed' # {}
    PROVE  FoundInv'
<1>1. \A m \in drain'.found : m \in Msgs
  BY DEF TypeOK
<1> QED
  BY <1>1 DEF FoundInv

LEMMA FoundStep == OutInv /\ OrderInv /\ FoundInv /\ [Next]_vars => FoundInv'
<1> SUFFICES ASSUME OutInv, OrderInv, FoundInv, [Next]_vars
             PROVE  FoundInv'
  OBVIOUS
<1>t. /\ TypeOK /\ faults \in Nat /\ drain.todo \in Seq(Msgs)
      /\ drain.found \subseteq Msgs /\ 0 \notin Msgs
  BY OutboxAssumption DEF OutInv, TypeOK, Msgs
\* A file that was found is written no more, unless a cron process owns it.
<1>1. ASSUME NEW m \in Msgs, NEW c, Written(m, c), file[m] \in {"none", "torn"}
      PROVE  FoundInv'
  <2>1. m \in drain.found => m \in CronMsgs
    BY <1>1 DEF OrderInv
  <2>2. \A k \in Msgs \ {m} : file'[k] = file[k]
    BY <1>t, <1>1 DEF Written, TypeOK
  <2> QED
    BY <1>t, <1>1, <2>1, <2>2, StaysFound DEF Written, InHand
<1>2. CASE Writers
  BY <1>1, <1>2 DEF Writers, GatewayWrites, GatewayFailsToWrite, CronCreates,
                    CronCompletes, InTurn
<1>3. ASSUME NEW m \in Msgs, CleansUp(m)
      PROVE  FoundInv'
  BY <1>t, <1>3, StaysFound DEF CleansUp, InHand, TypeOK
<1>4. CASE Tick \/ UNCHANGED vars
  <2>1. UNCHANGED <<file, drain, faults, sent, swallowed>>
    BY <1>4 DEF Tick, vars, history
  <2> QED
    BY <2>1 DEF FoundInv, InHand
<1>5. CASE ListBegins \/ StatFails \/ SweepEnds \/ WrapperCrashes
  <2>1. drain'.at = "list" \/ drain'.found = {}
    <3>1. ListBegins => drain'.at = "list"
      BY DEF ListBegins, Idle
    <3>2. Idle.found = {}
      BY DEF Idle
    <3> QED
      BY <1>5, <3>1, <3>2 DEF StatFails, SweepEnds, WrapperCrashes
  <2> QED
    BY <2>1 DEF FoundInv
<1>6. CASE ListEnds
  <2>1. PICK new \in SUBSET (Present \ drain.found) :
            \E s \in ByMtime(drain.found \cup new) :
                drain' = [drain EXCEPT !.at = "next", !.todo = s]
    BY <1>6 DEF ListEnds
  <2>2. PICK s \in ByMtime(drain.found \cup new) :
            drain' = [drain EXCEPT !.at = "next", !.todo = s]
    BY <2>1
  <2>3. drain.found \cup new \in SUBSET Msgs
    BY <1>6 DEF ListEnds, Present
  <2>4. drain'.todo = s /\ drain'.found = drain.found
    BY <1>t, <2>2 DEF TypeOK
  <2>5. Range(s) = drain.found \cup new
    BY <2>3, Listing
  <2> QED
    BY <2>4, <2>5 DEF FoundInv
\* The head of the list goes: it is no text, or is in hand now.
<1>7. ASSUME NEW m \in Msgs, NextIs(m), drain'.found = drain.found, drain'.at # "list",
             drain'.todo = Tail(drain.todo), UNCHANGED <<faults, sent, swallowed>>,
             \A k \in Msgs : file'[k] = "text" => file[k] = "text",
             file'[m] = "text" => InHand(m)'
      PROVE  FoundInv'
  <2>1. /\ drain.todo # <<>> /\ drain.at = "next" /\ m = Head(drain.todo)
        /\ \A k : ~InHand(k)
    BY <1>7 DEF NextIs, InHand
  <2>2. Range(drain.todo) = {m} \cup Range(Tail(drain.todo))
    BY <1>t, <2>1, RestOfList
  <2> QED
    BY <1>t, <1>7, <2>1, <2>2, StaysFound
<1>8. ASSUME NEW m \in Msgs,
             Skips(m) \/ CutCharacter(m) \/ Consumes(m) \/ ConsumeFails(m) \/ Reads(m)
      PROVE  FoundInv'
  <2>1. CASE Skips(m)
    BY <1>t, <1>7, <2>1 DEF Skips, NextIs, Keeps, TypeOK
  <2>2. CASE CutCharacter(m)
    BY <2>2 DEF CutCharacter, Idle, FoundInv
  <2>3. CASE Consumes(m)
    <3>1. \A k \in Msgs : file'[k] = IF k = m THEN "gone" ELSE file[k]
      BY <1>t, <2>3 DEF Consumes, Removes, TypeOK
    <3> QED
      BY <1>t, <1>7, <2>3, <3>1 DEF Consumes, NextIs, TypeOK
  <2>4. CASE ConsumeFails(m)
    BY <1>t, <2>4 DEF ConsumeFails, FoundInv
  <2>5. CASE Reads(m)
    BY <1>t, <1>7, <2>5 DEF Reads, NextIs, Keeps, InHand, TypeOK
  <2> QED
    BY <1>8, <2>1, <2>2, <2>3, <2>4, <2>5
<1>9. CASE PlatformTakes
  <2>1. /\ drain' = [drain EXCEPT !.at = "reached"] /\ drain.at = "send"
        /\ UNCHANGED <<file, faults, swallowed>>
        /\ \A k \in Msgs : sent'[k] = 0 => sent[k] = 0
    BY <1>t, <1>9 DEF PlatformTakes, Keeps, TypeOK
  <2>2. drain'.found = drain.found /\ drain'.todo = drain.todo /\ drain'.at = "reached"
        /\ \A k \in Msgs : InHand(k) => InHand(k)'
    BY <1>t, <2>1 DEF TypeOK, InHand
  <2> QED
    BY <1>t, <2>1, <2>2, StaysFound
<1>10. CASE SendReturns
  BY <1>t, <1>10, StaysFound DEF SendReturns, Keeps, InHand, TypeOK
<1>11. CASE SendFailsAndReturns
  BY <1>11 DEF SendFailsAndReturns, FoundInv
<1>12. CASE SendRaises \/ UnlinkFails
  BY <1>t, <1>12 DEF SendRaises, UnlinkFails, FoundInv
\* Only what was sent or swallowed is unlinked, and its file is gone.
<1>13. CASE Unlinks
  <2>1. /\ drain'.found = drain.found /\ drain'.todo = drain.todo /\ drain'.at = "next"
        /\ drain.at = "unlink" /\ UNCHANGED <<faults, sent, swallowed>>
        /\ \A k \in Msgs : file'[k] = IF k = drain.msg THEN "gone" ELSE file[k]
    BY <1>t, <1>13 DEF Unlinks, Removes, TypeOK
  <2> QED
    BY <1>t, <2>1, StaysFound DEF InHand
<1> QED
  BY <1>2, <1>3, <1>4, <1>5, <1>6, <1>8, <1>9, <1>10, <1>11, <1>12, <1>13
  DEF Next, Drain

\* OldestFirst: while nothing fails, a text of the gateway that was there when the
\* sweep listed the outbox is not overtaken by a younger one (loops.py 41), also
\* when files come, grow older and are cleaned up in the middle of the sweep.
THEOREM OldestAreFirst == Spec => OldestFirst
<1> DEFINE Overtakes(j, k) ==
              /\ faults = 0 /\ swallowed = {}
              /\ sent[k] = 0 /\ sent'[k] > 0
              /\ file[j] = "text" /\ sent[j] = 0 /\ j \in drain.found
<1>1. ASSUME OutInv, OrderInv, FoundInv, [Next]_vars,
             NEW j \in Msgs \ CronMsgs, NEW k \in Msgs \ CronMsgs, Overtakes(j, k)
      PROVE  age[j] <= age[k]
  <2>1. PlatformTakes
    <3>1. CASE Writers
      BY <1>1, <3>1 DEF Writers, GatewayWrites, GatewayFailsToWrite, CronCreates,
                        CronCompletes, Written
    <3>2. CASE (\E m \in Msgs : CleansUp(m)) \/ Tick \/ WrapperCrashes \/ UNCHANGED vars
      BY <1>1, <3>2 DEF CleansUp, Tick, WrapperCrashes, history, vars
    <3>3. CASE \E m \in Msgs : Skips(m) \/ CutCharacter(m) \/ Consumes(m)
                               \/ ConsumeFails(m) \/ Reads(m)
      BY <1>1, <3>3 DEF Skips, CutCharacter, Consumes, ConsumeFails, Reads
    <3>4. CASE ListBegins \/ ListEnds \/ StatFails \/ SweepEnds
      <4>1. sent' = sent
        BY <3>4 DEF ListBegins, ListEnds, StatFails, SweepEnds
      <4> QED
        BY <1>1, <4>1
    <3>5. CASE \/ SendReturns \/ SendFailsAndReturns \/ SendRaises
               \/ Unlinks \/ UnlinkFails
      BY <1>1, <3>5 DEF SendReturns, SendFailsAndReturns, SendRaises, Unlinks, UnlinkFails
    <3> QED
      BY <1>1, <3>1, <3>2, <3>3, <3>4, <3>5 DEF Next, Drain
  <2>2. TypeOK
    BY <1>1 DEF OutInv
  <2>3. k = drain.msg /\ drain.at = "send" /\ InHand(k)
    BY <1>1, <2>1, <2>2 DEF PlatformTakes, InHand, TypeOK
  <2>4. j \in Range(drain.todo) \/ j = k
    BY <1>1, <2>3 DEF FoundInv, InHand
  <2>5. \A i \in DOMAIN drain.todo : age[k] >= age[drain.todo[i]]
    BY <1>1, <2>3 DEF OrderInv
  <2>6. age[j] \in Nat /\ age[k] \in Nat
    BY <2>2, OutboxAssumption DEF TypeOK
  <2> QED
    BY <2>4, <2>5, <2>6 DEF Range
<1>2. OutInv /\ OrderInv /\ FoundInv /\ [Next]_vars =>
        [\A j, k \in Msgs \ CronMsgs : Overtakes(j, k) => age[j] <= age[k]]_vars
  BY <1>1
<1>3. Init => OrderInv /\ FoundInv
  BY InitOrder
<1> QED
  BY <1>2, <1>3, InitOut, OutStep, OrderStep, FoundStep, PTL DEF Spec, OldestFirst

=============================================================================
