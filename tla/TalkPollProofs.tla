--------------------------- MODULE TalkPollProofs ---------------------------
(***************************************************************************)
(* A message below a frontier of the Talk wrapper has a reason not to be   *)
(* in the inbox, and the frontier on disk falls behind by a message for a  *)
(* kill at most, for every number of messages, rooms, kills and faults and *)
(* every limit.                                                            *)
(***************************************************************************)
EXTENDS TalkPoll, FiniteSetTheorems, SequenceTheorems, WellFoundedInduction,
        TLAPS

----------------------------------------------------------------------------
(* Sequences and sets of numbers. *)

\* A set of numbers up to n is finite.
LEMMA FiniteUpTo ==
    ASSUME NEW n \in Nat, NEW S, S \subseteq 1..n
    PROVE  IsFiniteSet(S) /\ Cardinality(S) \in Nat
<1>1. IsFiniteSet(1..n)
  BY FS_Interval
<1> QED
  BY <1>1, FS_Subset, FS_CardinalityType

\* A set of numbers that is not empty has a least element, and if it has a bound
\* a greatest one.
LEMMA HasLeast ==
    ASSUME NEW S, S \subseteq Nat, S # {}
    PROVE  \E x \in S : \A y \in S : x <= y
<1> DEFINE Less == {ss \in Nat \X Nat : ss[1] < ss[2]}
<1>1. IsWellFoundedOn(Less, Nat)
  BY NatLessThanWellFounded DEF OpToRel
<1> HIDE DEF Less
<1>2. \E x \in S : \A y \in S : ~ (<<y, x>> \in Less)
  BY <1>1, WFMin
<1>3. \A x, y \in S : <<y, x>> \notin Less => x <= y
  BY DEF Less
<1> QED
  BY <1>2, <1>3

LEMMA MaxMin ==
    ASSUME NEW n \in Nat, NEW S, S \subseteq 0..n, S # {}
    PROVE  /\ Max(S) \in S /\ \A y \in S : y <= Max(S)
           /\ Min(S) \in S /\ \A y \in S : Min(S) <= y
<1>1. S \subseteq Nat
  OBVIOUS
<1>2. \E x \in S : \A y \in S : x <= y
  BY <1>1, HasLeast
<1>3. \E x \in S : \A y \in S : x >= y
  <2> DEFINE T == {n - x : x \in S}
  <2>1. T \subseteq Nat /\ T # {}
    <3>1. \A x \in S : n - x \in Nat
      OBVIOUS
    <3>2. PICK x \in S : TRUE
      OBVIOUS
    <3>3. n - x \in T
      OBVIOUS
    <3>4. \A y \in T : \E z \in S : y = n - z
      OBVIOUS
    <3> QED
      BY <3>1, <3>3, <3>4
  <2>2. PICK t \in T : \A u \in T : t <= u
    BY <2>1, HasLeast
  <2>3. PICK x \in S : t = n - x
    BY <2>2
  <2>4. \A y \in S : n - x <= n - y
    BY <2>2, <2>3
  <2>5. \A y \in S : x >= y
    BY <2>4
  <2> QED
    BY <2>5
<1>4. Max(S) \in S /\ \A y \in S : Max(S) >= y
  BY <1>3 DEF Max
<1>5. Min(S) \in S /\ \A y \in S : Min(S) <= y
  BY <1>2 DEF Min
<1> QED
  BY <1>4, <1>5

----------------------------------------------------------------------------
(* Types. *)

\* The next message of a batch is one of it.
LEMMA FirstIn ==
    ASSUME TypeOK, batch # {}
    PROVE  First \in batch /\ First \in Msgs /\ First \in 0..NMsgs
<1>1. batch \subseteq 0..NMsgs /\ batch \subseteq Msgs
  BY PollAssumption DEF TypeOK, Msgs
<1>2. Max(batch) \in batch /\ Min(batch) \in batch
  BY <1>1, MaxMin, PollAssumption
<1> QED
  BY <1>1, <1>2 DEF First

LEMMA OfARoom ==
    ASSUME TypeOK, NEW r \in Rooms
    PROVE  /\ Of(r) \subseteq Msgs /\ Latest(r) \subseteq Of(r)
           /\ \A m \in Of(r) : m \in 1..shown /\ RoomOf[m] = r
           /\ New(r) \subseteq Latest(r)
BY PollAssumption DEF TypeOK, Of, Latest, New, Msgs

\* The highest id of a room is seen or the frontier, and no less than either.
LEMMA TopOf ==
    ASSUME TypeOK, NEW r \in Rooms
    PROVE  /\ Top(r) \in Latest(r) \cup {mem[r]}
           /\ \A m \in Latest(r) : m <= Top(r)
           /\ mem[r] <= Top(r) /\ Top(r) \in 0..NMsgs
<1> DEFINE S == Latest(r) \cup {mem[r]}
<1>1. S \subseteq 0..NMsgs /\ S # {} /\ Latest(r) \subseteq S
  <2>1. Latest(r) \subseteq 1..NMsgs
    BY OfARoom DEF Msgs
  <2>2. mem[r] \in 0..NMsgs
    BY DEF TypeOK
  <2> QED
    BY <2>1, <2>2, PollAssumption
<1> HIDE DEF S
<1>2. Max(S) \in S /\ \A m \in S : m <= Max(S)
  BY <1>1, MaxMin, PollAssumption
<1>3. Top(r) = Max(S)
  BY DEF Top, S
<1> QED
  BY <1>1, <1>2, <1>3 DEF S

LEMMA FailsType == TypeOK /\ Fails => faults' \in 0..MaxFaults
BY PollAssumption DEF TypeOK, Fails

LEMMA InitType == Init => TypeOK
<1> SUFFICES ASSUME Init PROVE TypeOK
  OBVIOUS
<1>1. 0 \in 0..NMsgs /\ 0 \in 0..MaxKills /\ 0 \in 0..MaxFaults
  BY PollAssumption
<1>2. Unseen \in [Rooms -> 0..NMsgs]
  BY <1>1 DEF Unseen
<1>3. copies \in [Msgs -> Nat]
  BY DEF Init
<1>4. unsaved \in BOOLEAN
  BY DEF Init
<1> QED
  BY <1>1, <1>2, <1>3, <1>4 DEF Init, TypeOK

LEMMA AsksType == ASSUME TypeOK, NEW r \in Rooms, Asks(r) PROVE TypeOK'
<1>1. CASE Latest(r) = {}
  BY <1>1 DEF TypeOK, Asks
<1>2. CASE Latest(r) # {}
  <2>1. New(r) \subseteq Msgs /\ Top(r) \in 0..NMsgs /\ Of(r) \subseteq Msgs
    BY OfARoom, TopOf
  <2>2. limited' \subseteq Msgs
    BY <1>2, <2>1 DEF TypeOK, Asks
  <2>3. r # NoRoom
    BY PollAssumption
  <2> QED
    BY <1>2, <2>1, <2>2, <2>3 DEF TypeOK, Asks
<1> QED
  BY <1>1, <1>2

LEMMA WritesType == TypeOK /\ Writes => TypeOK'
<1> SUFFICES ASSUME TypeOK, Writes PROVE TypeOK'
  OBVIOUS
<1>1. First \in Msgs
  BY FirstIn DEF Writes
<1>2. copies' \in [Msgs -> Nat]
  BY <1>1 DEF TypeOK, Writes
<1> QED
  BY <1>2 DEF TypeOK, Writes

LEMMA WriteFailsType == TypeOK /\ WriteFails => TypeOK'
<1> SUFFICES ASSUME TypeOK, WriteFails PROVE TypeOK'
  OBVIOUS
<1>1. First \in Msgs /\ faults' \in 0..MaxFaults
  BY FirstIn, FailsType DEF WriteFails
<1> QED
  BY <1>1 DEF TypeOK, WriteFails

LEMMA SavesType == TypeOK /\ Saves => TypeOK'
<1> SUFFICES ASSUME TypeOK, Saves PROVE TypeOK'
  OBVIOUS
<1>1. First \in 0..NMsgs
  BY FirstIn DEF TypeOK, Saves
<1>2. mem' \in [Rooms -> 0..NMsgs]
  BY <1>1 DEF TypeOK, Saves
<1>3. disk' \in [Rooms -> 0..NMsgs]
  BY <1>2 DEF TypeOK, Saves
<1>4. faults' \in 0..MaxFaults
  BY FailsType DEF TypeOK, Saves
<1>5. unsaved' \in BOOLEAN
  BY DEF TypeOK, Saves
<1> QED
  BY <1>2, <1>3, <1>4, <1>5 DEF TypeOK, Saves

LEMMA LeavesRoomType == TypeOK /\ LeavesRoom => TypeOK'
BY PollAssumption DEF TypeOK, LeavesRoom, history

LEMMA EndsType == TypeOK /\ Ends => TypeOK'
<1> SUFFICES ASSUME TypeOK, Ends PROVE TypeOK'
  OBVIOUS
<1>1. disk' \in [Rooms -> 0..NMsgs] /\ finished' \in [Rooms -> 0..NMsgs]
  BY DEF TypeOK, Ends
<1>2. faults' \in 0..MaxFaults
  BY FailsType DEF TypeOK, Ends
<1>3. unsaved' \in BOOLEAN
  BY DEF TypeOK, Ends
<1> QED
  BY <1>1, <1>2, <1>3 DEF TypeOK, Ends

LEMMA KilledType == TypeOK /\ Killed => TypeOK'
BY PollAssumption DEF TypeOK, Killed

LEMMA OthersType ==
    ASSUME TypeOK, Appears \/ Starts \/ RoomsFail \/ \E r \in Rooms : ChatFails(r)
    PROVE  TypeOK'
<1>1. CASE Appears
  BY <1>1, PollAssumption DEF TypeOK, Appears, pollVars, history
<1>2. CASE Starts
  BY <1>2 DEF TypeOK, Starts, history
<1>3. CASE RoomsFail
  BY <1>3, FailsType DEF TypeOK, RoomsFail, history
<1>4. CASE \E r \in Rooms : ChatFails(r)
  BY <1>4, FailsType DEF TypeOK, ChatFails, history
<1> QED
  BY <1>1, <1>2, <1>3, <1>4

LEMMA NextType == TypeOK /\ [Next]_vars => TypeOK'
<1> SUFFICES ASSUME TypeOK, [Next]_vars PROVE TypeOK'
  OBVIOUS
<1>1. CASE UNCHANGED vars
  BY <1>1 DEF TypeOK, vars, pollVars, history
<1>2. CASE Poll
  BY <1>2, AsksType, WritesType, SavesType, LeavesRoomType, EndsType, OthersType
     DEF Poll
<1> QED
  BY <1>1, <1>2, KilledType, WriteFailsType, OthersType DEF Next

\* The variables keep their types; a room is in hand exactly while a batch is.
THEOREM PollTypeCorrect == Spec => []TypeOK
  BY InitType, NextType, PTL DEF Spec

----------------------------------------------------------------------------
(* Gaps. *)

\* No frontier is ahead of the server.
Behind ==
    /\ \A r \in Rooms : mem[r] <= shown /\ disk[r] <= shown
    /\ top <= shown

\* A batch is of the room in hand and up to its highest id; between the rooms
\* there is none.
BatchOfRoom ==
    /\ at \in {"idle", "rooms"} => batch = {}
    /\ \A m \in batch : RoomOf[m] = room /\ m <= top /\ m <= shown

\* What the room's frontier is about to pass is settled or in the batch, and the
\* message to be saved is in the inbox.
Passing ==
    at \in {"batch", "save"} =>
        \A m \in 1..shown \ Unwanted :
            RoomOf[m] = room /\ m <= top => Settled(m) \/ m \in batch

Copied == at = "save" => copies[First] > 0

PollInv == Behind /\ BatchOfRoom /\ Passing /\ Copied /\ GapsHaveAReason

LEMMA InitInv == Init => PollInv
<1> SUFFICES ASSUME Init PROVE PollInv
  OBVIOUS
<1>1. 1..shown = {} /\ \A r \in Rooms : mem[r] = 0 /\ disk[r] = 0
  BY DEF Init, Unseen
<1> QED
  BY <1>1 DEF Init, PollInv, Behind, BatchOfRoom, Passing, Copied, GapsHaveAReason

\* What is settled stays so.
LEMMA SettledStays ==
    ASSUME TypeOK, [Next]_vars, NEW m \in Msgs, Settled(m)
    PROVE  Settled(m)'
<1>1. copies[m] \in Nat
  BY DEF TypeOK
<1>2. limited \subseteq limited' /\ failed \subseteq failed' /\ hidden \subseteq hidden'
  BY DEF Next, vars, pollVars, history, Appears, Poll, Starts, Asks, Writes, Saves,
         LeavesRoom, Ends, Killed, RoomsFail, WriteFails, ChatFails
<1>3. CASE Writes
  <2>1. copies'[m] = copies[m] \/ copies'[m] = copies[m] + 1
    BY <1>3 DEF Writes, TypeOK
  <2> QED
    BY <1>1, <1>2, <2>1 DEF Settled
<1>4. CASE copies' = copies
  BY <1>2, <1>4 DEF Settled
<1>5. Writes \/ copies' = copies
  BY DEF Next, vars, pollVars, history, Appears, Poll, Starts, Asks, Saves,
         LeavesRoom, Ends, Killed, RoomsFail, WriteFails, ChatFails
<1> QED
  BY <1>3, <1>4, <1>5

LEMMA AsksInv ==
    ASSUME TypeOK, TypeOK', PollInv, NEW r \in Rooms, Asks(r),
           \A m \in Msgs : Settled(m) => Settled(m)'
    PROVE  PollInv'
<1> USE DEF PollInv
<1>0. /\ 1..shown \subseteq Msgs /\ batch = {}
      /\ UNCHANGED <<shown, mem, disk, order, copies>>
  BY PollAssumption DEF TypeOK, Msgs, Asks, BatchOfRoom
<1>1. CASE Latest(r) = {}
  <2>1. UNCHANGED <<at, room, batch, top>> /\ at = "rooms"
    BY <1>1 DEF Asks
  <2>2. Behind' /\ BatchOfRoom' /\ Passing' /\ Copied'
    BY <1>0, <2>1 DEF Behind, BatchOfRoom, Passing, Copied
  <2>3. GapsHaveAReason'
    BY <1>0, <2>1 DEF GapsHaveAReason
  <2> QED
    BY <2>2, <2>3
<1>2. CASE Latest(r) # {}
  <2>1. /\ at' = "batch" /\ room' = r /\ batch' = New(r) /\ top' = Top(r)
        /\ \A m \in Of(r) \ (Latest(r) \cup Unwanted) : m > mem[r] => m \in limited'
    BY <1>2 DEF Asks
  <2>2. /\ \A m \in Latest(r) : m \in 1..shown /\ RoomOf[m] = r /\ m <= Top(r)
        /\ Top(r) \in Latest(r) \cup {mem[r]}
    BY OfARoom, TopOf
  <2>3. mem[r] \in 0..NMsgs /\ mem[r] <= shown /\ shown \in Nat
    BY DEF TypeOK, Behind
  <2>4. Top(r) <= shown
    BY <2>2, <2>3
  <2>5. Behind'
    BY <1>0, <2>1, <2>4 DEF Behind
  <2>6. BatchOfRoom'
    BY <1>0, <2>1, <2>2 DEF BatchOfRoom, New
  <2>7. Passing'
    <3> SUFFICES ASSUME NEW m \in 1..shown \ Unwanted, RoomOf[m] = r
                 PROVE  Settled(m)' \/ m \in New(r)
      BY <1>0, <2>1 DEF Passing
    <3>1. CASE m <= mem[r]
      BY <1>0, <3>1 DEF GapsHaveAReason
    <3>2. CASE m > mem[r] /\ m \in Latest(r)
      BY <3>2 DEF New
    <3>3. CASE m > mem[r] /\ m \notin Latest(r)
      BY <2>1, <3>3 DEF Of, Settled
    <3> QED
      BY <2>3, <3>1, <3>2, <3>3
  <2>8. Copied'
    BY <2>1 DEF Copied
  <2>9. GapsHaveAReason'
    BY <1>0 DEF GapsHaveAReason
  <2> QED
    BY <2>5, <2>6, <2>7, <2>8, <2>9
<1> QED
  BY <1>1, <1>2

LEMMA WritesInv ==
    ASSUME TypeOK, TypeOK', PollInv, Writes,
           \A m \in Msgs : Settled(m) => Settled(m)'
    PROVE  PollInv'
<1> USE DEF PollInv
<1>0. /\ 1..shown \subseteq Msgs
      /\ UNCHANGED <<shown, mem, disk, order, room, batch, top>>
      /\ at = "batch" /\ at' = "save"
  BY PollAssumption DEF TypeOK, Msgs, Writes
<1>1. Behind' /\ BatchOfRoom' /\ Passing' /\ GapsHaveAReason'
  BY <1>0 DEF Behind, BatchOfRoom, Passing, GapsHaveAReason
<1>2. First' = First /\ First \in Msgs
  BY <1>0, FirstIn DEF First, Writes
<1>3. copies'[First] = copies[First] + 1 /\ copies[First] \in Nat
  BY <1>2 DEF Writes, TypeOK
<1>4. Copied'
  BY <1>2, <1>3 DEF Copied
<1> QED
  BY <1>1, <1>4

\* The first of the batch leaves it settled.
LEMMA TakenInv ==
    ASSUME TypeOK, TypeOK', PollInv, at' = "batch", batch # {},
           at \in {"batch", "save"}, NEW f, f = First,
           batch' = batch \ {f}, Settled(f)',
           UNCHANGED <<shown, room, top>>,
           \/ UNCHANGED <<mem, disk>>
           \/ /\ mem' = [mem EXCEPT ![room] = f]
              /\ disk' = mem' \/ disk' = disk,
           \A m \in Msgs : Settled(m) => Settled(m)'
    PROVE  PollInv'
<1> USE DEF PollInv
<1>0. /\ 1..shown \subseteq Msgs /\ shown \in Nat /\ top \in Nat
      /\ at \notin {"idle", "rooms"} /\ at' \notin {"idle", "rooms"}
  BY PollAssumption DEF TypeOK, Msgs
<1>1. /\ room \in Rooms
      /\ f \in batch /\ f <= top /\ f <= shown /\ f \in Msgs /\ f \in Nat
  <2>1. f \in batch /\ f \in Msgs /\ f \in Nat
    BY FirstIn DEF Msgs
  <2>2. f <= top /\ f <= shown
    BY <2>1 DEF BatchOfRoom
  <2>3. room \in Rooms
    BY <1>0 DEF TypeOK
  <2> QED
    BY <2>1, <2>2, <2>3
<1>2. BatchOfRoom' /\ Passing' /\ Copied'
  <2>1. BatchOfRoom' /\ Copied'
    BY <1>0, <1>1 DEF BatchOfRoom, Copied
  <2>2. Passing'
    BY <1>0, <1>1 DEF Passing
  <2> QED
    BY <2>1, <2>2
<1>3. ASSUME NEW q \in Rooms
      PROVE  /\ mem'[q] = mem[q] \/ (q = room /\ mem'[q] = f)
             /\ disk'[q] = disk[q] \/ disk'[q] = mem'[q]
  BY <1>1 DEF TypeOK
<1>4. Behind'
  BY <1>1, <1>3 DEF Behind
<1>5. GapsHaveAReason'
  <2> SUFFICES ASSUME NEW m \in 1..shown \ Unwanted,
                      m <= mem'[RoomOf[m]] \/ m <= disk'[RoomOf[m]]
               PROVE  Settled(m)' \/ m \in batch'
    BY <1>0 DEF GapsHaveAReason
  <2>1. m \in Msgs /\ m \in Nat /\ RoomOf[m] \in Rooms
    BY <1>0, PollAssumption DEF Msgs
  <2>0. Settled(m) \/ m \in batch => Settled(m)' \/ m \in batch'
    BY <2>1
  <2>2. CASE m <= mem[RoomOf[m]] \/ m <= disk[RoomOf[m]]
    BY <2>0, <2>2 DEF GapsHaveAReason
  <2>3. CASE RoomOf[m] = room /\ m <= f
    <3>1. m <= top
      BY <1>0, <1>1, <2>1, <2>3
    <3> QED
      BY <2>0, <2>3, <3>1 DEF Passing
  <2> QED
    BY <1>3, <2>1, <2>2, <2>3
<1> QED
  BY <1>2, <1>4, <1>5

LEMMA WriteFailsInv ==
    ASSUME TypeOK, TypeOK', PollInv, WriteFails,
           \A m \in Msgs : Settled(m) => Settled(m)'
    PROVE  PollInv'
<1> SUFFICES ASSUME NEW g, g = First PROVE PollInv'
  OBVIOUS
<1>2. g \in failed' /\ batch' = batch \ {g} /\ batch # {} /\ at = "batch"
  BY DEF WriteFails
<1>3. Settled(g)'
  BY <1>2 DEF Settled
<1> QED
  BY <1>2, <1>3, TakenInv DEF WriteFails

LEMMA SavesInv ==
    ASSUME TypeOK, TypeOK', PollInv, Saves,
           \A m \in Msgs : Settled(m) => Settled(m)'
    PROVE  PollInv'
<1> SUFFICES ASSUME NEW g, g = First PROVE PollInv'
  OBVIOUS
<1>1. /\ batch # {} /\ at = "save" /\ at' = "batch" /\ batch' = batch \ {g}
      /\ mem' = [mem EXCEPT ![room] = g] /\ UNCHANGED <<shown, room, top>>
      /\ disk' = mem' \/ disk' = disk
  BY DEF Saves, TypeOK
<1>2. Settled(g)
  BY <1>1 DEF PollInv, Copied, Settled
<1>3. g \in Msgs
  BY <1>1, FirstIn
<1>4. Settled(g)'
  BY <1>2, <1>3
<1> QED
  BY <1>1, <1>4, TakenInv

LEMMA LeavesRoomInv ==
    ASSUME TypeOK, TypeOK', PollInv, LeavesRoom,
           \A m \in Msgs : Settled(m) => Settled(m)'
    PROVE  PollInv'
<1> USE DEF PollInv
<1>1. /\ 1..shown \subseteq Msgs /\ shown \in Nat /\ room \in Rooms
      /\ at' = "rooms" /\ at = "batch" /\ batch' = {} /\ batch = {} /\ top' = 0
      /\ mem' = [mem EXCEPT ![room] = top] /\ UNCHANGED <<shown, disk>>
  BY PollAssumption DEF TypeOK, Msgs, LeavesRoom
<1>2. \A q \in Rooms : mem'[q] = mem[q] \/ (q = room /\ mem'[q] = top)
  BY <1>1 DEF TypeOK
<1>3. Behind'
  BY <1>1, <1>2 DEF Behind
<1>4. BatchOfRoom' /\ Passing' /\ Copied'
  BY <1>1 DEF BatchOfRoom, Passing, Copied
<1>5. GapsHaveAReason'
  <2> SUFFICES ASSUME NEW m \in 1..shown \ Unwanted,
                      m <= mem'[RoomOf[m]] \/ m <= disk[RoomOf[m]]
               PROVE  Settled(m)'
    BY <1>1 DEF GapsHaveAReason
  <2>1. m \in Msgs /\ RoomOf[m] \in Rooms
    BY <1>1, PollAssumption
  <2>2. CASE m <= mem[RoomOf[m]] \/ m <= disk[RoomOf[m]]
    BY <1>1, <2>1, <2>2 DEF GapsHaveAReason
  <2>3. CASE RoomOf[m] = room /\ m <= top
    BY <1>1, <2>1, <2>3 DEF Passing
  <2> QED
    BY <1>2, <2>1, <2>2, <2>3
<1> QED
  BY <1>3, <1>4, <1>5

LEMMA KilledInv ==
    ASSUME TypeOK, TypeOK', PollInv, Killed,
           \A m \in Msgs : Settled(m) => Settled(m)'
    PROVE  PollInv'
<1> USE DEF PollInv
<1>1. /\ 1..shown \subseteq Msgs /\ shown \in Nat
      /\ at' = "idle" /\ batch' = {} /\ top' = 0
      /\ mem' = disk /\ UNCHANGED <<shown, disk>>
  BY PollAssumption DEF TypeOK, Msgs, Killed
<1>2. Behind' /\ BatchOfRoom' /\ Passing' /\ Copied'
  BY <1>1 DEF Behind, BatchOfRoom, Passing, Copied
<1>3. GapsHaveAReason'
  <2> SUFFICES ASSUME NEW m \in 1..shown \ Unwanted, m <= disk[RoomOf[m]]
               PROVE  Settled(m)'
    BY <1>1 DEF GapsHaveAReason
  <2>1. m \in Msgs /\ (Settled(m) \/ m \in batch)
    BY <1>1 DEF GapsHaveAReason
  <2>2. CASE m \in batch /\ at = "save" /\ m = First
    BY <2>1, <2>2 DEF Copied, Settled
  <2>3. CASE m \in batch /\ (at = "save" => m # First)
    <3>1. RoomOf[m] = room
      BY <2>3 DEF BatchOfRoom
    <3>2. m \in hidden'
      BY <2>3, <3>1 DEF Killed
    <3> QED
      BY <3>2 DEF Settled
  <2> QED
    BY <2>1, <2>2, <2>3
<1> QED
  BY <1>2, <1>3

LEMMA AppearsInv ==
    ASSUME TypeOK, TypeOK', PollInv, Appears,
           \A m \in Msgs : Settled(m) => Settled(m)'
    PROVE  PollInv'
<1> USE DEF PollInv
<1>1. /\ 1..shown \subseteq Msgs /\ shown \in Nat /\ shown' = shown + 1
      /\ UNCHANGED <<order, mem, disk, at, room, batch, top, copies>>
  BY PollAssumption DEF TypeOK, Msgs, Appears, pollVars, history
<1>2. Behind'
  BY <1>1 DEF Behind, TypeOK
<1>3. BatchOfRoom' /\ Copied'
  BY <1>1 DEF BatchOfRoom, Copied, First, TypeOK, Msgs
<1>4. \A m \in 1..shown' : m \in 1..shown \/ m > shown
  BY <1>1
<1>5. Passing'
  BY <1>1, <1>4 DEF Passing, Behind, TypeOK
<1>6. GapsHaveAReason'
  <2> SUFFICES ASSUME NEW m \in 1..shown' \ Unwanted,
                      m <= mem[RoomOf[m]] \/ m <= disk[RoomOf[m]]
               PROVE  Settled(m)' \/ m \in batch
    BY <1>1 DEF GapsHaveAReason
  <2>1. m \in Msgs /\ RoomOf[m] \in Rooms
    BY <1>1, PollAssumption DEF Appears, TypeOK, Msgs
  <2>2. m \in 1..shown
    BY <1>1, <1>4, <2>1 DEF Behind, TypeOK
  <2> QED
    BY <1>1, <2>1, <2>2 DEF GapsHaveAReason
<1> QED
  BY <1>2, <1>3, <1>5, <1>6

\* The steps between the rooms.
LEMMA BetweenInv ==
    ASSUME TypeOK, TypeOK', PollInv,
           Starts \/ Ends \/ RoomsFail \/ \E r \in Rooms : ChatFails(r),
           \A m \in Msgs : Settled(m) => Settled(m)'
    PROVE  PollInv'
<1> USE DEF PollInv
<1>1. /\ 1..shown \subseteq Msgs /\ shown \in Nat /\ batch = {} /\ batch' = {}
      /\ at' \in {"idle", "rooms"} /\ UNCHANGED <<shown, mem, top>>
      /\ disk' = disk \/ disk' = mem
  <2>1. 1..shown \subseteq Msgs /\ shown \in Nat
    BY PollAssumption DEF TypeOK, Msgs
  <2>2. at \in {"idle", "rooms"} /\ batch' = batch /\ UNCHANGED <<shown, mem, top>>
    BY DEF Starts, Ends, RoomsFail, ChatFails, history
  <2>3. at' \in {"idle", "rooms"} /\ (disk' = disk \/ disk' = mem)
    BY DEF Starts, Ends, RoomsFail, ChatFails, history
  <2> QED
    BY <2>1, <2>2, <2>3 DEF BatchOfRoom
<1>2. Behind' /\ BatchOfRoom' /\ Passing' /\ Copied'
  BY <1>1 DEF Behind, BatchOfRoom, Passing, Copied
<1>3. GapsHaveAReason'
  BY <1>1 DEF GapsHaveAReason
<1> QED
  BY <1>2, <1>3

LEMMA StutterInv == PollInv /\ UNCHANGED vars => PollInv'
BY DEF vars, pollVars, history, PollInv, Behind, BatchOfRoom, Passing, Copied,
       GapsHaveAReason, Settled, First

LEMMA PollInvariant == Spec => []PollInv
<1>1. TypeOK /\ TypeOK' /\ PollInv /\ [Next]_vars => PollInv'
  <2> SUFFICES ASSUME TypeOK, TypeOK', PollInv, [Next]_vars PROVE PollInv'
    OBVIOUS
  <2>1. \A m \in Msgs : Settled(m) => Settled(m)'
    BY SettledStays
  <2>2. CASE Poll
    BY <2>1, <2>2, AsksInv, WritesInv, SavesInv, LeavesRoomInv, BetweenInv DEF Poll
  <2> QED
    BY <2>1, <2>2, AppearsInv, KilledInv, WriteFailsInv, BetweenInv, StutterInv
       DEF Next
<1> QED
  BY InitInv, PollTypeCorrect, <1>1, PTL DEF Spec

\* A message a frontier has passed, in memory or on disk, is in the inbox or
\* about to be, or the limit, a failed write or a kill kept it out.
THEOREM GapsExplained == Spec => []GapsHaveAReason
<1>1. PollInv => GapsHaveAReason
  BY DEF PollInv
<1> QED
  BY PollInvariant, <1>1, PTL

----------------------------------------------------------------------------
(* The frontier on disk. *)

\* No frontier is below what the last whole poll saved, also when a room's goes
\* down to a message of the batch.
AboveFinished ==
    /\ \A r \in Rooms : mem[r] >= finished[r] /\ disk[r] >= finished[r]
    /\ at \in {"batch", "save"} =>
          top >= finished[room] /\ \A m \in batch : m > finished[room]

\* If the oldest message comes first, a room's frontier only rises.
Rising ==
    order = "oldest" =>
        /\ \A r \in Rooms : mem[r] >= disk[r]
        /\ at \in {"batch", "save"} =>
              top >= mem[room] /\ \A m \in batch : m > mem[room]

\* The messages of the inbox that a restart would fetch again.
Ahead == {m \in Msgs : copies[m] > 0 /\ m > disk[RoomOf[m]]}

FrontInv == AboveFinished /\ Rising /\ FrontierIsKept

LEMMA AheadFinite ==
    ASSUME NEW S, S \subseteq Msgs
    PROVE  IsFiniteSet(S) /\ Cardinality(S) \in Nat
BY FiniteUpTo, PollAssumption DEF Msgs

LEMMA InitFront == Init => FrontInv
<1> SUFFICES ASSUME Init PROVE FrontInv
  OBVIOUS
<1>1. /\ at = "idle" /\ kills = 0
      /\ \A r \in Rooms : mem[r] = 0 /\ disk[r] = 0 /\ finished[r] = 0
      /\ \A m \in Msgs : copies[m] = 0
  BY DEF Init, Unseen
<1>2. {m \in Msgs : copies[m] > 0 /\ m > disk[RoomOf[m]]} = {}
  BY <1>1
<1>3. Cardinality({}) = 0
  BY FS_EmptySet
<1>4. FrontierIsKept
  BY <1>1, <1>2, <1>3 DEF FrontierIsKept
<1> QED
  BY <1>1, <1>4 DEF FrontInv, AboveFinished, Rising

\* FrontierIsKept is FrontInv's, in terms of the messages ahead.
LEMMA KeptIf ==
    ASSUME \A r \in Rooms : disk[r] >= finished[r],
           order = "oldest" /\ ~unsaved =>
               Cardinality(Ahead) <= kills + IF at = "save" THEN 1 ELSE 0
    PROVE  FrontierIsKept
BY DEF FrontierIsKept, Ahead

LEMMA AsksFront ==
    ASSUME TypeOK, FrontInv, NEW r \in Rooms, Asks(r)
    PROVE  FrontInv'
<1>0. /\ UNCHANGED <<order, mem, disk, finished, kills, unsaved, copies>>
      /\ at = "rooms" /\ at' # "save"
  BY DEF Asks
<1>1. FrontierIsKept'
  BY <1>0 DEF FrontInv, FrontierIsKept
<1>2. CASE Latest(r) = {}
  BY <1>0, <1>1, <1>2 DEF Asks, FrontInv, AboveFinished, Rising
<1>3. CASE Latest(r) # {}
  <2>1. room' = r /\ batch' = New(r) /\ top' = Top(r)
    BY <1>3 DEF Asks
  <2>2. /\ \A m \in New(r) : m > mem[r] /\ m \in Nat
        /\ Top(r) >= mem[r] /\ Top(r) \in Nat
    <3>1. \A m \in New(r) : m > mem[r] /\ m \in Nat
      BY OfARoom DEF New, Msgs
    <3>2. Top(r) \in 0..NMsgs /\ mem[r] \in 0..NMsgs /\ mem[r] <= Top(r)
      BY TopOf DEF TypeOK
    <3> QED
      BY <3>1, <3>2
  <2>3. mem[r] \in Nat /\ finished[r] \in Nat /\ mem[r] >= finished[r]
    BY DEF TypeOK, FrontInv, AboveFinished
  <2>4. AboveFinished' /\ Rising'
    BY <1>0, <2>1, <2>2, <2>3 DEF FrontInv, AboveFinished, Rising
  <2> QED
    BY <1>1, <2>4 DEF FrontInv
<1> QED
  BY <1>2, <1>3

\* One more message is ahead until its frontier is saved.
LEMMA WritesFront == ASSUME TypeOK, FrontInv, Writes PROVE FrontInv'
<1>0. /\ UNCHANGED <<order, mem, disk, finished, kills, unsaved, room, batch, top>>
      /\ at = "batch" /\ at' = "save"
  BY DEF Writes
<1>1. AboveFinished' /\ Rising'
  BY <1>0 DEF FrontInv, AboveFinished, Rising
<1>2. Ahead' \subseteq Ahead \cup {First}
  BY <1>0 DEF Writes, Ahead, TypeOK
<1>3. First \in Msgs
  BY FirstIn DEF Writes
<1>4. Cardinality(Ahead') <= Cardinality(Ahead) + 1
  <2>1. IsFiniteSet(Ahead) /\ IsFiniteSet(Ahead \cup {First})
    BY <1>3, AheadFinite DEF Ahead
  <2>2. /\ Cardinality(Ahead') <= Cardinality(Ahead \cup {First})
        /\ Cardinality(Ahead') \in Nat /\ Cardinality(Ahead) \in Nat
    BY <1>2, <2>1, FS_Subset, FS_CardinalityType
  <2>3. Cardinality(Ahead \cup {First}) =
            IF First \in Ahead THEN Cardinality(Ahead) ELSE Cardinality(Ahead) + 1
    BY <2>1, FS_AddElement
  <2> QED
    BY <2>2, <2>3
<1>5. Cardinality(Ahead) \in Nat /\ Cardinality(Ahead') \in Nat /\ kills \in Nat
  BY AheadFinite DEF Ahead, TypeOK
<1>6. order = "oldest" /\ ~unsaved => Cardinality(Ahead) <= kills
  BY <1>0, <1>5 DEF FrontInv, FrontierIsKept, Ahead
<1>7. FrontierIsKept'
  BY <1>0, <1>4, <1>5, <1>6, KeptIf DEF FrontInv, FrontierIsKept, Ahead
<1> QED
  BY <1>1, <1>7 DEF FrontInv

\* Frontiers that do not go down leave no more messages ahead.
LEMMA FewerAhead ==
    ASSUME TypeOK, UNCHANGED copies,
           \A r \in Rooms : disk'[r] \in Nat /\ disk'[r] >= disk[r]
    PROVE  Ahead' \subseteq Ahead /\ Cardinality(Ahead') <= Cardinality(Ahead)
<1>1. \A m \in Msgs : RoomOf[m] \in Rooms /\ m \in Nat
  BY PollAssumption DEF Msgs
<1>2. \A r \in Rooms : disk[r] \in Nat
  BY DEF TypeOK
<1>3. Ahead' \subseteq Ahead
  BY <1>1, <1>2 DEF Ahead
<1> QED
  BY <1>3, AheadFinite, FS_Subset DEF Ahead

\* The frontier is the message just written.
LEMMA SavesFront == ASSUME TypeOK, TypeOK', PollInv, FrontInv, Saves PROVE FrontInv'
<1> SUFFICES ASSUME NEW g, g = First PROVE FrontInv'
  OBVIOUS
<1>0. /\ UNCHANGED <<order, finished, kills, room, top, copies>>
      /\ at = "save" /\ at' = "batch" /\ batch' = batch \ {g} /\ batch # {}
      /\ mem' = [mem EXCEPT ![room] = g]
      /\ (disk' = mem' /\ (unsaved' <=> unsaved)) \/ (disk' = disk /\ unsaved')
  <2>1. /\ UNCHANGED <<order, finished, kills, room, top, copies>>
        /\ at = "save" /\ at' = "batch" /\ batch' = batch \ {g} /\ batch # {}
        /\ mem' = [mem EXCEPT ![room] = g]
    BY DEF Saves, TypeOK
  <2>2. CASE disk' = mem' /\ UNCHANGED <<faults, unsaved>>
    BY <2>1, <2>2
  <2>3. CASE Fails /\ unsaved' = TRUE /\ UNCHANGED disk
    BY <2>1, <2>3
  <2> QED
    BY <2>2, <2>3 DEF Saves
<1>1. /\ g \in batch /\ g \in Msgs /\ g \in Nat /\ room \in Rooms /\ RoomOf[g] = room
      /\ copies[g] > 0 /\ g <= top /\ top \in Nat /\ batch \subseteq Nat
  <2>1. g \in batch /\ g \in Msgs /\ copies[g] > 0
    BY <1>0, FirstIn DEF PollInv, Copied
  <2>2. batch \subseteq Nat /\ top \in Nat /\ room \in Rooms
    BY <1>0 DEF TypeOK, Msgs
  <2> QED
    BY <2>1, <2>2 DEF PollInv, BatchOfRoom
<1>2. /\ \A r \in Rooms : mem'[r] = IF r = room THEN g ELSE mem[r]
      /\ \A r \in Rooms : mem[r] \in Nat /\ disk[r] \in Nat /\ finished[r] \in Nat
  BY <1>0 DEF TypeOK
<1>3. g > finished[room] /\ top >= finished[room]
      /\ \A m \in batch : m > finished[room]
  BY <1>0, <1>1 DEF FrontInv, AboveFinished
<1>4. AboveFinished'
  <2>1. \A r \in Rooms : mem'[r] >= finished[r]
    BY <1>1, <1>2, <1>3 DEF FrontInv, AboveFinished
  <2>2. \A r \in Rooms : disk'[r] >= finished[r]
    BY <1>0, <2>1 DEF FrontInv, AboveFinished
  <2> QED
    BY <1>0, <1>3, <2>1, <2>2 DEF AboveFinished
<1>5. order = "oldest" => \A m \in batch \ {g} : m > g
  <2>1. batch \subseteq 0..NMsgs
    BY PollAssumption DEF TypeOK, Msgs
  <2>2. order = "oldest" => \A m \in batch : First <= m
    BY <1>0, <2>1, MaxMin, PollAssumption DEF First
  <2> QED
    BY <1>1, <2>2
<1>6. order = "oldest" => g > mem[room] /\ mem[room] >= disk[room]
  BY <1>0, <1>1 DEF FrontInv, Rising
<1>7. Rising'
  <2> SUFFICES ASSUME order = "oldest"
               PROVE  /\ \A r \in Rooms : mem'[r] >= disk'[r]
                      /\ top >= mem'[room] /\ \A m \in batch' : m > mem'[room]
    BY <1>0 DEF Rising
  <2>1. \A r \in Rooms : mem[r] >= disk[r]
    BY DEF FrontInv, Rising
  <2>2. CASE disk' = mem'
    BY <1>0, <1>1, <1>2, <1>5, <2>2
  <2>3. CASE disk' = disk
    BY <1>0, <1>1, <1>2, <1>5, <1>6, <2>1, <2>3
  <2> QED
    BY <1>0, <2>2, <2>3
<1>8. ASSUME order = "oldest", ~unsaved'
      PROVE  Cardinality(Ahead') <= kills
  <2>1. disk' = mem' /\ ~unsaved
    BY <1>0, <1>8
  <2>2. \A r \in Rooms : disk'[r] \in Nat /\ disk'[r] >= disk[r]
    BY <1>1, <1>2, <1>6, <1>8, <2>1 DEF FrontInv, Rising
  <2>3. Ahead' \subseteq Ahead
    BY <1>0, <2>2, FewerAhead
  <2>4. g \in Ahead /\ g \notin Ahead'
    BY <1>0, <1>1, <1>2, <1>6, <1>8, <2>1 DEF Ahead
  <2>5. IsFiniteSet(Ahead) /\ Cardinality(Ahead) \in Nat /\ kills \in Nat
    BY AheadFinite DEF Ahead, TypeOK
  <2>6. Cardinality(Ahead \ {g}) = Cardinality(Ahead) - 1 /\ IsFiniteSet(Ahead \ {g})
    BY <2>4, <2>5, FS_RemoveElement
  <2>7. Cardinality(Ahead') <= Cardinality(Ahead \ {g}) /\ Cardinality(Ahead') \in Nat
    BY <2>3, <2>4, <2>6, FS_Subset, FS_CardinalityType
  <2>8. Cardinality(Ahead) <= kills + 1
    BY <1>0, <1>8, <2>1 DEF FrontInv, FrontierIsKept, Ahead
  <2> QED
    BY <2>5, <2>6, <2>7, <2>8
<1>9. kills \in Nat /\ \A r \in Rooms : disk'[r] >= finished'[r]
  BY <1>0, <1>2, <1>4 DEF AboveFinished, TypeOK
<1>10. FrontierIsKept'
  BY <1>0, <1>8, <1>9, KeptIf DEF FrontierIsKept, Ahead
<1> QED
  BY <1>4, <1>7, <1>10 DEF FrontInv

LEMMA LeavesRoomFront == ASSUME TypeOK, FrontInv, LeavesRoom PROVE FrontInv'
<1>0. /\ UNCHANGED <<order, disk, finished, kills, copies, unsaved>>
      /\ at = "batch" /\ at' = "rooms"
      /\ mem' = [mem EXCEPT ![room] = top] /\ room \in Rooms
  BY DEF LeavesRoom, history, TypeOK
<1>1. /\ \A r \in Rooms : mem'[r] = IF r = room THEN top ELSE mem[r]
      /\ \A r \in Rooms : mem[r] \in Nat /\ disk[r] \in Nat
      /\ top \in Nat
  BY <1>0 DEF TypeOK
<1>2. AboveFinished' /\ Rising'
  BY <1>0, <1>1 DEF FrontInv, AboveFinished, Rising
<1>3. FrontierIsKept'
  BY <1>0 DEF FrontInv, FrontierIsKept
<1> QED
  BY <1>2, <1>3 DEF FrontInv

\* The whole poll is saved, or the save fails and is remembered.
LEMMA EndsFront == ASSUME TypeOK, FrontInv, Ends PROVE FrontInv'
<1>0. /\ UNCHANGED <<order, mem, kills, copies>>
      /\ at = "rooms" /\ at' = "idle"
      /\ \/ disk' = mem /\ finished' = mem /\ unsaved' = unsaved
         \/ UNCHANGED <<disk, finished>> /\ unsaved'
  BY DEF Ends
<1>1. \A r \in Rooms : mem[r] \in Nat /\ disk[r] \in Nat
  BY DEF TypeOK
<1>2. AboveFinished' /\ Rising'
  BY <1>0, <1>1 DEF FrontInv, AboveFinished, Rising
<1>3. ASSUME order = "oldest", ~unsaved'
      PROVE  Cardinality(Ahead') <= kills
  <2>1. disk' = mem /\ ~unsaved
    BY <1>0, <1>3
  <2>2. Cardinality(Ahead') <= Cardinality(Ahead)
    BY <1>0, <1>1, <1>3, <2>1, FewerAhead DEF FrontInv, Rising
  <2>3. Cardinality(Ahead) <= kills
    BY <1>0, <1>3, <2>1, AheadFinite DEF FrontInv, FrontierIsKept, Ahead, TypeOK
  <2>4. Cardinality(Ahead) \in Nat /\ Cardinality(Ahead') \in Nat /\ kills \in Nat
    BY AheadFinite DEF Ahead, TypeOK
  <2> QED
    BY <2>2, <2>3, <2>4
<1>4. kills \in Nat
  BY DEF TypeOK
<1>5. FrontierIsKept'
  BY <1>0, <1>2, <1>3, <1>4, KeptIf DEF FrontierIsKept, Ahead, AboveFinished
<1> QED
  BY <1>2, <1>5 DEF FrontInv

\* A kill pays for the message that was written and not yet saved.
LEMMA KilledFront == ASSUME TypeOK, FrontInv, Killed PROVE FrontInv'
<1>0. /\ UNCHANGED <<order, disk, finished, copies, unsaved>>
      /\ at' = "idle" /\ mem' = disk /\ kills' = kills + 1
  BY DEF Killed
<1>1. \A r \in Rooms : disk[r] \in Nat
  BY DEF TypeOK
<1>2. AboveFinished' /\ Rising'
  BY <1>0, <1>1 DEF FrontInv, AboveFinished, Rising
<1>3. kills \in Nat /\ Cardinality(Ahead) \in Nat
  BY AheadFinite DEF Ahead, TypeOK
<1>4. Ahead' = Ahead
  BY <1>0 DEF Ahead
<1>5. FrontierIsKept'
  BY <1>0, <1>3, <1>4, KeptIf DEF FrontInv, FrontierIsKept, Ahead
<1> QED
  BY <1>2, <1>5 DEF FrontInv

\* The other steps leave frontiers and inbox alone.
LEMMA OthersFront ==
    ASSUME TypeOK, FrontInv,
           \/ Appears \/ Starts \/ RoomsFail \/ WriteFails \/ UNCHANGED vars
           \/ \E r \in Rooms : ChatFails(r)
    PROVE  FrontInv'
<1>0. /\ UNCHANGED <<order, mem, disk, finished, kills, copies, unsaved, room, top>>
      /\ batch' \subseteq batch
      /\ at' \in {"batch", "save"} => at \in {"batch", "save"}
      /\ at' = "save" <=> at = "save"
  BY DEF Appears, Starts, RoomsFail, WriteFails, ChatFails, vars, pollVars, history
<1>1. AboveFinished' /\ Rising'
  BY <1>0 DEF FrontInv, AboveFinished, Rising
<1>2. FrontierIsKept'
  BY <1>0 DEF FrontInv, FrontierIsKept
<1> QED
  BY <1>1, <1>2 DEF FrontInv

\* FrontierIsKept: the saved frontier is never below the one of the last whole
\* poll; if the oldest message comes first and every save succeeds, no more than
\* one message for each kill, and the one just written, is newer in the inbox.
THEOREM FrontierKept == Spec => []FrontierIsKept
<1>1. TypeOK /\ TypeOK' /\ PollInv /\ FrontInv /\ [Next]_vars => FrontInv'
  BY AsksFront, WritesFront, SavesFront, LeavesRoomFront, EndsFront, KilledFront,
     OthersFront
  DEF Next, Poll
<1>2. FrontInv => FrontierIsKept
  BY DEF FrontInv
<1> QED
  BY InitInv, InitFront, PollTypeCorrect, PollInvariant, <1>1, <1>2, PTL DEF Spec

=============================================================================
