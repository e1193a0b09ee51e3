-------------------------- MODULE ImsgInboundProofs --------------------------
(***************************************************************************)
(* What the frontier of a chat has passed has a reason not to be in the    *)
(* inbox, however the watch and the history thread interleave, for every   *)
(* number of messages, chats, broken streams and faults.                   *)
(***************************************************************************)
EXTENDS ImsgInbound, FiniteSetTheorems, SequenceTheorems,
        WellFoundedInduction, TLAPS

----------------------------------------------------------------------------
(* Sequences and sets of numbers. *)

\* A set of numbers from 0 to n that is not empty has a greatest element.
LEMMA HasGreatest ==
    ASSUME NEW n \in Nat, NEW S, S \subseteq 0..n, S # {}
    PROVE  \E x \in S : \A y \in S : y <= x
<1> DEFINE Less == {ss \in Nat \X Nat : ss[1] < ss[2]}
           T == {n - x : x \in S}
<1>1. \A x \in S : n - x \in T /\ n - x \in Nat
  OBVIOUS
<1>2. T \subseteq Nat /\ T # {} /\ \A t \in T : \E x \in S : t = n - x
  BY <1>1
<1>3. IsWellFoundedOn(Less, Nat)
  BY NatLessThanWellFounded DEF OpToRel
<1> HIDE DEF Less, T
<1>4. PICK t \in T : \A u \in T : <<u, t>> \notin Less
  BY <1>2, <1>3, WFMin
<1>5. PICK x \in S : t = n - x
  BY <1>2
<1>6. \A y \in S : ~(n - y < n - x)
  BY <1>1, <1>4, <1>5 DEF Less
<1>7. \A y \in S : y <= x
  BY <1>6
<1> QED
  BY <1>7

\* A set of numbers up to n is finite.
LEMMA FiniteUpTo ==
    ASSUME NEW n \in Nat, NEW S, S \subseteq 1..n
    PROVE  IsFiniteSet(S) /\ Cardinality(S) \in Nat
<1>1. IsFiniteSet(1..n)
  BY FS_Interval
<1> QED
  BY <1>1, FS_Subset, FS_CardinalityType

----------------------------------------------------------------------------
(* Types. *)

LEMMA SeqWiden ==
    ASSUME NEW S, NEW T, S \subseteq T, NEW s \in Seq(S)
    PROVE  s \in Seq(T)
<1>1. Len(s) \in Nat /\ s \in [1..Len(s) -> S]
  BY LenProperties
<1>2. s \in [1..Len(s) -> T]
  BY <1>1
<1> QED
  BY <1>1, <1>2, SeqDef

LEMMA ShownOK ==
    ASSUME TypeOK
    PROVE  /\ NMsgs \in Nat /\ shown \in Nat /\ shown <= NMsgs
           /\ 1..shown \subseteq Msgs /\ 0 \in 0..shown
           /\ \A m \in 1..shown : m \in Msgs /\ m \in Nat /\ ChatOf[m] \in Chats
BY ImsgAssumption DEF TypeOK, Msgs

LEMMA InitType == Init => TypeOK
<1> SUFFICES ASSUME Init PROVE TypeOK
  OBVIOUS
<1>1. /\ shown = 0 /\ 0 \in 0..NMsgs /\ 0 \in 0..MaxDrops /\ 0 \in 0..MaxFaults
  BY ImsgAssumption DEF Init
<1>2. Unseen \in [Chats -> 0..shown]
  BY <1>1 DEF Unseen
<1>3. stream \in [up : BOOLEAN, lines : Seq(1..shown)]
  BY DEF Init
<1>4. /\ watch \in [at : {"read", "write", "load", "save", "check"},
                    msg : 0..shown, snap : [Chats -> 0..shown]]
      /\ watch.at = "read"
  BY <1>1, <1>2 DEF Init, WatchReads
<1>5. /\ hist \in [at : {"idle", "chats", "rows"}, snap : [Chats -> 0..shown],
                   todo : SUBSET Chats, chat : Chats \cup {NoChat},
                   rows : SUBSET (1..shown), max : 0..shown]
      /\ hist.at = "idle"
  BY <1>1, <1>2 DEF Init, HistIdle
<1>6. copies \in [Msgs -> 0..2]
  BY DEF Init
<1> QED
  BY <1>1, <1>2, <1>3, <1>4, <1>5, <1>6 DEF Init, TypeOK

LEMMA AppearsType == TypeOK /\ Appears => TypeOK'
<1> SUFFICES ASSUME TypeOK, Appears PROVE TypeOK'
  OBVIOUS
<1>1. /\ shown \in Nat /\ shown' = shown + 1 /\ shown' \in 0..NMsgs
      /\ 1..shown \subseteq 1..shown' /\ 0..shown \subseteq 0..shown'
      /\ shown' \in 1..shown'
  BY ImsgAssumption, SMTT(30) DEF TypeOK, Appears
<1>2. stream' \in [up : BOOLEAN, lines : Seq(1..shown')]
  <2>1. stream.lines \in Seq(1..shown')
    BY <1>1, SeqWiden DEF TypeOK
  <2>2. Append(stream.lines, shown') \in Seq(1..shown')
    BY <1>1, <2>1, AppendProperties
  <2> QED
    BY <2>1, <2>2 DEF TypeOK, Appears
<1>3. /\ watch' \in [at : {"read", "write", "load", "save", "check"},
                     msg : 0..shown', snap : [Chats -> 0..shown']]
      /\ lastSeen' \in [Chats -> 0..shown']
  BY <1>1 DEF TypeOK, Appears
<1>4. hist' \in [at : {"idle", "chats", "rows"}, snap : [Chats -> 0..shown'],
                 todo : SUBSET Chats, chat : Chats \cup {NoChat},
                 rows : SUBSET (1..shown'), max : 0..shown']
  BY <1>1 DEF TypeOK, Appears
<1> QED
  BY <1>1, <1>2, <1>3, <1>4 DEF TypeOK, Appears

\* What has not been read yet was shown.
LEMMA UnreadShown == TypeOK => Unread \subseteq 1..shown
<1> SUFFICES ASSUME TypeOK PROVE Unread \subseteq 1..shown
  OBVIOUS
<1>1. \A i \in DOMAIN stream.lines : stream.lines[i] \in 1..shown
  BY LenProperties, ElementOfSeq DEF TypeOK
<1>2. watch.at = "write" => watch.msg \in 1..shown
  BY ShownOK DEF TypeOK
<1> QED
  BY <1>1, <1>2 DEF Unread

LEMMA NoStream == [up |-> FALSE, lines |-> <<>>] \in [up : BOOLEAN, lines : Seq(1..shown)]
OBVIOUS

LEMMA ReadsOK ==
    ASSUME TypeOK
    PROVE  /\ Unseen \in [Chats -> 0..shown]
           /\ WatchReads \in [at : {"read"}, msg : 0..shown, snap : [Chats -> 0..shown]]
           /\ WatchChecks \in [at : {"check"}, msg : 0..shown, snap : [Chats -> 0..shown]]
           /\ HistIdle \in [at : {"idle"}, snap : [Chats -> 0..shown],
                            todo : SUBSET Chats, chat : Chats \cup {NoChat},
                            rows : SUBSET (1..shown), max : 0..shown]
BY ShownOK DEF Unseen, WatchReads, WatchChecks, HistIdle

LEMMA StreamType ==
    ASSUME TypeOK, StreamDies \/ StreamIsCycled \/ Reconnects
    PROVE  TypeOK'
<1>1. CASE StreamDies
  <2>1. drops' \in 0..MaxDrops
    BY <1>1, ImsgAssumption DEF StreamDies, TypeOK
  <2>2. stream' \in [up : BOOLEAN, lines : Seq(1..shown)]
    BY <1>1 DEF StreamDies, TypeOK
  <2> QED
    BY <1>1, <2>1, <2>2 DEF StreamDies, TypeOK, history
<1>2. CASE StreamIsCycled
  <2>1. drops' \in 0..MaxDrops
    BY <1>2, ImsgAssumption DEF StreamIsCycled, TypeOK
  <2>2. missed' \subseteq 1..shown
    BY <1>2, UnreadShown DEF StreamIsCycled, TypeOK
  <2>3. stream' \in [up : BOOLEAN, lines : Seq(1..shown)]
    BY <1>2, NoStream DEF StreamIsCycled
  <2> QED
    BY <1>2, <2>1, <2>2, <2>3, ReadsOK DEF StreamIsCycled, TypeOK
<1>3. CASE Reconnects
  BY <1>3 DEF Reconnects, TypeOK, history
<1> QED
  BY <1>1, <1>2, <1>3

LEMMA WrittenType ==
    ASSUME TypeOK, NEW m \in Msgs
    PROVE  /\ Written(m) \in [Msgs -> 0..2]
           /\ Written(m)[m] > 0
           /\ \A k \in Msgs : Written(m)[k] >= copies[k]
<1> DEFINE n == IF copies[m] < 2 THEN copies[m] + 1 ELSE copies[m]
<1>1. copies[m] \in 0..2 /\ copies \in [Msgs -> 0..2]
  BY DEF TypeOK
<1>2. n \in 0..2 /\ n > 0 /\ n >= copies[m]
  BY <1>1
<1>3. Written(m) = [copies EXCEPT ![m] = n]
  BY DEF Written
<1> HIDE DEF n
<1>4. \A k \in Msgs : copies[k] \in 0..2
  BY <1>1
<1> QED
  BY <1>1, <1>2, <1>3, <1>4

LEMMA WatchType == TypeOK /\ Watch => TypeOK'
<1> SUFFICES ASSUME TypeOK, Watch PROVE TypeOK'
  OBVIOUS
<1>1. CASE WatchTakesLine
  <2>1. Head(stream.lines) \in 1..shown /\ Tail(stream.lines) \in Seq(1..shown)
    BY <1>1, HeadTailProperties DEF WatchTakesLine, TypeOK
  <2>2. stream' \in [up : BOOLEAN, lines : Seq(1..shown)]
    BY <1>1, <2>1 DEF WatchTakesLine, TypeOK
  <2>3. /\ watch' \in [at : {"read", "write", "load", "save", "check"},
                       msg : 0..shown, snap : [Chats -> 0..shown]]
        /\ watch'.at \in {"write", "load", "save"} => watch'.msg # 0
    <3>1. CASE watch' = WatchReads
      BY <3>1, ReadsOK
    <3>2. CASE watch' = [WatchReads EXCEPT !.at = "write", !.msg = Head(stream.lines)]
      <4>1. Head(stream.lines) \in 0..shown /\ Head(stream.lines) # 0
        BY <2>1, ShownOK
      <4> QED
        BY <3>2, <4>1, ReadsOK
    <3> QED
      BY <1>1, <3>1, <3>2 DEF WatchTakesLine
  <2> QED
    BY <1>1, <2>2, <2>3 DEF WatchTakesLine, WatchOnly, TypeOK, history
<1>2. CASE WatchWrites
  <2>1. watch.msg \in Msgs
    BY <1>2, ShownOK DEF WatchWrites, TypeOK
  <2>2. copies' \in [Msgs -> 0..2]
    BY <1>2, <2>1, WrittenType DEF WatchWrites
  <2> QED
    BY <1>2, <2>2 DEF WatchWrites, WatchOnly, TypeOK
<1>3. CASE WatchWriteFails
  <2>1. watch.msg \in 1..shown
    BY <1>3, ShownOK DEF WatchWriteFails, TypeOK
  <2>2. faults' \in 0..MaxFaults
    BY <1>3, ImsgAssumption DEF WatchWriteFails, TypeOK
  <2>3. failed' \subseteq 1..shown /\ missed' \subseteq 1..shown
    BY <1>3, <2>1, UnreadShown DEF WatchWriteFails, TypeOK
  <2> QED
    BY <1>3, <2>2, <2>3, NoStream, ReadsOK DEF WatchWriteFails, WatchOnly, TypeOK
<1>4. CASE WatchLoads
  <2>1. watch' \in [at : {"save", "check"}, msg : 0..shown, snap : [Chats -> 0..shown]]
    BY <1>4, ReadsOK DEF WatchLoads, TypeOK
  <2>2. watch'.at = "save" => watch'.msg # 0
    BY <1>4, ReadsOK DEF WatchLoads, TypeOK
  <2> QED
    BY <1>4, <2>1, <2>2 DEF WatchLoads, WatchOnly, TypeOK, history
<1>5. CASE WatchSaves
  <2>1. watch.msg \in 1..shown
    BY <1>5, ShownOK DEF WatchSaves, TypeOK
  <2>2. lastSeen' \in [Chats -> 0..shown] /\ bumped' \subseteq 1..shown
    BY <1>5, <2>1 DEF WatchSaves, TypeOK
  <2> QED
    BY <1>5, <2>2, ReadsOK DEF WatchSaves, WatchOnly, TypeOK
<1>6. CASE WatchGoesOn
  BY <1>6, ReadsOK DEF WatchGoesOn, WatchOnly, TypeOK, history
<1>7. CASE Reconnects
  BY <1>7, StreamType
<1> QED
  BY <1>1, <1>2, <1>3, <1>4, <1>5, <1>6, <1>7 DEF Watch

\* What a chat's answer holds, and the highest id in it or the frontier.
LEMMA Answer ==
    ASSUME TypeOK, NEW c \in Chats, NEW n \in 0..shown
    PROVE  /\ Recent(c) \subseteq 1..shown
           /\ Max(Recent(c) \cup {n}) \in Recent(c) \cup {n}
           /\ Max(Recent(c) \cup {n}) \in 0..shown
           /\ \A m \in Recent(c) : m <= Max(Recent(c) \cup {n})
<1> DEFINE S == Recent(c) \cup {n}
<1>1. Recent(c) \subseteq 1..shown
  BY DEF Recent, InChat
<1>2. S \subseteq 0..shown /\ S # {} /\ shown \in Nat
  BY <1>1, ShownOK
<1> HIDE DEF S
<1>3. Max(S) \in S /\ \A m \in S : m <= Max(S)
  BY <1>2, HasGreatest DEF Max
<1>4. \A m \in Recent(c) : m \in S
  BY DEF S
<1> QED
  BY <1>1, <1>2, <1>3, <1>4 DEF S

LEMMA HistType == TypeOK /\ Hist => TypeOK'
<1> SUFFICES ASSUME TypeOK, Hist PROVE TypeOK'
  OBVIOUS
<1>1. CASE HistLoads
  BY <1>1, ReadsOK DEF HistLoads, HistOnly, TypeOK, history
<1>2. CASE HistRequestFails
  <2>1. faults' \in 0..MaxFaults
    BY <1>2, ImsgAssumption DEF HistRequestFails, TypeOK
  <2>2. PICK S \in SUBSET Chats : hist' = [hist EXCEPT !.todo = S]
    <3>1. hist.todo \subseteq Chats
      BY DEF TypeOK
    <3>2. hist' = [hist EXCEPT !.todo = {}]
          \/ \E c \in hist.todo : hist' = [hist EXCEPT !.todo = hist.todo \ {c}]
      BY <1>2 DEF HistRequestFails
    <3> QED
      BY <3>1, <3>2
  <2>3. /\ hist' \in [at : {"idle", "chats", "rows"}, snap : [Chats -> 0..shown],
                      todo : SUBSET Chats, chat : Chats \cup {NoChat},
                      rows : SUBSET (1..shown), max : 0..shown]
        /\ hist'.at = hist.at /\ hist'.chat = hist.chat
    BY <2>2 DEF TypeOK
  <2> QED
    BY <1>2, <2>1, <2>3 DEF HistRequestFails, HistOnly, TypeOK, history
<1>3. CASE HistTimesOut
  <2>1. faults' \in 0..MaxFaults
    BY <1>3, ImsgAssumption DEF HistTimesOut, TypeOK
  <2> QED
    BY <1>3, <2>1, ReadsOK DEF HistTimesOut, HistOnly, TypeOK, history
<1>4. CASE HistEndsChat
  BY <1>4 DEF HistEndsChat, HistOnly, TypeOK, history
<1>5. CASE HistSaves
  BY <1>5, ReadsOK DEF HistSaves, HistOnly, TypeOK, history
<1>6. ASSUME NEW c \in Chats, HistFetches(c)
      PROVE  TypeOK'
  <2>1. /\ Recent(c) \subseteq 1..shown
        /\ Max(Recent(c) \cup {hist.snap[c]}) \in 0..shown
    BY Answer DEF TypeOK
  <2>2. /\ hist' \in [at : {"rows"}, snap : [Chats -> 0..shown],
                      todo : SUBSET Chats, chat : Chats,
                      rows : SUBSET (1..shown), max : 0..shown]
    BY <1>6, <2>1 DEF HistFetches, TypeOK
  <2> QED
    BY <1>6, <2>2 DEF HistFetches, HistOnly, TypeOK, history
<1>7. ASSUME NEW m \in Msgs, HistWrites(m) \/ HistWriteFails(m)
      PROVE  TypeOK'
  <2>1. m \in 1..shown
    BY <1>7 DEF HistWrites, HistWriteFails, TypeOK
  <2>2. copies' \in [Msgs -> 0..2] /\ failed' \subseteq 1..shown
    BY <1>7, <2>1, WrittenType, SMTT(30) DEF HistWrites, HistWriteFails, TypeOK
  <2>3. faults' \in 0..MaxFaults
    BY <1>7, ImsgAssumption DEF HistWrites, HistWriteFails, TypeOK
  <2>4. hist' = [hist EXCEPT !.rows = @ \ {m}]
    BY <1>7 DEF HistWrites, HistWriteFails
  <2>5. /\ hist' \in [at : {"idle", "chats", "rows"}, snap : [Chats -> 0..shown],
                      todo : SUBSET Chats, chat : Chats \cup {NoChat},
                      rows : SUBSET (1..shown), max : 0..shown]
        /\ hist'.at = hist.at /\ hist'.chat = hist.chat
    BY <2>4 DEF TypeOK
  <2> QED
    BY <1>7, <2>2, <2>3, <2>5 DEF HistWrites, HistWriteFails, HistOnly, TypeOK
<1> QED
  BY <1>1, <1>2, <1>3, <1>4, <1>5, <1>6, <1>7 DEF Hist

LEMMA RestartsType == TypeOK /\ Restarts => TypeOK'
<1> SUFFICES ASSUME TypeOK, Restarts PROVE TypeOK'
  OBVIOUS
<1>1. faults' \in 0..MaxFaults
  BY ImsgAssumption DEF Restarts, TypeOK
<1> QED
  BY <1>1, NoStream, ReadsOK, UnreadShown DEF Restarts, TypeOK

LEMMA NextType == TypeOK /\ [Next]_vars => TypeOK'
<1> SUFFICES ASSUME TypeOK, [Next]_vars PROVE TypeOK'
  OBVIOUS
<1>1. CASE UNCHANGED vars
  BY <1>1 DEF TypeOK, vars
<1> QED
  BY <1>1, AppearsType, StreamType, WatchType, HistType, RestartsType DEF Next

\* The variables keep their types, and no id in any of them is ahead of the
\* platform.
THEOREM ImsgTypeCorrect == Spec => []TypeOK
  BY InitType, NextType, PTL DEF Spec

----------------------------------------------------------------------------
(* Gaps. *)

Later(m) == \E k \in bumped : ChatOf[k] = ChatOf[m] /\ k > m

\* Why a frontier may pass m: for good, once it is so.
Excused(m) ==
    m \in Own \/ copies[m] > 0 \/ m \in failed \/ Later(m) \/ Overflowed(m)

\* Every message somebody else sent is somewhere.
Accounted ==
    \A m \in 1..shown :
        m \in Own \/ copies[m] > 0 \/ m \in failed \cup Unread \cup missed

\* What the watch thread is to save a frontier for is in the inbox.
InInbox == watch.at \in {"load", "save"} => copies[watch.msg] > 0

\* The frontiers f have passed excused messages only.
Passed(f) == \A m \in 1..shown : m <= f[ChatOf[m]] => Excused(m)

\* So will the frontier of the chat whose rows are being written.
RowsLeft ==
    hist.at = "rows" =>
        \A m \in 1..shown :
            ChatOf[m] = hist.chat /\ m <= hist.max => Excused(m) \/ m \in hist.rows

ImsgInv ==
    /\ Accounted /\ InInbox /\ RowsLeft
    /\ Passed(lastSeen) /\ Passed(watch.snap) /\ Passed(hist.snap)

LEMMA PassedUnseen == TypeOK => Passed(Unseen)
BY ShownOK DEF Passed, Unseen

LEMMA InitInv == Init => ImsgInv
<1> SUFFICES ASSUME Init PROVE ImsgInv
  OBVIOUS
<1>1. TypeOK /\ 1..shown = {}
  BY InitType DEF Init
<1> QED
  BY <1>1 DEF Init, ImsgInv, Accounted, InInbox, RowsLeft, Passed, WatchReads, HistIdle

\* What happens to the histories in a step.
LEMMA Histories ==
    ASSUME TypeOK, [Next]_vars
    PROVE  /\ failed \subseteq failed' /\ bumped \subseteq bumped'
           /\ missed \subseteq missed'
           /\ \/ UNCHANGED shown
              \/ shown' = shown + 1 /\ UNCHANGED <<watch, hist, lastSeen, copies>>
           /\ \A m \in Msgs : copies'[m] >= copies[m]
           /\ shown \in Nat /\ shown' \in Nat /\ shown <= shown'
<1>1. failed \subseteq failed' /\ bumped \subseteq bumped' /\ missed \subseteq missed'
  BY DEF Next, vars, Appears, StreamDies, StreamIsCycled, Watch, Hist, Restarts,
         Reconnects, WatchTakesLine, WatchWrites, WatchWriteFails, WatchLoads,
         WatchSaves, WatchGoesOn, HistLoads, HistRequestFails, HistTimesOut,
         HistEndsChat, HistSaves, HistFetches, HistWrites, HistWriteFails, history
<1>2. \/ UNCHANGED shown
      \/ shown' = shown + 1 /\ UNCHANGED <<watch, hist, lastSeen, copies>>
  BY DEF Next, vars, Appears, StreamDies, StreamIsCycled, Watch, Hist, Restarts,
         Reconnects, WatchTakesLine, WatchWrites, WatchWriteFails, WatchLoads,
         WatchSaves, WatchGoesOn, HistLoads, HistRequestFails, HistTimesOut,
         HistEndsChat, HistSaves, HistFetches, HistWrites, HistWriteFails, history,
         WatchOnly, HistOnly
<1>3. \/ copies' = copies
      \/ WatchWrites
      \/ \E m \in Msgs : HistWrites(m)
  BY DEF Next, vars, Appears, StreamDies, StreamIsCycled, Watch, Hist, Restarts,
         Reconnects, WatchTakesLine, WatchWriteFails, WatchLoads,
         WatchSaves, WatchGoesOn, HistLoads, HistRequestFails, HistTimesOut,
         HistEndsChat, HistSaves, HistFetches, HistWriteFails, history
<1>4. copies' = copies \/ \E m \in Msgs : copies' = Written(m)
  <2>1. WatchWrites => watch.msg \in Msgs
    BY ShownOK DEF WatchWrites, TypeOK
  <2> QED
    BY <1>3, <2>1 DEF WatchWrites, HistWrites
<1>5. \A m \in Msgs : copies[m] \in 0..2
  BY DEF TypeOK
<1>6. \A m \in Msgs : copies'[m] >= copies[m]
  <2>1. CASE copies' = copies
    BY <1>5, <2>1
  <2>2. CASE \E m \in Msgs : copies' = Written(m)
    BY <2>2, WrittenType
  <2> QED
    BY <1>4, <2>1, <2>2
<1>7. shown \in Nat /\ shown' \in Nat /\ shown <= shown'
  BY <1>2, ShownOK
<1> QED
  BY <1>1, <1>2, <1>6, <1>7

LEMMA ExcusedStays ==
    ASSUME TypeOK, TypeOK', [Next]_vars, NEW m \in 1..shown, Excused(m)
    PROVE  Excused(m)'
<1>0. m \in Msgs /\ copies[m] \in 0..2 /\ copies'[m] \in 0..2 /\ copies'[m] >= copies[m]
  BY ShownOK, Histories DEF TypeOK
<1>1. CASE m \in Own \/ copies[m] > 0 \/ m \in failed \/ Later(m)
  BY <1>0, <1>1, Histories DEF Excused, Later
<1>2. CASE Overflowed(m)
  <2> DEFINE F == {k \in InChat(ChatOf[m]) : k > m}
  <2>1. shown \in Nat /\ shown' \in Nat /\ 1..shown \subseteq 1..shown'
    BY Histories
  <2>2. F \subseteq F' /\ F' \subseteq 1..shown' /\ F \subseteq 1..shown
    BY <2>1 DEF InChat
  <2>3. Overflowed(m)' <=> Cardinality(F') >= HistoryLimit
    BY DEF Overflowed
  <2>4. Cardinality(F) >= HistoryLimit
    BY <1>2 DEF Overflowed
  <2> HIDE DEF F
  <2>5. /\ IsFiniteSet(F') /\ Cardinality(F') \in Nat /\ Cardinality(F) \in Nat
    BY <2>1, <2>2, FiniteUpTo
  <2>6. Cardinality(F) <= Cardinality(F')
    BY <2>2, <2>5, FS_Subset
  <2>7. Cardinality(F') >= HistoryLimit
    BY <2>4, <2>5, <2>6, ImsgAssumption
  <2> QED
    BY <2>3, <2>7 DEF Excused
<1> QED
  BY <1>1, <1>2 DEF Excused

\* Frontiers that were good stay good; new messages are above them.
LEMMA PassedStays ==
    ASSUME TypeOK, TypeOK', [Next]_vars,
           NEW f \in [Chats -> 0..shown], Passed(f)
    PROVE  \A m \in 1..shown' : m <= f[ChatOf[m]] => Excused(m)'
<1> SUFFICES ASSUME NEW m \in 1..shown', m <= f[ChatOf[m]]
             PROVE  Excused(m)'
  OBVIOUS
<1>1. /\ shown \in Nat /\ m \in Nat /\ ChatOf[m] \in Chats
      /\ shown' = shown \/ shown' = shown + 1
  <2>1. m \in Msgs
    BY ImsgAssumption DEF TypeOK, Msgs
  <2> QED
    BY <2>1, Histories, ImsgAssumption DEF Msgs
<1>2. f[ChatOf[m]] \in 0..shown
  BY <1>1
<1>3. m \in 1..shown
  BY <1>1, <1>2
<1> QED
  BY <1>3, ExcusedStays DEF Passed

\* The unread lines of the stream, before and after.
LEMMA UnreadStays ==
    ASSUME TypeOK, TypeOK', [Next]_vars
    PROVE  /\ \A m \in Unread : \/ m \in Own \/ copies'[m] > 0
                                \/ m \in failed' \cup Unread' \cup missed'
           /\ \A m \in 1..shown' \ 1..shown : m \in Unread' \cup missed'
<1>0. Unread \subseteq 1..shown /\ shown \in Nat
  BY UnreadShown, ShownOK
<1>1. CASE Appears
  <2>1. /\ shown' = shown + 1 /\ watch' = watch
        /\ \A m \in 1..shown' \ 1..shown : m = shown'
    BY <1>0, <1>1 DEF Appears
  <2>2. CASE stream.up
    <3>1. /\ stream'.lines = Append(stream.lines, shown')
          /\ stream.lines \in Seq(Nat) /\ shown' \in Nat
      <4>1. stream.lines \in Seq(Nat)
        BY <1>0, SeqWiden DEF TypeOK
      <4> QED
        BY <1>0, <1>1, <2>1, <2>2, <4>1 DEF Appears, TypeOK
    <3>2. /\ Len(stream.lines) \in Nat
          /\ DOMAIN stream.lines = 1..Len(stream.lines)
          /\ DOMAIN stream'.lines = 1..Len(stream.lines) + 1
          /\ \A i \in 1..Len(stream.lines) : stream'.lines[i] = stream.lines[i]
          /\ stream'.lines[Len(stream.lines) + 1] = shown'
      BY <3>1, AppendProperties, LenProperties
    <3>3. Unread \subseteq Unread' /\ shown' \in Unread'
      BY <2>1, <3>2 DEF Unread
    <3> QED
      BY <2>1, <3>3
  <2>3. CASE ~stream.up
    <3>1. stream' = stream /\ shown' \in missed'
      BY <1>1, <2>3 DEF Appears
    <3> QED
      BY <2>1, <3>1 DEF Unread
  <2> QED
    BY <2>2, <2>3
<1>2. CASE StreamDies \/ Reconnects
  <2>1. stream'.lines = stream.lines /\ watch' = watch /\ shown' = shown
    BY <1>2 DEF StreamDies, Reconnects, TypeOK
  <2> QED
    BY <2>1 DEF Unread
<1>3. CASE StreamIsCycled \/ WatchWriteFails \/ Restarts
  <2>1. missed' = missed \cup Unread /\ shown' = shown
    BY <1>3 DEF StreamIsCycled, WatchWriteFails, Restarts, WatchOnly
  <2> QED
    BY <2>1
<1>4. CASE WatchTakesLine
  <2> DEFINE s == stream.lines
  <2>1. /\ s \in Seq(1..shown) /\ s # <<>> /\ stream'.lines = Tail(s)
        /\ shown' = shown /\ watch.at = "read"
    BY <1>4 DEF WatchTakesLine, WatchOnly, TypeOK
  <2>2. /\ Len(s) \in Nat /\ DOMAIN s = 1..Len(s) /\ Head(s) = s[1]
        /\ Len(Tail(s)) = Len(s) - 1 /\ DOMAIN Tail(s) = 1..Len(s) - 1
        /\ \A i \in 1..Len(s) - 1 : Tail(s)[i] = s[i + 1]
    BY <2>1, HeadTailProperties, LenProperties
  <2>3. \A i \in 2..Len(s) : i - 1 \in DOMAIN Tail(s) /\ Tail(s)[i - 1] = s[i]
    BY <2>2
  <2>4. \A i \in DOMAIN s : s[i] = Head(s) \/ \E j \in DOMAIN Tail(s) : Tail(s)[j] = s[i]
    BY <2>2, <2>3
  <2>5. \A m \in Unread : m = Head(s) \/ m \in Unread'
    BY <2>1, <2>4 DEF Unread
  <2>6. Head(s) \in Own \/ Head(s) \in Unread'
    BY <1>4, ReadsOK DEF WatchTakesLine, Unread
  <2> QED
    BY <2>1, <2>5, <2>6
<1>5. CASE WatchWrites
  <2>1. watch.msg \in Msgs /\ stream' = stream /\ shown' = shown
    BY <1>5, ShownOK DEF WatchWrites, WatchOnly, TypeOK
  <2>2. copies'[watch.msg] > 0
    BY <1>5, <2>1, WrittenType DEF WatchWrites
  <2> QED
    BY <2>1, <2>2 DEF Unread
<1>6. CASE WatchLoads \/ WatchSaves \/ WatchGoesOn
  <2>1. stream' = stream /\ shown' = shown /\ watch.at # "write"
    BY <1>6 DEF WatchLoads, WatchSaves, WatchGoesOn, WatchOnly
  <2> QED
    BY <2>1 DEF Unread
<1>7. CASE Hist \/ UNCHANGED vars
  <2>1. stream' = stream /\ watch' = watch /\ shown' = shown
    BY <1>7 DEF Hist, vars, HistLoads, HistRequestFails, HistTimesOut, HistEndsChat,
       HistSaves, HistFetches, HistWrites, HistWriteFails, HistOnly
  <2> QED
    BY <2>1 DEF Unread
<1> QED
  BY <1>1, <1>2, <1>3, <1>4, <1>5, <1>6, <1>7 DEF Next, Watch

LEMMA AccountedStays ==
    ASSUME TypeOK, TypeOK', [Next]_vars, Accounted
    PROVE  Accounted'
<1> SUFFICES ASSUME NEW m \in 1..shown'
             PROVE  m \in Own \/ copies'[m] > 0 \/ m \in failed' \cup Unread' \cup missed'
  BY DEF Accounted
<1>1. CASE m \notin 1..shown
  BY <1>1, UnreadStays
<1>2. CASE m \in 1..shown /\ m \in Unread
  BY <1>2, UnreadStays
<1>3. CASE m \in 1..shown /\ m \notin Unread
  <2>1. m \in Own \/ copies[m] > 0 \/ m \in failed \cup missed
    BY <1>3 DEF Accounted
  <2>2. m \in Msgs /\ copies[m] \in 0..2 /\ copies'[m] \in 0..2
    BY <1>3, ShownOK DEF TypeOK
  <2> QED
    BY <2>1, <2>2, Histories
<1> QED
  BY <1>1, <1>2, <1>3

LEMMA InInboxStays ==
    ASSUME TypeOK, TypeOK', [Next]_vars, InInbox
    PROVE  InInbox'
<1>1. CASE WatchWrites
  <2>1. watch.msg \in Msgs
    BY <1>1, ShownOK DEF WatchWrites, TypeOK
  <2>2. copies'[watch.msg] > 0 /\ watch'.msg = watch.msg
    BY <1>1, <2>1, WrittenType DEF WatchWrites, TypeOK
  <2> QED
    BY <2>2 DEF InInbox
<1>2. CASE watch'.at \notin {"load", "save"}
  BY <1>2 DEF InInbox
<1>3. CASE /\ watch.at \in {"load", "save"} /\ watch'.msg = watch.msg
  <2>0. watch.msg \in 0..shown /\ watch.msg # 0
    BY <1>3 DEF TypeOK
  <2>1. watch.msg \in Msgs
    BY <2>0, ShownOK
  <2>2. copies'[watch.msg] >= copies[watch.msg]
        /\ copies[watch.msg] \in 0..2 /\ copies'[watch.msg] \in 0..2
    BY <2>1, Histories DEF TypeOK
  <2> QED
    BY <1>3, <2>2 DEF InInbox
<1>4. CASE watch' = watch
  BY <1>3, <1>4, <1>2
<1>5. WatchLoads => watch.at = "load"
                    /\ (watch'.at \notin {"load", "save"} \/ watch'.msg = watch.msg)
  BY ReadsOK DEF WatchLoads, TypeOK
<1>6. WatchTakesLine => watch'.at \notin {"load", "save"}
  BY ReadsOK DEF WatchTakesLine
<1>7. \/ StreamIsCycled \/ WatchWriteFails \/ WatchSaves \/ WatchGoesOn \/ Restarts
      => watch'.at \notin {"load", "save"}
  BY ReadsOK DEF StreamIsCycled, WatchWriteFails, WatchSaves, WatchGoesOn, Restarts
<1>8. \/ Appears \/ StreamDies \/ Reconnects \/ Hist \/ UNCHANGED vars
      => watch' = watch
  BY DEF Appears, StreamDies, Reconnects, Hist, vars, HistLoads, HistRequestFails,
     HistTimesOut, HistEndsChat, HistSaves, HistFetches, HistWrites, HistWriteFails,
     HistOnly
<1> QED
  BY <1>1, <1>2, <1>3, <1>4, <1>5, <1>6, <1>7, <1>8 DEF Next, Watch

\* Where the saved frontiers come from.
LEMMA LastSeenStays ==
    ASSUME TypeOK, TypeOK', [Next]_vars, ImsgInv
    PROVE  Passed(lastSeen)'
<1>0. /\ watch.snap \in [Chats -> 0..shown] /\ hist.snap \in [Chats -> 0..shown]
      /\ lastSeen \in [Chats -> 0..shown]
  BY DEF TypeOK
<1>1. CASE lastSeen' \in {lastSeen, hist.snap}
  BY <1>0, <1>1, PassedStays DEF Passed, ImsgInv
<1>2. CASE WatchSaves
  <2> DEFINE n == watch.msg
             c == ChatOf[n]
  <2>1. /\ n \in 1..shown /\ n \in Nat /\ c \in Chats /\ shown' = shown
        /\ lastSeen' = [watch.snap EXCEPT ![c] = n] /\ n \in bumped'
        /\ copies[n] > 0 /\ copies' = copies /\ failed' = failed
    BY <1>2, ShownOK DEF WatchSaves, WatchOnly, TypeOK, ImsgInv, InInbox
  <2> HIDE DEF n
  <2> SUFFICES ASSUME NEW m \in 1..shown', m <= lastSeen'[ChatOf[m]]
               PROVE  Excused(m)'
    BY DEF Passed
  <2>2. m \in 1..shown /\ m \in Nat /\ ChatOf[m] \in Chats
    BY <2>1, ShownOK
  <2>3. CASE m <= watch.snap[ChatOf[m]]
    BY <1>0, <2>3, PassedStays DEF ImsgInv
  <2>4. CASE ChatOf[m] = c /\ m = n
    BY <2>1, <2>4 DEF Excused
  <2>5. CASE ChatOf[m] = c /\ m < n
    <3>1. ASSUME NEW k, k = n PROVE k \in bumped' /\ ChatOf[k] = ChatOf[m] /\ k > m
      BY <2>1, <2>5, <3>1
    <3>2. Later(m)'
      BY <3>1 DEF Later
    <3> QED
      BY <3>2 DEF Excused
  <2>6. lastSeen'[ChatOf[m]] = IF ChatOf[m] = c THEN n ELSE watch.snap[ChatOf[m]]
    BY <1>0, <2>1, <2>2
  <2> QED
    BY <2>1, <2>2, <2>3, <2>4, <2>5, <2>6
<1>3. WatchSaves \/ lastSeen' \in {lastSeen, hist.snap}
  BY DEF Next, vars, Appears, StreamDies, StreamIsCycled, Watch, Hist, Restarts,
         Reconnects, WatchTakesLine, WatchWrites, WatchWriteFails, WatchLoads,
         WatchGoesOn, HistLoads, HistRequestFails, HistTimesOut,
         HistEndsChat, HistSaves, HistFetches, HistWrites, HistWriteFails, history
<1> QED
  BY <1>1, <1>2, <1>3

LEMMA WatchSnapStays ==
    ASSUME TypeOK, TypeOK', [Next]_vars, ImsgInv
    PROVE  Passed(watch.snap)'
<1>0. /\ watch.snap \in [Chats -> 0..shown] /\ lastSeen \in [Chats -> 0..shown]
      /\ Unseen \in [Chats -> 0..shown] /\ Passed(Unseen)
  BY ReadsOK, PassedUnseen DEF TypeOK
<1>1. CASE watch'.snap \in {watch.snap, lastSeen, Unseen}
  BY <1>0, <1>1, PassedStays DEF Passed, ImsgInv
<1>2. WatchReads.snap = Unseen /\ WatchChecks.snap = Unseen
      /\ \A n : [WatchReads EXCEPT !.at = "write", !.msg = n].snap = Unseen
  BY DEF WatchReads, WatchChecks
<1>3. CASE watch' = watch
  BY <1>1, <1>3
<1>4. CASE WatchTakesLine \/ WatchWriteFails \/ WatchSaves \/ WatchGoesOn
           \/ StreamIsCycled \/ Restarts
  BY <1>1, <1>2, <1>4 DEF WatchTakesLine, WatchWriteFails, WatchSaves, WatchGoesOn,
     StreamIsCycled, Restarts
<1>5. CASE WatchWrites \/ WatchLoads
  BY <1>1, <1>2, <1>5 DEF WatchWrites, WatchLoads, TypeOK
<1>6. \/ Appears \/ StreamDies \/ Reconnects \/ Hist \/ UNCHANGED vars
      => watch' = watch
  BY DEF Appears, StreamDies, Reconnects, Hist, vars, HistLoads, HistRequestFails,
     HistTimesOut, HistEndsChat, HistSaves, HistFetches, HistWrites, HistWriteFails,
     HistOnly
<1> QED
  BY <1>3, <1>4, <1>5, <1>6 DEF Next, Watch

\* When a chat's answer comes, what its highest id will pass is excused or among
\* the rows to write.
LEMMA FetchedRows ==
    ASSUME TypeOK, ImsgInv, NEW c \in Chats, HistFetches(c)
    PROVE  \A m \in 1..shown : ChatOf[m] = c => Excused(m) \/ m \in hist'.rows
<1> SUFFICES ASSUME NEW m \in 1..shown, ChatOf[m] = c
             PROVE  Excused(m) \/ m \in hist'.rows
  OBVIOUS
<1>1. hist'.rows = {k \in Recent(c) \ Own : k > hist.snap[c]}
  BY DEF HistFetches, TypeOK
<1>2. hist.snap[c] \in Nat /\ m \in Nat
  BY ShownOK DEF TypeOK
<1>3. CASE m <= hist.snap[c]
  BY <1>3 DEF ImsgInv, Passed
<1>4. CASE m > hist.snap[c] /\ m \in Recent(c)
  BY <1>1, <1>4 DEF Excused
<1>5. CASE m \notin Recent(c)
  BY <1>5 DEF Recent, InChat, Excused
<1> QED
  BY <1>2, <1>3, <1>4, <1>5

LEMMA RowsStay ==
    ASSUME TypeOK, TypeOK', [Next]_vars, ImsgInv
    PROVE  RowsLeft'
<1>1. CASE \E c \in Chats : HistFetches(c)
  <2>1. PICK c \in Chats : HistFetches(c)
    BY <1>1
  <2>2. hist'.chat = c /\ shown' = shown
    BY <2>1 DEF HistFetches, HistOnly, TypeOK
  <2>3. \A m \in 1..shown : ChatOf[m] = c => Excused(m) \/ m \in hist'.rows
    BY <2>1, FetchedRows
  <2> QED
    BY <2>2, <2>3, ExcusedStays DEF RowsLeft
<1>2. CASE hist'.at # "rows"
  BY <1>2 DEF RowsLeft
<1>3. ASSUME hist.at = "rows", hist'.chat = hist.chat, hist'.max = hist.max,
             \A m \in hist.rows : m \in hist'.rows \/ Excused(m)'
      PROVE  RowsLeft'
  <2> SUFFICES ASSUME NEW m \in 1..shown', ChatOf[m] = hist.chat, m <= hist.max
               PROVE  Excused(m)' \/ m \in hist'.rows
    BY <1>3 DEF RowsLeft
  <2>1. hist.max \in 0..shown /\ shown \in Nat /\ shown' \in Nat
    BY Histories DEF TypeOK
  <2>2. m \in 1..shown
    BY <2>1
  <2>3. Excused(m) \/ m \in hist.rows
    BY <1>3, <2>2 DEF ImsgInv, RowsLeft
  <2> QED
    BY <1>3, <2>2, <2>3, ExcusedStays
<1>4. CASE hist' = hist
  BY <1>2, <1>3, <1>4
<1>5. ASSUME NEW n \in Msgs, HistWrites(n) \/ HistWriteFails(n)
      PROVE  RowsLeft'
  <2>1. /\ hist.at = "rows" /\ hist'.chat = hist.chat /\ hist'.max = hist.max
        /\ hist'.rows = hist.rows \ {n}
    BY <1>5 DEF HistWrites, HistWriteFails, TypeOK
  <2>2. copies'[n] > 0 \/ n \in failed'
    BY <1>5, WrittenType DEF HistWrites, HistWriteFails
  <2>3. Excused(n)'
    BY <2>2 DEF Excused
  <2> QED
    BY <1>3, <2>1, <2>3
<1>6. HistLoads \/ HistRequestFails \/ HistTimesOut \/ HistEndsChat \/ HistSaves
      \/ Restarts => hist'.at # "rows"
  BY ReadsOK DEF HistLoads, HistRequestFails, HistTimesOut, HistEndsChat, HistSaves,
     Restarts, TypeOK
<1>7. Appears \/ StreamDies \/ StreamIsCycled \/ Watch \/ UNCHANGED vars => hist' = hist
  BY DEF Appears, StreamDies, StreamIsCycled, Watch, vars, Reconnects, WatchTakesLine,
     WatchWrites, WatchWriteFails, WatchLoads, WatchSaves, WatchGoesOn, WatchOnly
<1> QED
  BY <1>1, <1>2, <1>4, <1>5, <1>6, <1>7 DEF Next, Hist

LEMMA HistSnapStays ==
    ASSUME TypeOK, TypeOK', [Next]_vars, ImsgInv
    PROVE  Passed(hist.snap)'
<1>0. /\ hist.snap \in [Chats -> 0..shown] /\ lastSeen \in [Chats -> 0..shown]
      /\ Unseen \in [Chats -> 0..shown] /\ Passed(Unseen)
  BY ReadsOK, PassedUnseen DEF TypeOK
<1>1. CASE hist'.snap \in {hist.snap, lastSeen, Unseen}
  BY <1>0, <1>1, PassedStays DEF Passed, ImsgInv
<1>2. CASE HistEndsChat
  <2> DEFINE c == hist.chat
             f == [hist.snap EXCEPT ![c] = hist.max]
  <2>1. /\ hist'.snap = f /\ hist.at = "rows" /\ hist.rows = {}
        /\ c \in Chats /\ hist.max \in 0..shown
    BY <1>2 DEF HistEndsChat, TypeOK
  <2>2. f \in [Chats -> 0..shown]
    BY <1>0, <2>1
  <2>3. ASSUME NEW m \in 1..shown, m <= f[ChatOf[m]] PROVE Excused(m)
    <3>1. ChatOf[m] \in Chats
      BY ShownOK
    <3>2. CASE ChatOf[m] = c
      BY <1>0, <2>1, <2>3, <3>1, <3>2 DEF ImsgInv, RowsLeft
    <3>3. CASE ChatOf[m] # c
      BY <1>0, <2>3, <3>1, <3>3 DEF ImsgInv, Passed
    <3> QED
      BY <3>2, <3>3
  <2> HIDE DEF f
  <2>4. Passed(f)
    BY <2>3 DEF Passed
  <2> QED
    BY <2>1, <2>2, <2>4, PassedStays DEF Passed
<1>3. HistIdle.snap = Unseen
  BY DEF HistIdle
<1>4. CASE HistLoads \/ HistTimesOut \/ HistSaves \/ Restarts
  BY <1>1, <1>3, <1>4 DEF HistLoads, HistTimesOut, HistSaves, Restarts, HistIdle
<1>5. CASE \/ HistRequestFails \/ \E c \in Chats : HistFetches(c)
           \/ \E m \in Msgs : HistWrites(m) \/ HistWriteFails(m)
  BY <1>1, <1>5 DEF HistRequestFails, HistFetches, HistWrites, HistWriteFails, TypeOK
<1>6. Appears \/ StreamDies \/ StreamIsCycled \/ Watch \/ UNCHANGED vars => hist' = hist
  BY DEF Appears, StreamDies, StreamIsCycled, Watch, vars, Reconnects, WatchTakesLine,
     WatchWrites, WatchWriteFails, WatchLoads, WatchSaves, WatchGoesOn, WatchOnly
<1>7. CASE hist' = hist
  BY <1>1, <1>7
<1> QED
  BY <1>2, <1>4, <1>5, <1>6, <1>7 DEF Next, Hist

\* However the loads and saves of the two threads interleave, a frontier passes
\* a message only when it is in the inbox, about to be, or has a reason not to.
THEOREM ImsgGapsExplained == Spec => []GapsHaveAReason
<1>1. TypeOK /\ TypeOK' /\ ImsgInv /\ [Next]_vars => ImsgInv'
  BY AccountedStays, InInboxStays, LastSeenStays, WatchSnapStays, RowsStay,
     HistSnapStays DEF ImsgInv
<1>2. TypeOK /\ ImsgInv => GapsHaveAReason
  <2> SUFFICES ASSUME TypeOK, ImsgInv, NEW m \in Msgs, PassedOver(m),
                      m \notin failed \cup Unread
               PROVE  m \in missed /\ (Later(m) \/ Overflowed(m))
    BY DEF GapsHaveAReason, Later
  <2>1. m \in 1..shown
    <3>1. lastSeen[ChatOf[m]] \in 0..shown /\ shown \in Nat /\ m \in Nat /\ m >= 1
      BY ImsgAssumption, ShownOK DEF TypeOK, Msgs
    <3> QED
      BY <3>1 DEF PassedOver
  <2>2. copies[m] = 0 /\ m \notin Own /\ m <= lastSeen[ChatOf[m]]
    BY DEF PassedOver
  <2> QED
    BY <2>1, <2>2 DEF ImsgInv, Accounted, Passed, Excused
<1> QED
  BY InitInv, ImsgTypeCorrect, <1>1, <1>2, PTL DEF Spec

=============================================================================
