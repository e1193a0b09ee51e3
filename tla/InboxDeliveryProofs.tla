------------------------ MODULE InboxDeliveryProofs ------------------------
(***************************************************************************)
(* Proofs about InboxDelivery, for every set of files, bridges and ids and *)
(* every bound: type correctness, the dedup window and at-most-once, what  *)
(* leaves the inbox, and the order of the hand-offs.                       *)
(***************************************************************************)
EXTENDS InboxDelivery, Functions, FiniteSetTheorems, SequenceTheorems, TLAPS

\* Removing a name from a listing leaves a listing.
LEMMA WithoutType ==
    ASSUME NEW S, NEW s \in Seq(S), NEW f
    PROVE  Without(s, f) \in Seq(S)
<1>1. CASE \E i \in 1..Len(s) : s[i] = f
  <2> DEFINE j == CHOOSE i \in 1..Len(s) : s[i] = f
  <2>1. j \in 1..Len(s)
    BY <1>1
  <2>2. Without(s, f) = SubSeq(s, 1, j - 1) \o SubSeq(s, j + 1, Len(s))
    BY <1>1 DEF Without
  <2> HIDE DEF j
  <2>3. Len(s) \in Nat /\ \A i \in 1..Len(s) : s[i] \in S
    BY LenProperties, ElementOfSeq
  <2>4. /\ 1 \in Int /\ j - 1 \in Int
        /\ \A i \in 1..(j - 1) : s[i] \in S
    BY <2>1, <2>3
  <2>5. SubSeq(s, 1, j - 1) \in Seq(S)
    BY <2>4, SubSeqProperties
  <2>6. /\ j + 1 \in Int /\ Len(s) \in Int
        /\ \A i \in (j + 1)..Len(s) : s[i] \in S
    BY <2>1, <2>3
  <2>7. SubSeq(s, j + 1, Len(s)) \in Seq(S)
    BY <2>6, SubSeqProperties
  <2> QED
    BY <2>2, <2>5, <2>7, ConcatProperties
<1>2. CASE ~ \E i \in 1..Len(s) : s[i] = f
  BY <1>2 DEF Without
<1> QED
  BY <1>1, <1>2

\* A write and a removal keep the directories sequences of files.
LEMMA DirectoryType ==
    ASSUME TypeOK, NEW f \in Files
    PROVE  /\ Touched(f) \in [Bridges -> Seq(Files)]
           /\ Removed(f) => /\ inbox' \in [Bridges -> Seq(Files)]
                            /\ file' \in [Files -> {"absent", "torn", "whole"}]
<1>1. BridgeOf[f] \in Bridges
  BY InboxAssumption
<1>2. inbox[BridgeOf[f]] \in Seq(Files)
  BY <1>1 DEF TypeOK
<1>3. Without(inbox[BridgeOf[f]], f) \in Seq(Files)
  BY <1>2, WithoutType
<1>4. Append(Without(inbox[BridgeOf[f]], f), f) \in Seq(Files)
  BY <1>3, AppendProperties
<1>5. /\ inbox \in [Bridges -> Seq(Files)]
      /\ file \in [Files -> {"absent", "torn", "whole"}]
  BY DEF TypeOK
<1>6. Touched(f) \in [Bridges -> Seq(Files)]
  BY <1>4, <1>5 DEF Touched
<1>7. Removed(f) => inbox' \in [Bridges -> Seq(Files)]
  BY <1>3, <1>5 DEF Removed
<1>8. Removed(f) => file' \in [Files -> {"absent", "torn", "whole"}]
  BY <1>5 DEF Removed
<1> QED
  BY <1>6, <1>7, <1>8

\* The keys are finitely many, so every set of them has a cardinality.
LEMMA KeysFinite == IsFiniteSet(Keys)
<1> DEFINE F == {g \in Files : HasId(g)}
           m == [g \in F |-> Key(g)]
<1>1. IsFiniteSet(F)
  BY InboxAssumption, FS_Subset
<1>2. m \in Surjection(F, Keys)
  BY DEF Surjection, Keys
<1> QED
  BY <1>1, <1>2, FS_Surjection

LEMMA KeyOfFile ==
    ASSUME NEW f \in Files, HasId(f)
    PROVE  Key(f) \in Keys
BY DEF Keys

LEMMA InitType == Init => TypeOK
BY InboxAssumption, EmptySeq DEF Init, TypeOK, Phases, NoFile, Keys

\* A failure is paid from the budget.
LEMMA FaultType ==
    ASSUME TypeOK, Fault
    PROVE  budget' \in [writes : [Files -> Nat], stops : Nat, faults : Nat,
                        expiries : Nat]
<1>1. /\ budget \in [writes : [Files -> Nat], stops : Nat, faults : Nat,
                     expiries : Nat]
      /\ budget.faults > 0
  BY DEF TypeOK, Fault
<1>2. budget.faults - 1 \in Nat
  BY <1>1
<1> QED
  BY <1>1, <1>2 DEF Fault

\* Unlinking, in the visit or after it, keeps the disk and the marks well typed.
LEMMA UnlinksType ==
    ASSUME TypeOK, NEW f \in Files, Unlinks(f)
    PROVE  /\ inbox' \in [Bridges -> Seq(Files)]
           /\ file' \in [Files -> {"absent", "torn", "whole"}]
           /\ seen' \subseteq Files
           /\ budget' \in [writes : [Files -> Nat], stops : Nat, faults : Nat,
                           expiries : Nat]
<1>1. CASE Removed(f) /\ UNCHANGED budget
  <2>1. /\ inbox' \in [Bridges -> Seq(Files)]
        /\ file' \in [Files -> {"absent", "torn", "whole"}]
    BY <1>1, DirectoryType
  <2> QED
    BY <1>1, <2>1 DEF TypeOK, Unlinks
<1>2. CASE Fault /\ UNCHANGED <<file, inbox>>
  BY <1>2, FaultType DEF TypeOK, Unlinks
<1> QED
  BY <1>1, <1>2 DEF Unlinks

\* What the poll task's listing gives up next is a file, its rest a listing.
LEMMA VisitType ==
    ASSUME TypeOK, NEW f \in Files, phase = "sweep", todo # <<>>
    PROVE  Tail(todo) \in Seq(Files)
BY HeadTailProperties DEF TypeOK

LEMMA WrapperType == TypeOK /\ Wrapper => TypeOK'
<1> SUFFICES ASSUME TypeOK, NEW f \in Files,
                    WrapperWrites(f) \/ RawWriteBegins(f) \/ RawWriteEnds(f)
             PROVE  TypeOK'
  BY DEF Wrapper
<1>1. Touched(f) \in [Bridges -> Seq(Files)]
  BY DirectoryType
<1>b. budget.writes[f] > 0 => [budget EXCEPT !.writes[f] = @ - 1]
          \in [writes : [Files -> Nat], stops : Nat, faults : Nat, expiries : Nat]
  <2> SUFFICES ASSUME budget.writes[f] > 0
               PROVE  [budget.writes EXCEPT ![f] = @ - 1] \in [Files -> Nat]
    BY DEF TypeOK
  <2> QED
    BY DEF TypeOK
<1>2. CASE WrapperWrites(f)
  BY <1>1, <1>b, <1>2 DEF WrapperWrites, TypeOK, sweep, window, history, Phases, NoFile
<1>3. CASE RawWriteBegins(f)
  BY <1>1, <1>b, <1>3 DEF RawWriteBegins, TypeOK, sweep, window, history, Phases, NoFile
<1>4. CASE RawWriteEnds(f)
  BY <1>1, <1>4 DEF RawWriteEnds, TypeOK, sweep, window, history, Phases, NoFile
<1> QED
  BY <1>2, <1>3, <1>4

LEMMA SweepType == TypeOK /\ (BeginSweep \/ ListBridge \/ ListFails \/ EndSweep) => TypeOK'
<1> SUFFICES ASSUME TypeOK, BeginSweep \/ ListBridge \/ ListFails \/ EndSweep
             PROVE  TypeOK'
  OBVIOUS
<1>1. CASE BeginSweep
  BY <1>1, InboxAssumption
  DEF BeginSweep, TypeOK, disk, window, history, Phases, NoFile
<1>2. CASE ListBridge
  <2>1. /\ Head(bridgesLeft) \in Bridges
        /\ Tail(bridgesLeft) \in Seq(Bridges)
    BY <1>2, HeadTailProperties DEF ListBridge, TypeOK
  <2>2. inbox[Head(bridgesLeft)] \in Seq(Files)
    BY <2>1 DEF TypeOK
  <2> QED
    BY <1>2, <2>1, <2>2
    DEF ListBridge, TypeOK, disk, window, history, Phases, NoFile
<1>3. CASE EndSweep
  BY <1>3 DEF EndSweep, TypeOK, disk, sweep, window, history, Phases, NoFile
<1>4. CASE ListFails
  <2>1. Tail(bridgesLeft) \in Seq(Bridges)
    BY <1>4, HeadTailProperties DEF ListFails, TypeOK
  <2> QED
    BY <1>4, <2>1 DEF ListFails, TypeOK, disk, window, history, Phases, NoFile
<1> QED
  BY <1>1, <1>2, <1>3, <1>4

LEMMA RecordIdType ==
    ASSUME TypeOK, NEW k \in Keys, RecordId(k)
    PROVE  /\ dedup' \subseteq Keys
           /\ newer' \in [Keys -> SUBSET Keys]
           /\ aged' \subseteq Keys
           /\ lapsed' \subseteq Keys
<1>1. dedup' \subseteq Keys
  BY DEF RecordId, Kept, TypeOK
<1>2. newer' \in [Keys -> SUBSET Keys]
  BY DEF RecordId, TypeOK
<1>3. aged' \subseteq Keys /\ lapsed' \subseteq Keys
  BY DEF RecordId, TypeOK
<1> QED
  BY <1>1, <1>2, <1>3

LEMMA VisitKeepsType == TypeOK /\ (\E f \in Files : Visit(f)) => TypeOK'
<1> SUFFICES ASSUME TypeOK, NEW f \in Files, Visit(f)
             PROVE  TypeOK'
  OBVIOUS
<1> USE DEF TypeOK, Visits, Unread, Reads, window, history, Phases, NoFile
<1>0. phase = "sweep" /\ todo # <<>>
  BY DEF Visit, RejectLink, SkipSeen, CountBadRead, Quarantine, SkipNoSender,
         FailOnUndecodable, FailOnMalformed, SuppressDuplicate, Refuse, Absorb, StartReaction,
         RecordChat
<1>t. Tail(todo) \in Seq(Files)
  BY <1>0, VisitType
<1>1. CASE RejectLink(f)
  BY <1>1, <1>t DEF RejectLink
<1>2. CASE SkipSeen(f)
  BY <1>2, <1>t DEF SkipSeen
<1>3. CASE CountBadRead(f)
  BY <1>3, <1>t DEF CountBadRead
<1>4. CASE Quarantine(f)
  <2>1. CASE Removed(f) /\ quarantined' = quarantined \cup {f} /\ UNCHANGED budget
    <3>1. /\ inbox' \in [Bridges -> Seq(Files)]
          /\ file' \in [Files -> {"absent", "torn", "whole"}]
      BY <2>1, DirectoryType
    <3> QED
      BY <1>4, <1>t, <2>1, <3>1 DEF Quarantine
  <2>2. CASE Fault /\ UNCHANGED <<file, inbox, quarantined>>
    BY <1>4, <1>t, <2>2, FaultType DEF Quarantine
  <2> QED
    BY <1>4, <2>1, <2>2 DEF Quarantine
<1>u. CASE FailOnUndecodable(f)
  BY <1>u, EmptySeq DEF FailOnUndecodable, AbortSweep, disk
<1>5. CASE SkipNoSender(f)
  BY <1>5, <1>t DEF SkipNoSender
<1>6. CASE FailOnMalformed(f)
  BY <1>6, EmptySeq DEF FailOnMalformed, AbortSweep, disk
<1>7. CASE SuppressDuplicate(f)
  BY <1>7, <1>t, UnlinksType DEF SuppressDuplicate
<1>8. CASE Refuse(f)
  BY <1>8, <1>t, UnlinksType DEF Refuse
<1>9. CASE Absorb(f)
  BY <1>9, <1>t DEF Absorb
<1>10. CASE StartReaction(f)
  BY <1>10, <1>t DEF StartReaction
<1>11. CASE RecordChat(f)
  <2>1. CASE HasId(f)
    BY <1>11, <1>t, <2>1, KeyOfFile, RecordIdType DEF RecordChat
  <2>2. CASE ~HasId(f)
    BY <1>11, <1>t, <2>2 DEF RecordChat
  <2> QED
    BY <2>1, <2>2
<1> QED
  BY <1>1, <1>2, <1>3, <1>4, <1>u, <1>5, <1>6, <1>7, <1>8, <1>9, <1>10, <1>11
  DEF Visit

LEMMA HandlingType ==
    TypeOK /\ (HandOff \/ Unlink \/ Gateway) => TypeOK'
<1> SUFFICES ASSUME TypeOK, HandOff \/ Unlink \/ Gateway
             PROVE  TypeOK'
  OBVIOUS
<1> USE DEF Phases, NoFile, window, disk, sweep
<1>1. CASE HandOff
  <2>1. cur \in Files
    BY <1>1 DEF HandOff, TypeOK
  <2>2. CASE HasId(cur)
    <3>1. Key(cur) \in Keys
      BY <2>1, <2>2, KeyOfFile
    <3>2. handed[Key(cur)] \in Nat
      BY <3>1 DEF TypeOK
    <3>3. (IF Key(cur) \in lapsed THEN 1 ELSE handed[Key(cur)] + 1) \in Nat
      BY <3>2
    <3>4. handed' \in [Keys -> Nat]
      BY <1>1, <2>2, <3>3 DEF HandOff, TypeOK
    <3>5. lapsed' \subseteq Keys
      BY <1>1, <2>2 DEF HandOff, TypeOK
    <3> QED
      BY <1>1, <2>1, <3>4, <3>5 DEF HandOff, TypeOK
  <2>3. CASE ~HasId(cur)
    BY <1>1, <2>1, <2>3 DEF HandOff, TypeOK
  <2> QED
    BY <2>2, <2>3
<1>2. CASE Unlink
  <2>1. cur \in Files
    BY <1>2 DEF Unlink, TypeOK
  <2>2. Unlinks(cur)
    BY <1>2 DEF Unlink
  <2> QED
    BY <1>2, <2>1, <2>2, UnlinksType DEF Unlink, TypeOK, history
<1>3. CASE HandlerReturns
  BY <1>3 DEF HandlerReturns, TypeOK
<1>4. CASE ReactionReturns
  BY <1>4 DEF ReactionReturns, TypeOK
<1>5. CASE HandlerRaises
  BY <1>5, FaultType, EmptySeq DEF HandlerRaises, AbortSweep, TypeOK
<1> QED
  BY <1>1, <1>2, <1>3, <1>4, <1>5 DEF Gateway

LEMMA StopType ==
    TypeOK /\ (Crash \/ Disconnect \/ Connect \/ \E k \in Keys : Expire(k)) => TypeOK'
<1> SUFFICES ASSUME TypeOK, Crash \/ Disconnect \/ Connect \/ \E k \in Keys : Expire(k)
             PROVE  TypeOK'
  OBVIOUS
<1> USE DEF Phases, NoFile, window, disk, sweep
<1>1. Stop => budget' \in [writes : [Files -> Nat], stops : Nat, faults : Nat,
                           expiries : Nat]
  <2>1. Stop => budget.stops - 1 \in Nat
    BY DEF Stop, TypeOK
  <2>2. budget \in [writes : [Files -> Nat], stops : Nat, faults : Nat,
                    expiries : Nat]
    BY DEF TypeOK
  <2> QED
    BY <2>1, <2>2 DEF Stop
<1>2. CASE Crash
  BY <1>1, <1>2, EmptySeq DEF Crash, Stop, AbortSweep, TypeOK
<1>3. CASE Disconnect
  <2>1. gaveUp' \subseteq Files
    BY <1>3 DEF Disconnect, TypeOK
  <2> QED
    BY <1>1, <1>3, <2>1, EmptySeq DEF Disconnect, Stop, AbortSweep, TypeOK
<1>4. CASE Connect
  BY <1>4 DEF Connect, TypeOK, history
<1>5. CASE \E k \in Keys : Expire(k)
  <2> PICK k \in Keys : Expire(k)
    BY <1>5
  <2>1. budget' \in [writes : [Files -> Nat], stops : Nat, faults : Nat,
                     expiries : Nat]
    <3>1. budget.expiries - 1 \in Nat
      BY DEF Expire, TypeOK
    <3>2. budget \in [writes : [Files -> Nat], stops : Nat, faults : Nat,
                      expiries : Nat]
      BY DEF TypeOK
    <3> QED
      BY <3>1, <3>2 DEF Expire
  <2> QED
    BY <2>1 DEF Expire, TypeOK
<1> QED
  BY <1>2, <1>3, <1>4, <1>5

LEMMA TypeStep == TypeOK /\ [Next]_vars => TypeOK'
<1> SUFFICES ASSUME TypeOK, [Next]_vars
             PROVE  TypeOK'
  OBVIOUS
<1>1. CASE UNCHANGED vars
  BY <1>1 DEF vars, TypeOK
<1>2. CASE Wrapper
  BY <1>2, WrapperType
<1>3. CASE PollTask
  BY <1>3, SweepType, VisitKeepsType, HandlingType DEF PollTask
<1>4. CASE Gateway
  BY <1>4, HandlingType
<1>5. CASE Crash \/ Disconnect \/ Connect \/ \E k \in Keys : Expire(k)
  BY <1>5, StopType
<1> QED
  BY <1>1, <1>2, <1>3, <1>4, <1>5 DEF Next

\* Type correctness: every reachable state of the inbound half keeps its types,
\* whatever the files, ids and bounds.
THEOREM TypeCorrect == Spec => []TypeOK
BY InitType, TypeStep, PTL DEF Spec

----------------------------------------------------------------------------
(* At most once.  DedupWindow alone is not inductive: that the next record   *)
(* keeps a key depends on its age and on how many keys are newer, and that a *)
(* hand-off is the first one depends on the check made when it was recorded. *)

\* k is in the map, young, and not yet crowded out.
Covered(k) ==
    k \in dedup /\ k \notin aged /\ Cardinality(newer[k]) < DedupCap

\* Nothing has been handed off under k since it last lapsed.
Free(k) == handed[k] = 0 \/ k \in lapsed

WindowInv == \A k \in Keys : Free(k) \/ Covered(k)

RecordedInv ==
    phase = "recorded" /\ HasId(cur)
        => Free(Key(cur)) /\ Covered(Key(cur))

DedupInv == TypeOK /\ WindowInv /\ RecordedInv /\ AtMostOnce

LEMMA InitDedup == Init => DedupInv
BY InitType DEF Init, DedupInv, WindowInv, RecordedInv, AtMostOnce, Free

\* Recording k keeps every covered key that the cap still covers, and covers k.
LEMMA RecordIdCovers ==
    ASSUME TypeOK, NEW k \in Keys, RecordId(k)
    PROVE  /\ Covered(k)'
           /\ \A j \in Keys : Covered(j) /\ j \notin lapsed' => Covered(j)'
<1>1. DedupCap \in Nat \ {0}
  BY InboxAssumption
<1>2. Covered(k)'
  BY <1>1, FS_EmptySet DEF Covered, RecordId, Kept, TypeOK
<1>3. ASSUME NEW j \in Keys, j # k, Covered(j), j \notin lapsed'
      PROVE  Covered(j)'
  <2> DEFINE pruned == (dedup \ aged) \cup {k}
  <2>1. /\ newer[j] \cup {k} \subseteq Keys
        /\ newer'[j] = newer[j] \cup {k}
    BY <1>3 DEF RecordId, TypeOK
  <2>2. IsFiniteSet(newer[j] \cup {k})
    BY <2>1, KeysFinite, FS_Subset
  <2>3. /\ Cardinality(newer[j] \cup {k}) \in Nat
        /\ Cardinality((newer[j] \cup {k}) \cap pruned) \in Nat
        /\ Cardinality((newer[j] \cup {k}) \cap pruned)
              <= Cardinality(newer[j] \cup {k})
    BY <2>2, FS_Subset, FS_CardinalityType
  <2>4. Cardinality(newer[j] \cup {k}) < DedupCap
    <3>1. ~(Cardinality(newer[j] \cup {k}) >= DedupCap)
      BY <1>3 DEF RecordId
    <3> QED
      BY <1>1, <2>3, <3>1
  <2>5. Cardinality((newer[j] \cup {k}) \cap pruned) < DedupCap
    BY <1>1, <2>3, <2>4
  <2>6. j \in pruned
    BY <1>3 DEF Covered
  <2>7. j \in Kept(k)
    BY <2>5, <2>6 DEF Kept
  <2> QED
    BY <2>1, <2>4, <2>7 DEF Covered, RecordId
<1> QED
  BY <1>2, <1>3

LEMMA DedupStep == DedupInv /\ [Next]_vars => DedupInv'
<1> SUFFICES ASSUME DedupInv, [Next]_vars
             PROVE  WindowInv' /\ RecordedInv' /\ AtMostOnce'
  <2>1. DedupInv => TypeOK
    BY DEF DedupInv
  <2>2. DedupInv /\ [Next]_vars => TypeOK'
    BY <2>1, TypeStep
  <2> QED
    BY <2>2 DEF DedupInv
<1> USE DEF WindowInv, RecordedInv, AtMostOnce, Free, Covered
<1>t. TypeOK
  BY DEF DedupInv
\* Steps that touch neither the map nor the history of hand-offs.
<1>1. CASE /\ UNCHANGED <<dedup, newer, aged, handed, lapsed>>
           /\ phase' = "recorded" => UNCHANGED <<phase, cur>>
  BY <1>1 DEF DedupInv, HasId, Key
<1>2. ASSUME NEW f \in Files, RecordChat(f)
      PROVE  WindowInv' /\ RecordedInv' /\ AtMostOnce'
  <2>1. cur' = f /\ phase' = "recorded" /\ UNCHANGED handed
    BY <1>2 DEF RecordChat
  <2>2. CASE HasId(f)
    <3> DEFINE k == Key(f)
    <3>1. k \in Keys /\ RecordId(k) /\ k \notin dedup
      BY <1>2, <2>2, KeyOfFile DEF RecordChat, IsDuplicate
    <3>2. lapsed \subseteq lapsed'
      BY <3>1 DEF RecordId
    <3>3. Free(k)'
      BY <2>1, <3>1, <3>2 DEF DedupInv
    <3>4. /\ Covered(k)'
          /\ \A j \in Keys : Covered(j) /\ j \notin lapsed' => Covered(j)'
      BY <1>t, <3>1, RecordIdCovers
    <3>5. WindowInv'
      BY <2>1, <3>2, <3>4 DEF DedupInv
    <3> QED
      BY <2>1, <3>3, <3>4, <3>5 DEF DedupInv, HasId, Key
  <2>3. CASE ~HasId(f)
    BY <1>2, <2>1, <2>3 DEF RecordChat, window, DedupInv, HasId
  <2> QED
    BY <2>2, <2>3
<1>3. CASE HandOff
  <2>1. /\ phase = "recorded" /\ phase' = "handing" /\ cur \in Files
        /\ UNCHANGED <<dedup, newer, aged>>
    BY <1>3, <1>t DEF HandOff, window, TypeOK
  <2>2. CASE HasId(cur)
    <3> DEFINE k == Key(cur)
    <3>1. k \in Keys /\ Free(k) /\ Covered(k)
      BY <2>1, <2>2, KeyOfFile DEF DedupInv
    <3>2. handed'[k] = 1 /\ lapsed' = lapsed \ {k}
      BY <1>3, <1>t, <2>2, <3>1 DEF HandOff, TypeOK
    <3>3. \A j \in Keys \ {k} : handed'[j] = handed[j]
      BY <1>3, <1>t, <2>2 DEF HandOff, TypeOK
    <3> QED
      BY <2>1, <3>1, <3>2, <3>3 DEF DedupInv
  <2>3. CASE ~HasId(cur)
    BY <1>3, <2>1, <2>3 DEF HandOff, DedupInv
  <2> QED
    BY <2>2, <2>3
<1>4. ASSUME NEW k \in Keys, Expire(k)
      PROVE  WindowInv' /\ RecordedInv' /\ AtMostOnce'
  BY <1>4 DEF Expire, DedupInv
<1>5. CASE UNCHANGED vars
  BY <1>1, <1>5 DEF vars
<1>6. CASE Wrapper
  BY <1>1, <1>6 DEF Wrapper, WrapperWrites, RawWriteBegins, RawWriteEnds, window,
                    history
<1>7. CASE BeginSweep \/ ListBridge \/ ListFails \/ EndSweep \/ Unlink
  BY <1>1, <1>7 DEF BeginSweep, ListBridge, ListFails, EndSweep, Unlink, window, history
<1>8. ASSUME NEW f \in Files, Visit(f), ~RecordChat(f)
      PROVE  WindowInv' /\ RecordedInv' /\ AtMostOnce'
  BY <1>1, <1>8
  DEF Visit, RejectLink, SkipSeen, CountBadRead, Quarantine, SkipNoSender,
      FailOnUndecodable, FailOnMalformed, SuppressDuplicate, Refuse, Absorb,
      StartReaction, AbortSweep, Reads, Unread, Visits, window, history
<1>9. CASE Gateway
  BY <1>1, <1>9 DEF Gateway, ReactionReturns, HandlerReturns, HandlerRaises,
                    AbortSweep, window
<1>10. CASE Crash \/ Disconnect \/ Connect
  BY <1>1, <1>10 DEF Crash, Disconnect, Connect, Stop, AbortSweep, window, history
<1> QED
  BY <1>2, <1>3, <1>4, <1>5, <1>6, <1>7, <1>8, <1>9, <1>10 DEF Next, PollTask

\* T-100: within its window no id-carrying message is handed to the gateway
\* twice, for every interleaving of retries, failures, crashes and restarts.
THEOREM HandedOffAtMostOnce == Spec => []AtMostOnce
<1>1. DedupInv => AtMostOnce
  BY DEF DedupInv
<1> QED
  BY <1>1, InitDedup, DedupStep, PTL DEF Spec

\* The dedup map always holds the window it promises: every id handed off that
\* is young and among the DEDUP_CAP newest.
THEOREM WindowCovered == Spec => []DedupWindow
<1>1. DedupInv => DedupWindow
  BY DEF DedupInv, WindowInv, Free, Covered, DedupWindow, TypeOK
<1> QED
  BY <1>1, InitDedup, DedupStep, PTL DEF Spec

----------------------------------------------------------------------------
(* What leaves the inbox.  A file is unlinked behind its message or as a    *)
(* duplicate; that a recorded id was taken over is an invariant only until  *)
(* the adapter stops or a handler fails, as it is recorded first.           *)

\* The bounds are spent, never refunded.
BudgetsBounded ==
    /\ budget.stops <= MaxStops /\ budget.faults <= MaxFaults
    /\ \A f \in Files : budget.writes[f] <= MaxWrites[f]

\* A file is unlinked after its message was taken over.
ServedWhenDone == phase = "done" => cur \in served

\* A message with id k was taken over.
TakenOver(k) == \E g \in served : HasId(g) /\ Key(g) = k

\* The message with id k is on its way to the gateway.
OnItsWay(k) == phase \in {"recorded", "handing"} /\ HasId(cur) /\ Key(cur) = k

IdsAccounted ==
    \A k \in dedup : Stopped \/ Faulted \/ TakenOver(k) \/ OnItsWay(k)

RemovalInv == TypeOK /\ BudgetsBounded /\ ServedWhenDone /\ IdsAccounted

LEMMA InitRemoval == Init => RemovalInv
BY InitType, InboxAssumption
DEF Init, RemovalInv, BudgetsBounded, ServedWhenDone, IdsAccounted

\* A step spends from the budget at most: a stop or a failure stays known.
LEMMA BudgetStep ==
    ASSUME TypeOK, BudgetsBounded, [Next]_vars
    PROVE  /\ BudgetsBounded'
           /\ (Stopped => Stopped') /\ (Faulted => Faulted')
<1> USE InboxAssumption DEF BudgetsBounded, Stopped, Faulted
<1>t. budget \in [writes : [Files -> Nat], stops : Nat, faults : Nat, expiries : Nat]
  BY DEF TypeOK
<1>1. CASE UNCHANGED budget
  BY <1>1
<1>2. CASE Fault
  BY <1>2, <1>t DEF Fault
<1>3. CASE Stop
  BY <1>3, <1>t DEF Stop
<1>4. ASSUME NEW f \in Files, budget' = [budget EXCEPT !.writes[f] = @ - 1]
      PROVE  BudgetsBounded' /\ (Stopped => Stopped') /\ (Faulted => Faulted')
  <2>1. /\ budget'.stops = budget.stops /\ budget'.faults = budget.faults
        /\ budget'.writes = [budget.writes EXCEPT ![f] = @ - 1]
    BY <1>4, <1>t
  <2>2. \A g \in Files : budget'.writes[g] <= MaxWrites[g]
    BY <1>t, <2>1
  <2> QED
    BY <2>1, <2>2
<1>5. ASSUME NEW k \in Keys, Expire(k)
      PROVE  BudgetsBounded' /\ (Stopped => Stopped') /\ (Faulted => Faulted')
  BY <1>5, <1>t DEF Expire
<1>6. CASE Wrapper
  BY <1>1, <1>4, <1>6 DEF Wrapper, WrapperWrites, RawWriteBegins, RawWriteEnds
<1>7. ASSUME NEW f \in Files, Visit(f)
      PROVE  UNCHANGED budget \/ Fault
  BY <1>7
  DEF Visit, RejectLink, SkipSeen, CountBadRead, Quarantine, SkipNoSender,
      FailOnUndecodable, FailOnMalformed, SuppressDuplicate, Refuse, Absorb,
      StartReaction, RecordChat, Unlinks
<1>8. CASE BeginSweep \/ ListBridge \/ ListFails \/ EndSweep \/ HandOff \/ Unlink \/ Gateway
  BY <1>1, <1>2, <1>8
  DEF BeginSweep, ListBridge, ListFails, EndSweep, HandOff, Unlink, Unlinks, Gateway,
      ReactionReturns, HandlerReturns, HandlerRaises
<1>9. CASE Crash \/ Disconnect \/ Connect
  BY <1>1, <1>3, <1>9 DEF Crash, Disconnect, Connect
<1>10. CASE UNCHANGED vars
  BY <1>1, <1>10 DEF vars
<1> QED
  BY <1>1, <1>2, <1>5, <1>6, <1>7, <1>8, <1>9, <1>10 DEF Next, PollTask

LEMMA RemovalStep == RemovalInv /\ [Next]_vars => RemovalInv'
<1> SUFFICES ASSUME RemovalInv, [Next]_vars
             PROVE  ServedWhenDone' /\ IdsAccounted'
  BY TypeStep, BudgetStep DEF RemovalInv
<1> USE DEF ServedWhenDone, IdsAccounted, TakenOver, OnItsWay
<1>b. /\ TypeOK /\ BudgetsBounded
      /\ (Stopped => Stopped') /\ (Faulted => Faulted')
  BY BudgetStep DEF RemovalInv
<1>k. \A f \in Files : HasId(f)' = HasId(f) /\ Key(f)' = Key(f)
  BY DEF HasId, Key
\* Steps that record nothing and leave a message on its way where it is.
<1>1. CASE /\ dedup' = dedup /\ served \subseteq served'
           /\ phase \in {"recorded", "handing"}
                => phase' \in {"recorded", "handing"} /\ cur' = cur
           /\ phase' = "done" => cur' \in served'
  BY <1>1, <1>b DEF RemovalInv, HasId, Key
<1>2. ASSUME NEW f \in Files, RecordChat(f)
      PROVE  ServedWhenDone' /\ IdsAccounted'
  <2>1. phase = "sweep" /\ phase' = "recorded" /\ cur' = f /\ served' = served
    BY <1>2 DEF RecordChat, Reads, Unread, Visits
  <2>2. \A k \in dedup' : k \in dedup \/ (HasId(f) /\ k = Key(f))
    BY <1>2 DEF RecordChat, RecordId, Kept, window
  <2> QED
    BY <1>b, <2>1, <2>2 DEF RemovalInv, HasId, Key
<1>3. CASE HandlerReturns
  <2>1. /\ phase = "handing" /\ phase' = "done" /\ cur' = cur
        /\ served' = served \cup {cur} /\ dedup' = dedup
    BY <1>3 DEF HandlerReturns, window
  <2> QED
    BY <1>b, <2>1 DEF RemovalInv, HasId, Key
<1>4. CASE HandlerRaises
  <2>1. Faulted' /\ phase' = "idle"
    BY <1>4, <1>b, InboxAssumption
    DEF HandlerRaises, Fault, Faulted, AbortSweep, BudgetsBounded, TypeOK
  <2> QED
    BY <2>1
<1>5. CASE Crash \/ Disconnect
  <2>1. Stopped' /\ phase' = "idle"
    BY <1>5, <1>b, InboxAssumption
    DEF Crash, Disconnect, Stop, Stopped, AbortSweep, BudgetsBounded, TypeOK
  <2> QED
    BY <2>1
<1>6. ASSUME NEW f \in Files, Visit(f), ~RecordChat(f)
      PROVE  ServedWhenDone' /\ IdsAccounted'
  <2>1. phase = "sweep" /\ dedup' = dedup
    BY <1>6
    DEF Visit, RejectLink, SkipSeen, CountBadRead, Quarantine, SkipNoSender,
        FailOnUndecodable, FailOnMalformed, SuppressDuplicate, Refuse, Absorb,
        StartReaction, Reads, Unread, Visits, window
  <2>2. served \subseteq served' /\ (phase' = "done" => cur' \in served')
    BY <1>6, <2>1
    DEF Visit, RejectLink, SkipSeen, CountBadRead, Quarantine, SkipNoSender,
        FailOnUndecodable, FailOnMalformed, SuppressDuplicate, Refuse, Absorb,
        StartReaction, AbortSweep, Reads, Unread, Visits, history
  <2> QED
    BY <1>1, <2>1, <2>2
<1>7. CASE Wrapper
  BY <1>1, <1>7
  DEF Wrapper, WrapperWrites, RawWriteBegins, RawWriteEnds, window, history, RemovalInv
<1>8. CASE BeginSweep \/ ListBridge \/ ListFails \/ EndSweep \/ HandOff \/ Unlink
  BY <1>1, <1>8
  DEF BeginSweep, ListBridge, ListFails, EndSweep, HandOff, Unlink, window, history,
      RemovalInv
<1>9. CASE ReactionReturns
  BY <1>1, <1>9 DEF ReactionReturns, window
<1>10. CASE Connect \/ \E k \in Keys : Expire(k)
  BY <1>1, <1>10 DEF Connect, Expire, window, history, RemovalInv
<1>11. CASE UNCHANGED vars
  BY <1>1, <1>11 DEF vars, RemovalInv
<1> QED
  BY <1>2, <1>3, <1>4, <1>5, <1>6, <1>7, <1>8, <1>9, <1>10, <1>11
  DEF Next, PollTask, Gateway

\* The files whose names disappear are those a visit or the poll task unlinks.
LEMMA WhatIsRemoved ==
    ASSUME TypeOK, [Next]_vars, NEW f \in Files,
           file[f] = "whole", file'[f] = "absent", f \notin quarantined'
    PROVE  SuppressDuplicate(f) \/ Refuse(f) \/ (Unlink /\ cur = f)
<1>r. \A g \in Files : Removed(g) => g = f
  BY DEF Removed, TypeOK
<1>1. ~ UNCHANGED file
  OBVIOUS
<1>2. ~Wrapper
  BY DEF Wrapper, WrapperWrites, RawWriteBegins, RawWriteEnds, TypeOK
<1>3. \A g \in Files : Visit(g) =>
          Quarantine(g) \/ SuppressDuplicate(g) \/ Refuse(g)
  BY <1>1
  DEF Visit, RejectLink, SkipSeen, CountBadRead, SkipNoSender, FailOnUndecodable,
      FailOnMalformed, Absorb, StartReaction, RecordChat, disk
<1>4. \A g \in Files : ~Quarantine(g)
  BY <1>1, <1>r DEF Quarantine
<1>5. ~(BeginSweep \/ ListBridge \/ ListFails \/ EndSweep \/ HandOff \/ Gateway
        \/ Crash \/ Disconnect \/ Connect \/ \E k \in Keys : Expire(k))
  BY <1>1
  DEF BeginSweep, ListBridge, ListFails, EndSweep, HandOff, Gateway, ReactionReturns,
      HandlerReturns, HandlerRaises, Crash, Disconnect, Connect, Expire, disk
<1>6. \A g \in Files : SuppressDuplicate(g) \/ Refuse(g) => g = f
  BY <1>1, <1>r DEF SuppressDuplicate, Refuse, Unlinks
<1>7. Unlink => cur = f
  <2>1. Unlink => cur \in Files
    BY DEF Unlink, TypeOK
  <2> QED
    BY <1>1, <1>r, <2>1 DEF Unlink, Unlinks
<1> QED
  BY <1>1, <1>2, <1>3, <1>4, <1>5, <1>6, <1>7 DEF Next, PollTask, vars

\* At-least-once: what leaves the inbox was taken over, itself or under the same
\* id, or refused; only a recorded id may be lost, to a stop or a failing handler.
THEOREM RemovalsAccounted == Spec => AccountedRemoval
<1>1. RemovalInv /\ [Next]_vars =>
          \A f \in Files :
              file[f] = "whole" /\ file'[f] = "absent" /\ f \notin quarantined'
              => \/ f \in served \/ kind[f] = "refused"
                 \/ /\ HasId(f)
                    /\ \/ Stopped \/ Faulted
                       \/ \E g \in served : HasId(g) /\ Key(g) = Key(f)
  <2> SUFFICES ASSUME RemovalInv, [Next]_vars, NEW f \in Files,
                      file[f] = "whole", file'[f] = "absent", f \notin quarantined'
               PROVE  \/ f \in served \/ kind[f] = "refused"
                      \/ /\ HasId(f)
                         /\ \/ Stopped \/ Faulted
                            \/ \E g \in served : HasId(g) /\ Key(g) = Key(f)
    OBVIOUS
  <2>1. SuppressDuplicate(f) \/ Refuse(f) \/ (Unlink /\ cur = f)
    BY WhatIsRemoved DEF RemovalInv
  <2>2. CASE SuppressDuplicate(f)
    <3>1. HasId(f) /\ Key(f) \in dedup /\ phase = "sweep"
      BY <2>2 DEF SuppressDuplicate, IsDuplicate, Reads, Unread, Visits
    <3> QED
      BY <3>1 DEF RemovalInv, IdsAccounted, TakenOver, OnItsWay
  <2>3. CASE Refuse(f)
    BY <2>3 DEF Refuse
  <2>4. CASE Unlink /\ cur = f
    BY <2>4 DEF Unlink, RemovalInv, ServedWhenDone
  <2> QED
    BY <2>1, <2>2, <2>3, <2>4
<1>2. Spec => []RemovalInv
  BY InitRemoval, RemovalStep, PTL DEF Spec
<1> QED
  BY <1>1, <1>2, PTL DEF Spec, AccountedRemoval

----------------------------------------------------------------------------
(* The order of the hand-offs.  A listing is a copy: what keeps it true to   *)
(* the directory is that a message written once cannot move there, and that  *)
(* the sweep has marked every older one it has passed.                       *)

\* f comes before g in the listing s.
Before(s, f, g) == \E i, j \in DOMAIN s : i < j /\ s[i] = f /\ s[j] = g

\* A listing that loses a name keeps the others in their order.
LEMMA WithoutOrder ==
    ASSUME NEW S, NEW s \in Seq(S), IsInjective(s), NEW h
    PROVE  /\ IsInjective(Without(s, h))
           /\ Range(Without(s, h)) = Range(s) \ {h}
           /\ \A f, g : Before(Without(s, h), f, g) => Before(s, f, g)
<1>0. Len(s) \in Nat /\ DOMAIN s = 1..Len(s) /\ \A i \in 1..Len(s) : s[i] \in S
  BY LenProperties, ElementOfSeq
<1>1. CASE ~ \E i \in 1..Len(s) : s[i] = h
  BY <1>0, <1>1 DEF Without, Range
<1>2. CASE \E i \in 1..Len(s) : s[i] = h
  <2> DEFINE p == CHOOSE i \in 1..Len(s) : s[i] = h
             w == Without(s, h)
  <2>1. p \in 1..Len(s) /\ s[p] = h
    BY <1>2
  <2>2. w = SubSeq(s, 1, p - 1) \o SubSeq(s, p + 1, Len(s))
    BY <1>2 DEF Without
  <2> HIDE DEF p, w
  <2>3. /\ SubSeq(s, 1, p - 1) \in Seq(S) /\ Len(SubSeq(s, 1, p - 1)) = p - 1
        /\ \A i \in 1..p - 1 : SubSeq(s, 1, p - 1)[i] = s[i]
    <3>1. /\ SubSeq(s, 1, p - 1) \in Seq(S)
          /\ Len(SubSeq(s, 1, p - 1)) = IF 1 <= p - 1 THEN (p - 1) - 1 + 1 ELSE 0
          /\ \A i \in 1..(p - 1) - 1 + 1 : SubSeq(s, 1, p - 1)[i] = s[1 + i - 1]
      BY <1>0, <2>1, SubSeqProperties
    <3> QED
      BY <1>0, <2>1, <3>1
  <2>4. /\ SubSeq(s, p + 1, Len(s)) \in Seq(S)
        /\ Len(SubSeq(s, p + 1, Len(s))) = Len(s) - p
        /\ \A i \in 1..Len(s) - p : SubSeq(s, p + 1, Len(s))[i] = s[p + i]
    <3>1. /\ SubSeq(s, p + 1, Len(s)) \in Seq(S)
          /\ Len(SubSeq(s, p + 1, Len(s)))
                = IF p + 1 <= Len(s) THEN Len(s) - (p + 1) + 1 ELSE 0
          /\ \A i \in 1..Len(s) - (p + 1) + 1 :
                SubSeq(s, p + 1, Len(s))[i] = s[(p + 1) + i - 1]
      BY <1>0, <2>1, SubSeqProperties
    <3> QED
      BY <1>0, <2>1, <3>1, SMTT(30)
  <2>5. /\ w \in Seq(S) /\ Len(w) = Len(s) - 1
        /\ \A i \in 1..Len(s) - 1 : w[i] = s[IF i < p THEN i ELSE i + 1]
    <3> DEFINE a == SubSeq(s, 1, p - 1)
               b == SubSeq(s, p + 1, Len(s))
    <3> HIDE DEF a, b
    <3>1. /\ a \o b \in Seq(S) /\ Len(a \o b) = Len(a) + Len(b)
          /\ \A i \in 1..Len(a) + Len(b) :
                (a \o b)[i] = IF i <= Len(a) THEN a[i] ELSE b[i - Len(a)]
      BY <2>3, <2>4, ConcatProperties DEF a, b
    <3>2. Len(a) = p - 1 /\ Len(b) = Len(s) - p
      BY <2>3, <2>4 DEF a, b
    <3>3. ASSUME NEW i \in 1..Len(s) - 1
          PROVE  (a \o b)[i] = s[IF i < p THEN i ELSE i + 1]
      <4>1. CASE i < p
        BY <1>0, <2>1, <2>3, <3>1, <3>2, <4>1 DEF a
      <4>2. CASE i >= p
        <5>1. i - (p - 1) \in 1..Len(s) - p /\ p + (i - (p - 1)) = i + 1
          BY <1>0, <2>1, <4>2
        <5>2. b[i - (p - 1)] = s[i + 1]
          BY <2>4, <5>1 DEF b
        <5>3. i \in 1..Len(a) + Len(b) /\ ~(i <= Len(a)) /\ i - Len(a) = i - (p - 1)
          BY <1>0, <2>1, <3>2, <4>2
        <5>4. (a \o b)[i] = b[i - (p - 1)]
          BY <3>1, <5>3
        <5>5. (IF i < p THEN i ELSE i + 1) = i + 1
          BY <1>0, <2>1, <4>2
        <5>6. (a \o b)[i] = s[i + 1]
          BY <5>2, <5>4, Zenon
        <5> QED
          BY <5>5, <5>6, Zenon
      <4>3. i < p \/ i >= p
        BY <1>0, <2>1
      <4> QED
        BY <4>1, <4>2, <4>3, Zenon
    <3>4. Len(a) + Len(b) = Len(s) - 1
      BY <1>0, <2>1, <3>2
    <3> QED
      BY <2>2, <3>1, <3>3, <3>4 DEF a, b
  <2>6. DOMAIN w = 1..Len(s) - 1
    BY <2>5, LenProperties
  <2>7. \A i, j \in 1..Len(s) : s[i] = s[j] => i = j
    BY <1>0 DEF IsInjective
  \* The place in s of the i-th name that is left.
  <2> DEFINE at(i) == IF i < p THEN i ELSE i + 1
  <2>8. \A i, j \in DOMAIN w :
            /\ at(i) \in 1..Len(s) /\ at(i) # p /\ w[i] = s[at(i)]
            /\ i < j => at(i) < at(j)
            /\ at(i) = at(j) => i = j
    BY <1>0, <2>1, <2>5, <2>6
  <2>9. IsInjective(w)
    BY <2>7, <2>8 DEF IsInjective
  <2>10. Range(w) = Range(s) \ {h}
    <3>1. Range(w) \subseteq Range(s) \ {h}
      BY <1>0, <2>1, <2>7, <2>8 DEF Range
    <3>2. ASSUME NEW j \in 1..Len(s), s[j] # h
          PROVE  s[j] \in Range(w)
      <4>1. CASE j < p
        <5>1. j \in DOMAIN w /\ w[j] = s[j]
          BY <1>0, <2>1, <2>5, <2>6, <4>1
        <5> QED
          BY <5>1 DEF Range
      <4>2. CASE j > p
        <5>1. PICK k \in 1..Len(s) - 1 : k + 1 = j
          <6>1. j - 1 \in 1..Len(s) - 1 /\ (j - 1) + 1 = j
            BY <1>0, <2>1, <4>2
          <6> QED
            BY <6>1
        <5>2. k \in DOMAIN w /\ ~(k < p)
          BY <1>0, <2>1, <2>6, <4>2, <5>1
        <5>3. w[k] = s[k + 1]
          BY <2>5, <5>1, <5>2
        <5> QED
          BY <5>1, <5>2, <5>3 DEF Range
      <4> QED
        BY <1>0, <2>1, <3>2, <4>1, <4>2
    <3> QED
      BY <1>0, <3>1, <3>2 DEF Range
  <2>11. ASSUME NEW f, NEW g, Before(w, f, g)
         PROVE  Before(s, f, g)
    <3>1. PICK i, j \in DOMAIN w : i < j /\ w[i] = f /\ w[j] = g
      BY <2>11 DEF Before
    <3>2. at(i) \in DOMAIN s /\ at(j) \in DOMAIN s /\ at(i) < at(j)
          /\ s[at(i)] = f /\ s[at(j)] = g
      BY <1>0, <2>8, <3>1
    <3> HIDE DEF at
    <3> QED
      BY <3>2 DEF Before
  <2> QED
    BY <2>9, <2>10, <2>11 DEF w
<1> QED
  BY <1>1, <1>2

\* A new name at the end of a listing is newer than every other.
LEMMA AppendOrder ==
    ASSUME NEW S, NEW s \in Seq(S), IsInjective(s), NEW h \in S, h \notin Range(s)
    PROVE  /\ IsInjective(Append(s, h)) /\ Range(Append(s, h)) = Range(s) \cup {h}
           /\ \A f, g : Before(Append(s, h), f, g) => g = h \/ Before(s, f, g)
           /\ \A g : ~Before(Append(s, h), h, g)
<1> DEFINE a == Append(s, h)
<1>1. /\ Len(s) \in Nat /\ DOMAIN s = 1..Len(s) /\ a \in Seq(S)
      /\ Len(a) = Len(s) + 1 /\ DOMAIN a = 1..Len(s) + 1
      /\ \A i \in 1..Len(s) : a[i] = s[i]
      /\ a[Len(s) + 1] = h
  BY AppendProperties, LenProperties
<1> HIDE DEF a
<1>2. \A i \in 1..Len(s) : s[i] # h
  BY <1>1 DEF Range
<1>3. IsInjective(a)
  BY <1>1, <1>2 DEF IsInjective
<1>4. Range(a) = Range(s) \cup {h}
  BY <1>1 DEF Range
<1>5. \A f, g : Before(a, f, g) => g = h \/ Before(s, f, g)
  BY <1>1 DEF Before
<1>6. \A g : ~Before(a, h, g)
  BY <1>1, <1>2 DEF Before
<1> QED
  BY <1>3, <1>4, <1>5, <1>6 DEF a

\* The first name of a listing is before the others, and theirs is the order of
\* the rest.
LEMMA TailOrder ==
    ASSUME NEW S, NEW s \in Seq(S), s # <<>>, IsInjective(s)
    PROVE  /\ IsInjective(Tail(s)) /\ Range(Tail(s)) = Range(s) \ {Head(s)}
           /\ Head(s) \in Range(s)
           /\ \A f, g : Before(s, f, g) /\ f # Head(s) => Before(Tail(s), f, g)
           /\ \A f : ~Before(s, f, Head(s))
<1> DEFINE t == Tail(s)
<1>1. /\ Len(s) \in Nat /\ Len(s) # 0 /\ DOMAIN s = 1..Len(s) /\ Head(s) = s[1]
      /\ t \in Seq(S) /\ Len(t) = Len(s) - 1 /\ DOMAIN t = 1..Len(s) - 1
      /\ \A i \in 1..Len(s) - 1 : t[i] = s[i + 1]
  BY HeadTailProperties, LenProperties, EmptySeq
<1> HIDE DEF t
<1>2. \A i, j \in 1..Len(s) : s[i] = s[j] => i = j
  BY <1>1 DEF IsInjective
<1>3. IsInjective(t)
  <2>1. \A i, j \in 1..Len(s) - 1 : s[i + 1] = s[j + 1] => i = j
    <3> SUFFICES ASSUME NEW i \in 1..Len(s) - 1, NEW j \in 1..Len(s) - 1,
                        s[i + 1] = s[j + 1]
                 PROVE  i = j
      OBVIOUS
    <3>1. i + 1 \in 1..Len(s) /\ j + 1 \in 1..Len(s)
      BY <1>1
    <3>2. i + 1 = j + 1
      BY <1>2, <3>1
    <3> QED
      BY <3>2
  <2> QED
    BY <1>1, <2>1 DEF IsInjective
<1>4. Range(t) = Range(s) \ {s[1]}
  <2>1. Range(t) \subseteq Range(s) \ {s[1]}
    <3> SUFFICES ASSUME NEW i \in 1..Len(s) - 1
                 PROVE  s[i + 1] \in Range(s) /\ s[i + 1] # s[1]
      BY <1>1 DEF Range
    <3>1. i + 1 \in 1..Len(s) /\ 1 \in 1..Len(s) /\ i + 1 # 1
      BY <1>1
    <3> QED
      BY <1>1, <1>2, <3>1 DEF Range
  <2>2. ASSUME NEW j \in 1..Len(s), s[j] # s[1]
        PROVE  s[j] \in Range(t)
    <3>1. j - 1 \in 1..Len(s) - 1 /\ (j - 1) + 1 = j
      BY <1>1, <2>2
    <3>2. t[j - 1] = s[j]
      BY <1>1, <3>1
    <3> QED
      BY <1>1, <3>1, <3>2 DEF Range
  <2> QED
    BY <1>1, <2>1, <2>2 DEF Range
<1>5. ASSUME NEW f, NEW g, Before(s, f, g), f # s[1]
      PROVE  Before(t, f, g)
  <2>1. PICK i, j \in 1..Len(s) : i < j /\ s[i] = f /\ s[j] = g
    BY <1>1, <1>5 DEF Before
  <2>2. /\ i - 1 \in 1..Len(s) - 1 /\ (i - 1) + 1 = i
        /\ j - 1 \in 1..Len(s) - 1 /\ (j - 1) + 1 = j /\ i - 1 < j - 1
    BY <1>1, <1>5, <2>1
  <2>3. t[i - 1] = f /\ t[j - 1] = g
    BY <1>1, <2>1, <2>2
  <2> QED
    BY <1>1, <2>2, <2>3 DEF Before
<1>6. \A f : ~Before(s, f, s[1])
  <2> SUFFICES ASSUME NEW i \in 1..Len(s), NEW j \in 1..Len(s), i < j, s[j] = s[1]
               PROVE  FALSE
    BY <1>1 DEF Before
  <2>1. j = 1
    BY <1>1, <1>2
  <2> QED
    BY <2>1
<1>7. s[1] \in Range(s)
  BY <1>1 DEF Range
<1> QED
  BY <1>1, <1>3, <1>4, <1>5, <1>6, <1>7 DEF t

\* A file lies in its own directory, and no listing has it twice.
ListedOnce ==
    /\ \A b \in Bridges : /\ IsInjective(inbox[b])
                          /\ \A f \in Range(inbox[b]) : BridgeOf[f] = b
    /\ IsInjective(todo)

\* What was never written is not there, and in no listing.
UnwrittenUnlisted ==
    \A f \in Files :
        budget.writes[f] = MaxWrites[f]
            => /\ file[f] = "absent" /\ f \notin Range(todo)
               /\ \A b \in Bridges : f \notin Range(inbox[b])

\* Only what is written in place is ever torn.
TornInPlace == \A f \in Files : file[f] = "torn" => f \in RawFiles

\* The wrapper wrote f through the SDK, and once.
WrittenOnce(f) == f \notin RawFiles /\ budget.writes[f] + 1 = MaxWrites[f]

\* While the sweep has a message before it, an older one is marked or in front.
OlderFirst ==
    \A f, g \in Files :
        /\ WrittenOnce(f) /\ WrittenOnce(g) /\ ~Faulted
        /\ Parses(f) /\ kind[f] # "link"
        /\ Before(inbox[BridgeOf[g]], f, g) /\ g \in Range(todo)
        => f \in seen \/ Before(todo, f, g)

OrderInv ==
    /\ TypeOK /\ BudgetsBounded
    /\ ListedOnce /\ UnwrittenUnlisted /\ TornInPlace /\ OlderFirst

LEMMA NothingListed == IsInjective(<<>>) /\ Range(<<>>) = {}
BY DEF IsInjective, Range

LEMMA InitOrder == Init => OrderInv
BY InitType, InboxAssumption, NothingListed
DEF Init, OrderInv, BudgetsBounded, ListedOnce, UnwrittenUnlisted, TornInPlace,
    OlderFirst

\* A file that is written is the newest of its directory.
LEMMA TouchedOrder ==
    ASSUME TypeOK, ListedOnce, NEW h \in Files, inbox' = Touched(h), NEW b \in Bridges
    PROVE  /\ IsInjective(inbox'[b]) /\ Range(inbox'[b]) \subseteq Range(inbox[b]) \cup {h}
           /\ \A f \in Range(inbox'[b]) : BridgeOf[f] = b
           /\ \A g : ~Before(inbox'[b], h, g)
           /\ \A f, g : Before(inbox'[b], f, g) /\ g # h => Before(inbox[b], f, g)
<1>0. inbox \in [Bridges -> Seq(Files)] /\ IsInjective(inbox[b])
  BY DEF TypeOK, ListedOnce
<1>1. CASE b = BridgeOf[h]
  <2> DEFINE w == Without(inbox[b], h)
  <2>1. /\ w \in Seq(Files) /\ IsInjective(w) /\ Range(w) = Range(inbox[b]) \ {h}
        /\ \A f, g : Before(w, f, g) => Before(inbox[b], f, g)
    BY <1>0, WithoutType, WithoutOrder
  <2>2. inbox'[b] = Append(w, h)
    BY <1>0, <1>1 DEF Touched
  <2> HIDE DEF w
  <2>3. /\ IsInjective(Append(w, h)) /\ Range(Append(w, h)) = Range(w) \cup {h}
        /\ \A f, g : Before(Append(w, h), f, g) => g = h \/ Before(w, f, g)
        /\ \A g : ~Before(Append(w, h), h, g)
    BY <2>1, AppendOrder
  <2> QED
    BY <1>1, <2>1, <2>2, <2>3 DEF ListedOnce
<1>2. CASE b # BridgeOf[h]
  <2>1. inbox'[b] = inbox[b]
    BY <1>0, <1>2 DEF Touched
  <2>2. h \notin Range(inbox[b])
    BY <1>2 DEF ListedOnce
  <2>3. \A g : ~Before(inbox[b], h, g)
    BY <2>2 DEF Before, Range
  <2> QED
    BY <1>0, <2>1, <2>3 DEF ListedOnce
<1> QED
  BY <1>1, <1>2

\* A file whose name disappears is in no directory, the others stay in order.
LEMMA RemovedOrder ==
    ASSUME TypeOK, ListedOnce, NEW h \in Files, Removed(h), NEW b \in Bridges
    PROVE  /\ IsInjective(inbox'[b]) /\ Range(inbox'[b]) = Range(inbox[b]) \ {h}
           /\ \A f, g : Before(inbox'[b], f, g) => f # h /\ Before(inbox[b], f, g)
<1>0. inbox \in [Bridges -> Seq(Files)] /\ IsInjective(inbox[b])
  BY DEF TypeOK, ListedOnce
<1>1. /\ IsInjective(inbox'[b]) /\ Range(inbox'[b]) = Range(inbox[b]) \ {h}
      /\ \A f, g : Before(inbox'[b], f, g) => Before(inbox[b], f, g)
  <2>1. CASE b = BridgeOf[h]
    <3>1. inbox'[b] = Without(inbox[b], h)
      BY <1>0, <2>1 DEF Removed
    <3> QED
      BY <1>0, <3>1, WithoutOrder
  <2>2. CASE b # BridgeOf[h]
    <3>1. inbox'[b] = inbox[b] /\ h \notin Range(inbox[b])
      BY <1>0, <2>2 DEF Removed, ListedOnce
    <3> QED
      BY <1>0, <3>1
  <2> QED
    BY <2>1, <2>2
<1>2. \A f, g : Before(inbox'[b], f, g) => f \in Range(inbox'[b])
  BY DEF Before, Range
<1> QED
  BY <1>1, <1>2

\* The listing after the visit of h.
LEMMA VisitedOrder ==
    ASSUME TypeOK, ListedOnce, NEW h \in Files, Visits(h)
    PROVE  /\ IsInjective(todo') /\ Range(todo') = Range(todo) \ {h}
           /\ \A f, g : Before(todo, f, g) /\ f # h => Before(todo', f, g)
           /\ h \in Range(todo) /\ \A f : ~Before(todo, f, h)
<1>1. /\ todo \in Seq(Files) /\ todo # <<>> /\ IsInjective(todo)
      /\ h = Head(todo) /\ todo' = Tail(todo)
  BY DEF Visits, TypeOK, ListedOnce
<1> QED
  BY <1>1, TailOrder

\* A failing file operation is known from then on.
LEMMA FaultKnown == BudgetsBounded /\ TypeOK /\ Fault => Faulted'
BY InboxAssumption DEF BudgetsBounded, TypeOK, Fault, Faulted

\* A visit of a message: it is marked, not read, or its file goes away.
LEMMA VisitOrder ==
    ASSUME OrderInv, NEW h \in Files, Visits(h), budget'.writes = budget.writes,
           UNCHANGED kind, Faulted => Faulted',
           \/ /\ UNCHANGED <<file, inbox>> /\ seen \subseteq seen'
              /\ Parses(h) /\ kind[h] # "link" => h \in seen'
           \/ Removed(h) /\ seen \ {h} \subseteq seen'
           \/ UNCHANGED <<file, inbox>> /\ Faulted'
    PROVE  ListedOnce' /\ UnwrittenUnlisted' /\ OlderFirst'
<1> USE DEF OrderInv
<1>1. /\ IsInjective(todo') /\ Range(todo') = Range(todo) \ {h}
      /\ \A f, g : Before(todo, f, g) /\ f # h => Before(todo', f, g)
  BY VisitedOrder
<1>2. \A b \in Bridges :
          /\ IsInjective(inbox'[b]) /\ Range(inbox'[b]) \subseteq Range(inbox[b])
          /\ \A f, g : Before(inbox'[b], f, g) => Before(inbox[b], f, g)
  BY RemovedOrder DEF ListedOnce
<1>3. ListedOnce' /\ UnwrittenUnlisted'
  <2>1. \A f \in Files : file[f] = "absent" => file'[f] = "absent"
    BY DEF Removed, TypeOK
  <2> QED
    BY <1>1, <1>2, <2>1 DEF ListedOnce, UnwrittenUnlisted
<1>4. OlderFirst'
  <2> SUFFICES ASSUME NEW f \in Files, NEW g \in Files,
                      WrittenOnce(f), WrittenOnce(g), ~Faulted',
                      Parses(f)', kind[f] # "link",
                      Before(inbox'[BridgeOf[g]], f, g), g \in Range(todo')
               PROVE  f \in seen' \/ Before(todo', f, g)
    BY DEF OlderFirst, WrittenOnce
  <2>0. BridgeOf[g] \in Bridges
    BY InboxAssumption
  <2>1. Before(inbox[BridgeOf[g]], f, g) /\ g \in Range(todo) /\ ~Faulted
    BY <1>1, <1>2, <2>0
  <2>2. CASE /\ UNCHANGED <<file, inbox>> /\ seen \subseteq seen'
             /\ Parses(h) /\ kind[h] # "link" => h \in seen'
    <3>1. Parses(f)
      BY <2>2 DEF Parses
    <3>2. f \in seen \/ Before(todo, f, g)
      BY <2>1, <3>1 DEF OlderFirst
    <3> QED
      BY <1>1, <2>2, <3>1, <3>2
  <2>3. CASE Removed(h) /\ seen \ {h} \subseteq seen'
    <3>1. f # h
      BY <2>0, <2>3, RemovedOrder
    <3>2. Parses(f)
      BY <2>3, <3>1 DEF Parses, Removed, TypeOK
    <3>3. f \in seen \/ Before(todo, f, g)
      BY <2>1, <3>2 DEF OlderFirst
    <3> QED
      BY <1>1, <2>3, <3>1, <3>3
  <2> QED
    BY <2>2, <2>3
<1> QED
  BY <1>3, <1>4

LEMMA UnlinkOrder ==
    ASSUME OrderInv, Unlink, Faulted => Faulted'
    PROVE  ListedOnce' /\ UnwrittenUnlisted' /\ OlderFirst'
<1> USE DEF OrderInv
<1>0. /\ cur \in Files /\ todo' = todo /\ kind' = kind /\ seen' = seen \ {cur}
      /\ budget'.writes = budget.writes
  BY DEF Unlink, Unlinks, Fault, TypeOK, sweep
<1>1. CASE Removed(cur)
  <2>1. \A b \in Bridges :
            /\ IsInjective(inbox'[b]) /\ Range(inbox'[b]) = Range(inbox[b]) \ {cur}
            /\ \A f, g : Before(inbox'[b], f, g) => f # cur /\ Before(inbox[b], f, g)
    BY <1>0, <1>1, RemovedOrder
  <2>2. ListedOnce' /\ UnwrittenUnlisted'
    BY <1>0, <1>1, <2>1 DEF ListedOnce, UnwrittenUnlisted, Removed, TypeOK
  <2>3. OlderFirst'
    <3> SUFFICES ASSUME NEW f \in Files, NEW g \in Files,
                        WrittenOnce(f), WrittenOnce(g), ~Faulted',
                        Parses(f)', kind[f] # "link",
                        Before(inbox'[BridgeOf[g]], f, g), g \in Range(todo)
                 PROVE  f \in seen' \/ Before(todo, f, g)
      BY <1>0 DEF OlderFirst, WrittenOnce
    <3>1. f # cur /\ Before(inbox[BridgeOf[g]], f, g) /\ ~Faulted
      BY <2>1, InboxAssumption
    <3>2. Parses(f)
      BY <1>0, <1>1, <3>1 DEF Parses, Removed, TypeOK
    <3> QED
      BY <1>0, <3>1, <3>2 DEF OlderFirst
  <2> QED
    BY <2>2, <2>3
<1>2. CASE Fault /\ UNCHANGED <<file, inbox>>
  <2>1. Faulted'
    BY <1>2, FaultKnown
  <2> QED
    BY <1>0, <1>2, <2>1 DEF ListedOnce, UnwrittenUnlisted, OlderFirst
<1> QED
  BY <1>1, <1>2 DEF Unlink, Unlinks

\* A written file is behind every other, and was in no listing if it is new.
LEMMA WriteOrder ==
    ASSUME OrderInv, Wrapper, Faulted => Faulted'
    PROVE  ListedOnce' /\ UnwrittenUnlisted' /\ OlderFirst'
<1> USE DEF OrderInv
<1>0. PICK h \in Files : WrapperWrites(h) \/ RawWriteBegins(h) \/ RawWriteEnds(h)
  BY DEF Wrapper
<1>1. /\ UNCHANGED <<kind, todo, seen>> /\ inbox' = Touched(h)
      /\ \A f \in Files : f # h => file'[f] = file[f]
  BY <1>0 DEF WrapperWrites, RawWriteBegins, RawWriteEnds, sweep, TypeOK
<1>2. /\ \A f \in Files : f # h => budget'.writes[f] = budget.writes[f]
      /\ \/ budget'.writes[h] = budget.writes[h] - 1
         \/ RawWriteEnds(h) /\ budget' = budget
  <2>1. CASE budget' = [budget EXCEPT !.writes[h] = @ - 1]
    <3>1. budget'.writes = [budget.writes EXCEPT ![h] = @ - 1]
      BY <2>1 DEF TypeOK
    <3> QED
      BY <3>1 DEF TypeOK
  <2> QED
    BY <1>0, <2>1 DEF WrapperWrites, RawWriteBegins, RawWriteEnds
<1>3. \A b \in Bridges :
          /\ IsInjective(inbox'[b])
          /\ Range(inbox'[b]) \subseteq Range(inbox[b]) \cup {h}
          /\ \A f \in Range(inbox'[b]) : BridgeOf[f] = b
          /\ \A g : ~Before(inbox'[b], h, g)
          /\ \A f, g : Before(inbox'[b], f, g) /\ g # h => Before(inbox[b], f, g)
  BY <1>1, TouchedOrder
<1>4. ListedOnce'
  BY <1>1, <1>3 DEF ListedOnce
<1>w. budget.writes \in [Files -> Nat] /\ MaxWrites \in [Files -> Nat]
      /\ budget.writes[h] <= MaxWrites[h]
  BY InboxAssumption DEF TypeOK, BudgetsBounded
\* A file that is being written in place is no new one.
<1>5. UnwrittenUnlisted'
  <2> SUFFICES ASSUME NEW f \in Files, budget'.writes[f] = MaxWrites[f]
               PROVE  /\ file'[f] = "absent" /\ f \notin Range(todo)
                      /\ \A b \in Bridges : f \notin Range(inbox'[b])
    BY <1>1 DEF UnwrittenUnlisted
  <2>1. f # h
    <3>1. RawWriteEnds(h) => budget.writes[h] # MaxWrites[h]
      BY DEF RawWriteEnds, UnwrittenUnlisted
    <3>2. budget'.writes[h] # MaxWrites[h]
      BY <1>2, <1>w, <3>1
    <3> QED
      BY <3>2
  <2> QED
    BY <1>1, <1>2, <1>3, <2>1 DEF UnwrittenUnlisted
<1>6. OlderFirst'
  <2> SUFFICES ASSUME NEW f \in Files, NEW g \in Files,
                      WrittenOnce(f)', WrittenOnce(g)', ~Faulted',
                      Parses(f)', kind[f] # "link",
                      Before(inbox'[BridgeOf[g]], f, g), g \in Range(todo)
               PROVE  f \in seen \/ Before(todo, f, g)
    BY <1>1 DEF OlderFirst
  <2>0. BridgeOf[g] \in Bridges
    BY InboxAssumption
  <2>1. f # h
    <3>1. ~Before(inbox'[BridgeOf[g]], h, g)
      BY <1>3, <2>0
    <3> QED
      BY <3>1
  <2>2. g # h
    <3>1. CASE budget'.writes[h] = budget.writes[h] - 1
      <4>1. g = h => budget.writes[h] - 1 + 1 = MaxWrites[h]
        BY <3>1 DEF WrittenOnce
      <4>2. g = h => budget.writes[g] = MaxWrites[g]
        BY <1>w, <4>1
      <4> QED
        BY <4>2 DEF UnwrittenUnlisted
    <3>2. CASE RawWriteEnds(h)
      BY <3>2 DEF RawWriteEnds, TornInPlace, WrittenOnce
    <3> QED
      BY <1>2, <3>1, <3>2
  <2>3. /\ WrittenOnce(f) /\ WrittenOnce(g) /\ Parses(f)
        /\ Before(inbox[BridgeOf[g]], f, g)
    BY <1>1, <1>2, <1>3, <2>0, <2>1, <2>2 DEF WrittenOnce, Parses
  <2> QED
    BY <2>3 DEF OlderFirst
<1> QED
  BY <1>4, <1>5, <1>6

LEMMA ListOrder == OrderInv /\ ListBridge => ListedOnce' /\ UnwrittenUnlisted' /\ OlderFirst'
<1> SUFFICES ASSUME OrderInv, ListBridge
             PROVE  ListedOnce' /\ UnwrittenUnlisted' /\ OlderFirst'
  OBVIOUS
<1> USE DEF OrderInv
<1> DEFINE b == Head(bridgesLeft)
<1>1. b \in Bridges /\ todo' = inbox[b] /\ UNCHANGED <<kind, file, inbox, seen, budget>>
  BY HeadTailProperties DEF ListBridge, TypeOK, disk
<1> HIDE DEF b
<1>2. ListedOnce' /\ UnwrittenUnlisted'
  BY <1>1 DEF ListedOnce, UnwrittenUnlisted
<1>3. \A g \in Files : g \in Range(inbox[b]) => BridgeOf[g] = b
  BY <1>1 DEF ListedOnce
<1>4. OlderFirst'
  BY <1>1, <1>3 DEF OlderFirst
<1> QED
  BY <1>2, <1>4

\* What every visit does to the disk, the marks and the bounds.
LEMMA VisitEffect ==
    ASSUME OrderInv, NEW h \in Files, Visit(h)
    PROVE  \/ todo' = <<>> /\ UNCHANGED <<file, inbox, kind, budget>>
           \/ /\ Visits(h) /\ budget'.writes = budget.writes /\ UNCHANGED kind
              /\ \/ /\ UNCHANGED <<file, inbox>> /\ seen \subseteq seen'
                    /\ Parses(h) /\ kind[h] # "link" => h \in seen'
                 \/ Removed(h) /\ seen \ {h} \subseteq seen'
                 \/ UNCHANGED <<file, inbox>> /\ Faulted'
<1>f. Fault => Faulted' /\ budget'.writes = budget.writes
  <2>1. Fault => budget'.writes = budget.writes
    BY DEF Fault, OrderInv, TypeOK
  <2> QED
    BY <2>1, FaultKnown DEF OrderInv
<1>1. CASE RejectLink(h) \/ SkipSeen(h) \/ CountBadRead(h)
  BY <1>1 DEF RejectLink, SkipSeen, CountBadRead, Unread, Visits, BadRead, Parses
<1>2. CASE Quarantine(h)
  BY <1>2, <1>f DEF Quarantine, Unread, Visits
<1>3. CASE FailOnUndecodable(h) \/ FailOnMalformed(h)
  BY <1>3 DEF FailOnUndecodable, FailOnMalformed, AbortSweep, disk
<1>4. CASE SkipNoSender(h) \/ Absorb(h) \/ StartReaction(h) \/ RecordChat(h)
  BY <1>4 DEF SkipNoSender, Absorb, StartReaction, RecordChat, Reads, Unread, Visits
<1>5. CASE SuppressDuplicate(h) \/ Refuse(h)
  <2>1. Unlinks(h) /\ Visits(h) /\ UNCHANGED kind
    BY <1>5 DEF SuppressDuplicate, Refuse, Reads, Unread, Visits
  <2>2. CASE Removed(h) /\ UNCHANGED budget
    BY <2>1, <2>2 DEF Unlinks
  <2>3. CASE Fault /\ UNCHANGED <<file, inbox>>
    BY <1>f, <2>1, <2>3
  <2> QED
    BY <2>1, <2>2, <2>3 DEF Unlinks
<1> QED
  BY <1>1, <1>2, <1>3, <1>4, <1>5 DEF Visit

LEMMA TornStep == TypeOK /\ TornInPlace /\ [Next]_vars => TornInPlace'
<1> SUFFICES ASSUME TypeOK, TornInPlace, [Next]_vars
             PROVE  TornInPlace'
  OBVIOUS
<1> USE DEF TornInPlace
<1>r. ASSUME NEW h \in Files, Removed(h)
      PROVE  TornInPlace'
  BY <1>r DEF Removed, TypeOK
<1>1. CASE UNCHANGED file
  BY <1>1
<1>2. CASE Wrapper
  BY <1>2 DEF Wrapper, WrapperWrites, RawWriteBegins, RawWriteEnds, TypeOK
<1>3. ASSUME NEW h \in Files, Visit(h)
      PROVE  TornInPlace'
  BY <1>1, <1>3, <1>r
  DEF Visit, RejectLink, SkipSeen, CountBadRead, Quarantine, SkipNoSender,
      FailOnUndecodable, FailOnMalformed, SuppressDuplicate, Refuse, Absorb,
      StartReaction, RecordChat, Unlinks, disk
<1>4. CASE Unlink
  <2>1. cur \in Files
    BY <1>4 DEF Unlink, TypeOK
  <2> QED
    BY <1>1, <1>4, <1>r, <2>1 DEF Unlink, Unlinks
<1>5. CASE UNCHANGED vars \/ BeginSweep \/ ListBridge \/ ListFails \/ EndSweep \/ HandOff
           \/ Gateway \/ Crash \/ Disconnect \/ Connect \/ \E k \in Keys : Expire(k)
  BY <1>1, <1>5
  DEF vars, BeginSweep, ListBridge, ListFails, EndSweep, HandOff, Gateway, ReactionReturns,
      HandlerReturns, HandlerRaises, Crash, Disconnect, Connect, Expire, disk
<1> QED
  BY <1>2, <1>3, <1>4, <1>5 DEF Next, PollTask

LEMMA OrderStep == OrderInv /\ [Next]_vars => OrderInv'
<1> SUFFICES ASSUME OrderInv, [Next]_vars
             PROVE  ListedOnce' /\ UnwrittenUnlisted' /\ OlderFirst'
  BY TypeStep, BudgetStep, TornStep DEF OrderInv
<1>b. Faulted => Faulted'
  BY BudgetStep DEF OrderInv
\* A step that leaves the directories alone and forgets the listing, or nothing.
<1>1. CASE /\ UNCHANGED <<kind, file, inbox>> /\ budget'.writes = budget.writes
           /\ todo' = <<>> \/ (todo' = todo /\ seen' = seen)
  BY <1>1, <1>b, NothingListed
  DEF OrderInv, ListedOnce, UnwrittenUnlisted, OlderFirst, WrittenOnce, Parses
<1>2. CASE Wrapper
  BY <1>2, <1>b, WriteOrder
<1>3. CASE ListBridge
  BY <1>3, ListOrder
<1>4. ASSUME NEW h \in Files, Visit(h)
      PROVE  ListedOnce' /\ UnwrittenUnlisted' /\ OlderFirst'
  BY <1>1, <1>4, <1>b, VisitEffect, VisitOrder
<1>5. CASE Unlink
  BY <1>5, <1>b, UnlinkOrder
<1>6. CASE BeginSweep \/ ListFails \/ EndSweep \/ HandOff
  BY <1>1, <1>6 DEF BeginSweep, ListFails, EndSweep, HandOff, disk, sweep
<1>7. CASE ReactionReturns \/ HandlerReturns
  BY <1>1, <1>7 DEF ReactionReturns, HandlerReturns, disk, sweep
<1>8. CASE HandlerRaises
  <2>1. budget'.writes = budget.writes
    BY <1>8 DEF HandlerRaises, Fault, OrderInv, TypeOK
  <2> QED
    BY <1>1, <1>8, <2>1 DEF HandlerRaises, AbortSweep, disk
<1>9. CASE Crash \/ Disconnect
  <2>1. budget'.writes = budget.writes
    BY <1>9 DEF Crash, Disconnect, Stop, OrderInv, TypeOK
  <2> QED
    BY <1>1, <1>9, <2>1 DEF Crash, Disconnect, Stop, AbortSweep, disk
<1>10. CASE Connect
  BY <1>1, <1>10 DEF Connect, disk, sweep
<1>11. ASSUME NEW k \in Keys, Expire(k)
       PROVE  ListedOnce' /\ UnwrittenUnlisted' /\ OlderFirst'
  <2>1. budget'.writes = budget.writes
    BY <1>11 DEF Expire, OrderInv, TypeOK
  <2> QED
    BY <1>1, <1>11, <2>1 DEF Expire, disk, sweep
<1>12. CASE UNCHANGED vars
  BY <1>1, <1>12 DEF vars
<1> QED
  BY <1>2, <1>3, <1>4, <1>5, <1>6, <1>7, <1>8, <1>9, <1>10, <1>11, <1>12
  DEF Next, PollTask, Gateway

\* The only steps that start a hand-off are visits of the message.
LEMMA WhatIsHandedOff ==
    ASSUME TypeOK, [Next]_vars, NEW g \in Files,
           phase = "sweep", phase' \in {"recorded", "reacting", "done"}, cur' = g
    PROVE  Visits(g) /\ UNCHANGED inbox
<1>1. ~(Wrapper \/ UNCHANGED vars \/ BeginSweep \/ ListBridge \/ ListFails \/ EndSweep
        \/ HandOff \/ Unlink \/ Gateway \/ Crash \/ Disconnect \/ Connect
        \/ \E k \in Keys : Expire(k))
  BY DEF Wrapper, WrapperWrites, RawWriteBegins, RawWriteEnds, vars, BeginSweep,
         ListBridge, ListFails, EndSweep, HandOff, Unlink, Gateway, ReactionReturns,
         HandlerReturns, HandlerRaises, Crash, Disconnect, Connect, Expire, Stop,
         AbortSweep
<1>2. PICK f \in Files : Visit(f)
  BY <1>1 DEF Next, PollTask
<1>3. Absorb(f) \/ StartReaction(f) \/ RecordChat(f)
  BY <1>2
  DEF Visit, RejectLink, SkipSeen, CountBadRead, Quarantine, SkipNoSender,
      FailOnUndecodable, FailOnMalformed, SuppressDuplicate, Refuse, AbortSweep
<1> QED
  BY <1>3 DEF Absorb, StartReaction, RecordChat, Reads, Unread

\* Messages of one bridge are handed off in the order they were written: at a
\* hand-off no older readable message of its directory waits unmarked.
THEOREM HandedOffInOrder == Spec => InOrder
<1>1. OrderInv /\ [Next]_vars =>
          \A g \in Files :
              phase = "sweep" /\ phase' \in {"recorded", "reacting", "done"} /\ cur' = g
              => \A i, j \in DOMAIN inbox[BridgeOf[g]] :
                    LET f == inbox[BridgeOf[g]][i]
                    IN  /\ i < j /\ inbox[BridgeOf[g]][j] = g
                        /\ Parses(f) /\ kind[f] # "link"
                        /\ {f, g} \cap RawFiles = {}
                        /\ budget.writes[f] + 1 = MaxWrites[f]
                        /\ budget.writes[g] + 1 = MaxWrites[g]
                        /\ ~Faulted
                        => f \in seen
  <2> SUFFICES ASSUME OrderInv, [Next]_vars, NEW g \in Files,
                      phase = "sweep", phase' \in {"recorded", "reacting", "done"},
                      cur' = g,
                      NEW i \in DOMAIN inbox[BridgeOf[g]],
                      NEW j \in DOMAIN inbox[BridgeOf[g]],
                      NEW f, f = inbox[BridgeOf[g]][i],
                      i < j, inbox[BridgeOf[g]][j] = g,
                      Parses(f), kind[f] # "link", {f, g} \cap RawFiles = {},
                      budget.writes[f] + 1 = MaxWrites[f],
                      budget.writes[g] + 1 = MaxWrites[g], ~Faulted
               PROVE  f \in seen
    OBVIOUS
  <2>1. Visits(g)
    BY WhatIsHandedOff DEF OrderInv
  <2>2. /\ g \in Range(todo) /\ ~Before(todo, f, g)
    BY <2>1, VisitedOrder DEF OrderInv
  <2>3. f \in Files
    <3>1. inbox[BridgeOf[g]] \in Seq(Files)
      BY InboxAssumption DEF OrderInv, TypeOK
    <3> QED
      BY <3>1, ElementOfSeq, LenProperties
  <2>4. Before(inbox[BridgeOf[g]], f, g)
    BY DEF Before
  <2> QED
    BY <2>2, <2>3, <2>4 DEF OrderInv, OlderFirst, WrittenOnce
<1>2. Spec => []OrderInv
  BY InitOrder, OrderStep, PTL DEF Spec
<1> QED
  BY <1>1, <1>2, PTL DEF Spec, InOrder

============================================================================
