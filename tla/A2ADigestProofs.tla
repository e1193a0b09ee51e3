--------------------------- MODULE A2ADigestProofs ---------------------------
(***************************************************************************)
(* The bookkeeping of the a2a digest, for every number of messages and     *)
(* peers, every window, cap and cooldown, and any number of crashes and    *)
(* failing hand-offs: a message whose file is gone is accounted for, and   *)
(* without crashes and failures a peer's messages are first handed off in  *)
(* the order of their arrival.                                             *)
(***************************************************************************)
EXTENDS A2ADigest, FiniteSetTheorems, SequenceTheorems, WellFoundedInduction,
        TLAPS

----------------------------------------------------------------------------
(* Sequences and sets of numbers. *)

\* A set of numbers from 0 to n that is not empty has a greatest element.
LEMMA HasGreatest ==
    ASSUME NEW n \in Nat, NEW S, S \subseteq 0..n, S # {}
    PROVE  \E x \in S : \A y \in S : y <= x
<1> DEFINE Less == {ss \in Nat \X Nat : ss[1] < ss[2]}
           T == {n - x : x \in S}
<1>1. \A x \in S : n - x \in T /\ n - x \in Nat
  OBVIOUS
<1>2. T \subseteq Nat /\ T # {} /\ \A t \in T : \E x \in S : t = n - x
  BY <1>1
<1>3. IsWellFoundedOn(Less, Nat)
  BY NatLessThanWellFounded DEF OpToRel
<1> HIDE DEF Less, T
<1>4. PICK t \in T : \A u \in T : <<u, t>> \notin Less
  BY <1>2, <1>3, WFMin
<1>5. PICK x \in S : t = n - x
  BY <1>2
<1>6. \A y \in S : ~(n - y < n - x)
  BY <1>1, <1>4, <1>5 DEF Less
<1>7. \A y \in S : y <= x
  BY <1>6
<1> QED
  BY <1>7

\* A sequence without one of its places.
LEMMA Removed ==
    ASSUME NEW S, NEW s \in Seq(S), NEW i \in DOMAIN s
    PROVE  /\ RemoveAt(s, i) \in Seq(S)
           /\ Range(RemoveAt(s, i)) \subseteq Range(s)
           /\ Range(s) \ {s[i]} \subseteq Range(RemoveAt(s, i))
<1> DEFINE p == SubSeq(s, 1, i - 1)
           q == SubSeq(s, i + 1, Len(s))
<1>1. /\ Len(s) \in Nat /\ DOMAIN s = 1..Len(s) /\ i \in 1..Len(s)
      /\ \A k \in 1..Len(s) : s[k] \in S
  BY LenProperties, ElementOfSeq
<1>2. /\ p \in Seq(S) /\ Len(p) = i - 1
      /\ \A k \in 1..i - 1 : p[k] = s[k]
  <2>1. /\ p \in Seq(S) /\ Len(p) = IF 1 <= i - 1 THEN (i - 1) - 1 + 1 ELSE 0
        /\ \A k \in 1..(i - 1) - 1 + 1 : p[k] = s[1 + k - 1]
    BY <1>1, SubSeqProperties
  <2> QED
    BY <1>1, <2>1
<1>3. /\ q \in Seq(S) /\ Len(q) = Len(s) - i
      /\ \A k \in 1..Len(s) - i : q[k] = s[i + k]
  <2>1. /\ q \in Seq(S) /\ Len(q) = IF i + 1 <= Len(s) THEN Len(s) - (i + 1) + 1 ELSE 0
        /\ \A k \in 1..Len(s) - (i + 1) + 1 : q[k] = s[(i + 1) + k - 1]
    BY <1>1, SubSeqProperties
  <2> QED
    BY <1>1, <2>1, SMTT(30)
<1>4. /\ DOMAIN p = 1..i - 1 /\ DOMAIN q = 1..Len(s) - i
  BY <1>2, <1>3, LenProperties
<1> HIDE DEF p, q
<1>5. Range(RemoveAt(s, i)) = Range(p) \cup Range(q)
  BY <1>2, <1>3, RangeConcatenation DEF RemoveAt, p, q
<1>6. Range(p) \subseteq Range(s) /\ Range(q) \subseteq Range(s)
  <2>1. \A k \in DOMAIN p : k \in DOMAIN s /\ p[k] = s[k]
    BY <1>1, <1>2, <1>4
  <2>2. \A k \in DOMAIN q : i + k \in DOMAIN s /\ q[k] = s[i + k]
    BY <1>1, <1>3, <1>4
  <2> QED
    BY <2>1, <2>2 DEF Range
<1>7. ASSUME NEW e \in Range(s), e # s[i]
      PROVE  e \in Range(p) \cup Range(q)
  <2>1. PICK k \in 1..Len(s) : e = s[k]
    BY <1>1 DEF Range
  <2>2. CASE k < i
    BY <1>1, <1>2, <1>4, <2>1, <2>2 DEF Range
  <2>3. CASE k > i
    <3>1. k - i \in 1..Len(s) - i /\ i + (k - i) = k
      BY <1>1, <2>1, <2>3
    <3>2. k - i \in DOMAIN q /\ q[k - i] = e
      BY <1>3, <1>4, <2>1, <3>1
    <3> QED
      BY <3>2 DEF Range
  <2> QED
    BY <1>1, <1>7, <2>1, <2>2, <2>3
<1>8. RemoveAt(s, i) \in Seq(S)
  BY <1>2, <1>3, ConcatProperties DEF RemoveAt, p, q
<1> QED
  BY <1>5, <1>6, <1>7, <1>8

----------------------------------------------------------------------------
(* Sequences. *)

\* A bundle with one more message.
LEMMA OneMoreMessage ==
    ASSUME NEW S, NEW s \in Seq(S), NEW e \in S
    PROVE  /\ Append(s, e) \in Seq(S) /\ Append(s, e) # <<>>
           /\ Range(Append(s, e)) = Range(s) \cup {e}
<1>1. /\ Append(s, e) \in Seq(S) /\ Append(s, e) # <<>>
      /\ Len(Append(s, e)) = Len(s) + 1
      /\ \A i \in 1..Len(s) : Append(s, e)[i] = s[i]
      /\ Append(s, e)[Len(s) + 1] = e
  BY AppendProperties
<1>2. Len(s) \in Nat /\ 1..(Len(s) + 1) = 1..Len(s) \cup {Len(s) + 1}
  BY LenProperties
<1>3. /\ Range(s) = {s[i] : i \in 1..Len(s)}
      /\ Range(Append(s, e)) = {Append(s, e)[i] : i \in 1..(Len(s) + 1)}
  BY <1>1, RangeEquality
<1> QED
  BY <1>1, <1>2, <1>3

LEMMA NoMessage == Range(<<>>) = {}
BY DEF Range

\* The first entry of a list, and those behind it.
LEMMA HeadAndRest ==
    ASSUME NEW S, NEW s \in Seq(S), s # <<>>
    PROVE  Head(s) \in Range(s) /\ Range(Tail(s)) \subseteq Range(s)
<1>1. /\ Head(s) = s[1] /\ Tail(s) \in Seq(S) /\ Len(Tail(s)) = Len(s) - 1
      /\ \A i \in 1..Len(Tail(s)) : Tail(s)[i] = s[i + 1]
  BY HeadTailProperties
<1>2. Len(s) \in Nat /\ Len(s) # 0 /\ DOMAIN s = 1..Len(s) /\ DOMAIN Tail(s) = 1..Len(Tail(s))
  BY <1>1, LenProperties, EmptySeq
<1>3. \A i \in DOMAIN Tail(s) : i + 1 \in DOMAIN s /\ Tail(s)[i] = s[i + 1]
  BY <1>1, <1>2
<1>4. 1 \in DOMAIN s
  BY <1>2
<1> QED
  BY <1>1, <1>3, <1>4 DEF Range

\* Clearing a pending bundle takes one entry with its text, or none.
LEMMA OneEntryLess ==
    ASSUME pend \in Seq(Seq(Msgs)), NEW b
    PROVE  /\ WithoutNewest(b) \in Seq(Seq(Msgs))
           /\ Range(pend) \ {b} \subseteq Range(WithoutNewest(b))
           /\ Range(WithoutNewest(b)) \subseteq Range(pend)
<1>1. CASE b \notin Range(pend)
  BY <1>1 DEF WithoutNewest
<1>2. CASE b \in Range(pend)
  <2> DEFINE I == {i \in DOMAIN pend : pend[i] = b}
             newest == CHOOSE i \in DOMAIN pend :
                           /\ pend[i] = b
                           /\ \A j \in DOMAIN pend : pend[j] = b => j <= i
  <2>1. Len(pend) \in Nat /\ DOMAIN pend = 1..Len(pend)
    BY LenProperties
  <2>2. I \subseteq 0..Len(pend) /\ I # {}
    BY <1>2, <2>1 DEF Range
  <2>3. \E i \in DOMAIN pend :
            /\ pend[i] = b
            /\ \A j \in DOMAIN pend : pend[j] = b => j <= i
    <3>1. \E i \in I : \A j \in I : j <= i
      BY <2>1, <2>2, HasGreatest
    <3> QED
      BY <3>1
  <2>4. newest \in DOMAIN pend /\ pend[newest] = b
    BY <2>3
  <2>5. WithoutNewest(b) = RemoveAt(pend, newest)
    BY <1>2 DEF WithoutNewest
  <2> HIDE DEF newest
  <2> QED
    BY <2>4, <2>5, Removed
<1> QED
  BY <1>1, <1>2

----------------------------------------------------------------------------
(* Types. *)

LEMMA CountedType ==
    ASSUME delivered \in [Msgs -> 0..2], NEW ms
    PROVE  /\ Counted(ms) \in [Msgs -> 0..2]
           /\ \A m \in Msgs : m \in ms \/ delivered[m] > 0 => Counted(ms)[m] > 0
<1> SUFFICES ASSUME NEW m \in Msgs
             PROVE  /\ Counted(ms)[m] \in 0..2
                    /\ m \in ms \/ delivered[m] > 0 => Counted(ms)[m] > 0
  BY DEF Counted
<1>1. Counted(ms)[m] = IF m \in ms /\ delivered[m] < 2
                       THEN delivered[m] + 1 ELSE delivered[m]
  BY DEF Counted
<1> QED
  BY <1>1

LEMMA RaisesType == TypeOK /\ raises < MaxRaises => raises + 1 \in 0..MaxRaises
BY DigestAssumption DEF TypeOK, FieldsOK

\* Saving and emptying keep the states' types, and a window's buffer.
LEMMA SavedType ==
    ASSUME NEW states \in [Peers -> DigestStates]
    PROVE  /\ Saved(states) \in [Peers -> DigestStates]
           /\ \A p \in Peers : /\ Saved(states)[p].state = states[p].state
                               /\ Saved(states)[p].buffer = states[p].buffer
<1> SUFFICES ASSUME NEW p \in Peers
             PROVE  /\ Saved(states)[p] \in DigestStates
                    /\ Saved(states)[p].state = states[p].state
                    /\ Saved(states)[p].buffer = states[p].buffer
  BY DEF Saved
<1>1. Saved(states)[p] = [states[p] EXCEPT !.savedGap = states[p].gap]
  BY DEF Saved
<1> QED
  BY <1>1 DEF DigestStates

LEMMA EmptiedType ==
    ASSUME TypeOK, NEW p \in Peers
    PROVE  /\ Emptied(p) \in [Peers -> DigestStates]
           /\ Emptied(p)[p].state = "active" /\ Emptied(p)[p].buffer = <<>>
           /\ \A q \in Peers \ {p} : /\ Emptied(p)[q].state = st[q].state
                                     /\ Emptied(p)[q].buffer = st[q].buffer
<1> DEFINE s == [st EXCEPT ![p] = [@ EXCEPT !.state = "active", !.buffer = <<>>,
                                            !.cool = Cooldown]]
<1>1. /\ s \in [Peers -> DigestStates]
      /\ s[p].state = "active" /\ s[p].buffer = <<>>
      /\ \A q \in Peers \ {p} : s[q] = st[q]
  <2>1. Cooldown \in 0..Cooldown
    BY DigestAssumption
  <2>2. s[p] = [st[p] EXCEPT !.state = "active", !.buffer = <<>>, !.cool = Cooldown]
    BY DEF TypeOK, FieldsOK
  <2>3. st[p] \in DigestStates
    BY DEF TypeOK, FieldsOK
  <2>4. s[p] \in DigestStates /\ s[p].state = "active" /\ s[p].buffer = <<>>
    <3> HIDE DEF s
    <3>1. <<>> \in Seq(Msgs)
      OBVIOUS
    <3> QED
      BY <2>1, <2>2, <2>3, <3>1 DEF DigestStates
  <2> QED
    BY <2>4 DEF TypeOK, FieldsOK
<1>2. Emptied(p) = Saved(s)
  BY DEF Emptied
<1> HIDE DEF s
<1> QED
  BY <1>1, <1>2, SavedType

LEMMA InitType == Init => TypeOK
<1> SUFFICES ASSUME Init PROVE TypeOK
  OBVIOUS
<1>1. /\ 0 \in 0..MaxCrashes /\ 0 \in 0..MaxRaises /\ 0 \in 0..Window
      /\ 0 \in 0..Cooldown /\ SerieGap + 1 \in 0..(SerieGap + 1)
  BY DigestAssumption
<1>2. st \in [Peers -> DigestStates]
  <2>1. Fresh \in DigestStates
    BY <1>1 DEF Fresh, DigestStates
  <2> QED
    BY <2>1 DEF Init
<1>3. OpenIffBuffered
  BY DEF Init, Fresh, OpenIffBuffered
<1>4. poll \in PollStates /\ timer \in TimerStates /\ poll.at = "idle"
  BY DEF Init, PollIdle, TimerIdle, PollStates, TimerStates
<1> QED
  BY <1>1, <1>2, <1>3, <1>4 DEF Init, TypeOK, FieldsOK

LEMMA ArriveType == ASSUME TypeOK, NEW m \in Msgs, Arrive(m) PROVE TypeOK'
BY DEF TypeOK, FieldsOK, OpenIffBuffered, Arrive, history

\* Time changes no window's buffer.
LEMMA TickType ==
    ASSUME TypeOK, Tick
    PROVE  /\ TypeOK'
           /\ \A p \in Peers : st'[p].buffer = st[p].buffer
<1>1. ASSUME NEW p \in Peers
      PROVE  /\ st'[p] \in DigestStates
             /\ st'[p].state = st[p].state /\ st'[p].buffer = st[p].buffer
  <2>1. st[p] \in DigestStates /\ st'[p] = Aged(st[p])
    BY DEF TypeOK, FieldsOK, Tick
  <2>2. /\ \A n \in 0..(SerieGap + 1) : OneMore(n) \in 0..(SerieGap + 1)
        /\ \A n \in 0..Window : LessOne(n) \in 0..Window
        /\ \A n \in 0..Cooldown : LessOne(n) \in 0..Cooldown
    BY DigestAssumption DEF OneMore, LessOne
  <2>3. Aged(st[p]) = [state |-> st[p].state, buffer |-> st[p].buffer,
                       gap |-> OneMore(st[p].gap),
                       savedGap |-> OneMore(st[p].savedGap),
                       until |-> LessOne(st[p].until), cool |-> LessOne(st[p].cool)]
    BY <2>1 DEF Aged, DigestStates
  <2> QED
    BY <2>1, <2>2, <2>3 DEF DigestStates
<1>2. st' \in [Peers -> DigestStates]
  BY <1>1 DEF Tick
<1> QED
  BY <1>1, <1>2 DEF TypeOK, FieldsOK, OpenIffBuffered, Tick, history

LEMMA SuppressType == ASSUME TypeOK, NEW m \in Msgs, Suppress(m) PROVE TypeOK'
BY DEF TypeOK, FieldsOK, OpenIffBuffered, Suppress, Takes, history

LEMMA PassType ==
    ASSUME TypeOK, NEW m \in Msgs, Pass(m)
    PROVE  /\ TypeOK'
           /\ \A p \in Peers : st'[p].buffer = st[p].buffer
<1> DEFINE p == PeerOf[m]
<1>1. p \in Peers /\ 0 \in 0..(SerieGap + 1)
  BY DigestAssumption
<1> HIDE DEF p
<1>2. st' = [st EXCEPT ![p] = [st[p] EXCEPT !.gap = 0]]
  BY DEF Pass, p
<1>3. st \in [Peers -> DigestStates]
  BY DEF TypeOK, FieldsOK
<1>4. /\ st'[p] \in DigestStates
      /\ st'[p].state = st[p].state /\ st'[p].buffer = st[p].buffer
  <2>1. st'[p] = [st[p] EXCEPT !.gap = 0] /\ st[p] \in DigestStates
    BY <1>1, <1>2, <1>3
  <2> QED
    BY <1>1, <2>1 DEF DigestStates
<1>5. \A q \in Peers \ {p} : st'[q] = st[q]
  BY <1>2, <1>3
<1>6. st' \in [Peers -> DigestStates] /\ OpenIffBuffered'
  BY <1>2, <1>3, <1>4, <1>5 DEF TypeOK, OpenIffBuffered
<1>7. poll' \in PollStates /\ poll'.msg \in Msgs
  BY DEF Pass, PollStates
<1> QED
  BY <1>4, <1>5, <1>6, <1>7 DEF TypeOK, FieldsOK, Pass, Takes

\* Into an open window: nothing leaves a buffer, and the message is in one.
LEMMA BuffersType ==
    ASSUME TypeOK, NEW m \in Msgs, Open(m) \/ Buffer(m)
    PROVE  /\ TypeOK'
           /\ \A q \in Peers : Range(st[q].buffer) \subseteq Range(st'[q].buffer)
           /\ m \in Range(st'[PeerOf[m]].buffer)
           /\ \A q \in Peers : Range(st'[q].buffer)
                  \subseteq Range(st[q].buffer) \cup (IF q = PeerOf[m] THEN {m} ELSE {})
<1> SUFFICES ASSUME NEW p, p = PeerOf[m]
             PROVE  /\ TypeOK'
                    /\ \A q \in Peers : Range(st[q].buffer) \subseteq Range(st'[q].buffer)
                    /\ m \in Range(st'[p].buffer)
                    /\ \A q \in Peers : Range(st'[q].buffer)
                           \subseteq Range(st[q].buffer) \cup (IF q = p THEN {m} ELSE {})
  OBVIOUS
<1>1. /\ p \in Peers /\ 0 \in 0..(SerieGap + 1) /\ Window \in 0..Window
  BY DigestAssumption
<1>2. st \in [Peers -> DigestStates]
  BY DEF TypeOK, FieldsOK
<1>3. PICK d \in DigestStates :
          /\ st' = Saved([st EXCEPT ![p] = d])
          /\ d.state = "digesting" /\ d.buffer # <<>>
          /\ Range(d.buffer) = Range(st[p].buffer) \cup {m}
  <2>1. st[p] \in DigestStates
    BY <1>1, <1>2
  <2>2. CASE Open(m)
    <3> DEFINE d == [st[p] EXCEPT !.state = "digesting", !.gap = 0,
                                  !.buffer = <<m>>, !.until = Window]
    <3>1. st' = Saved([st EXCEPT ![p] = d])
      BY <2>2, <1>1, <1>2 DEF Open
    <3>2. st[p].buffer = <<>>
      BY <2>2, <1>1 DEF Open, TypeOK, OpenIffBuffered
    <3>3. <<m>> \in Seq(Msgs) /\ <<m>> # <<>> /\ Range(<<m>>) = {m}
      BY DEF Range
    <3>4. d \in DigestStates /\ d.state = "digesting" /\ d.buffer = <<m>>
      BY <1>1, <2>1, <3>3 DEF DigestStates
    <3> HIDE DEF d
    <3> QED
      BY <3>1, <3>2, <3>3, <3>4, NoMessage
  <2>3. CASE Buffer(m)
    <3> DEFINE b == Append(st[p].buffer, m)
               d == [st[p] EXCEPT !.buffer = b]
    <3>1. st' = Saved([st EXCEPT ![p] = d])
      BY <2>3, <1>1, <1>2 DEF Buffer
    <3>2. st[p].buffer \in Seq(Msgs)
      BY <2>1 DEF DigestStates
    <3>3. b \in Seq(Msgs) /\ b # <<>> /\ Range(b) = Range(st[p].buffer) \cup {m}
      BY <3>2, OneMoreMessage
    <3> HIDE DEF b
    <3>4. d \in DigestStates /\ d.state = "digesting" /\ d.buffer = b
      BY <2>1, <2>3, <3>3 DEF DigestStates, Buffer
    <3> HIDE DEF d
    <3> QED
      BY <3>1, <3>3, <3>4
  <2> QED
    BY <2>2, <2>3
<1>5. /\ st' \in [Peers -> DigestStates]
      /\ st'[p].state = "digesting" /\ st'[p].buffer = d.buffer
      /\ \A q \in Peers \ {p} : st'[q].state = st[q].state /\ st'[q].buffer = st[q].buffer
  <2> DEFINE s == [st EXCEPT ![p] = d]
  <2>1. /\ s \in [Peers -> DigestStates] /\ s[p] = d
        /\ \A q \in Peers \ {p} : s[q] = st[q]
    BY <1>1, <1>2
  <2>2. st' = Saved(s)
    BY <1>3
  <2> HIDE DEF s
  <2>3. /\ Saved(s) \in [Peers -> DigestStates]
        /\ \A q \in Peers : Saved(s)[q].state = s[q].state /\ Saved(s)[q].buffer = s[q].buffer
    BY <2>1, SavedType
  <2> QED
    BY <1>1, <1>3, <2>1, <2>2, <2>3
<1>6. OpenIffBuffered'
  BY <1>3, <1>5 DEF TypeOK, OpenIffBuffered
<1>7. poll' \in PollStates /\ poll'.msg \in Msgs
  <2>1. poll' = [at |-> "unlink", msg |-> m, bundle |-> <<>>]
    BY DEF Open, Buffer
  <2> QED
    BY <2>1 DEF PollStates
<1>8. timer' \in TimerStates
  <2>1. timer' = timer \/ timer' = [timer EXCEPT !.due = @ \ {PeerOf[m]}]
    BY DEF Open, Buffer
  <2> QED
    BY <2>1 DEF TypeOK, FieldsOK, TimerStates
<1>9. TypeOK'
  BY <1>5, <1>6, <1>7, <1>8 DEF TypeOK, FieldsOK, Open, Buffer, Takes, history
<1> QED
  BY <1>3, <1>5, <1>9

\* A flush moves a buffer, and the message in hand, into a bundle.
LEMMA FlushNowType ==
    ASSUME TypeOK, NEW m \in Msgs, FlushNow(m)
    PROVE  /\ TypeOK'
           /\ \A q \in Peers :
                  Range(st[q].buffer) \subseteq Range(st'[q].buffer) \cup Range(poll'.bundle)
           /\ m \in Range(poll'.bundle)
           /\ Range(poll'.bundle) = Range(st[PeerOf[m]].buffer) \cup {m}
           /\ st'[PeerOf[m]].buffer = <<>>
           /\ \A q \in Peers \ {PeerOf[m]} : st'[q].buffer = st[q].buffer
<1> SUFFICES ASSUME NEW p, p = PeerOf[m]
             PROVE  /\ TypeOK'
                    /\ \A q \in Peers : Range(st[q].buffer)
                           \subseteq Range(st'[q].buffer) \cup Range(poll'.bundle)
                    /\ m \in Range(poll'.bundle)
                    /\ Range(poll'.bundle) = Range(st[p].buffer) \cup {m}
                    /\ st'[p].buffer = <<>>
                    /\ \A q \in Peers \ {p} : st'[q].buffer = st[q].buffer
  OBVIOUS
<1>1. p \in Peers
  BY DigestAssumption
<1>2. /\ st' \in [Peers -> DigestStates]
      /\ st'[p].state = "active" /\ st'[p].buffer = <<>>
      /\ \A q \in Peers \ {p} : st'[q].state = st[q].state /\ st'[q].buffer = st[q].buffer
  <2>1. st' = Emptied(p)
    BY DEF FlushNow
  <2> QED
    BY <1>1, <2>1, EmptiedType
<1>3. /\ Append(st[p].buffer, m) \in Seq(Msgs)
      /\ Range(Append(st[p].buffer, m)) = Range(st[p].buffer) \cup {m}
  <2>1. st[p].buffer \in Seq(Msgs)
    BY <1>1 DEF TypeOK, FieldsOK, DigestStates
  <2> QED
    BY <2>1, OneMoreMessage
<1>4. poll' = [at |-> "flush", msg |-> m, bundle |-> Append(st[p].buffer, m)]
  BY DEF FlushNow
<1>5. poll' \in PollStates /\ poll'.msg \in Msgs
  BY <1>3, <1>4 DEF PollStates
<1>6. OpenIffBuffered'
  BY <1>2 DEF TypeOK, OpenIffBuffered
<1>7. TypeOK'
  BY <1>2, <1>5, <1>6 DEF TypeOK, FieldsOK, FlushNow, Takes, history
<1> QED
  BY <1>2, <1>3, <1>4, <1>7

LEMMA TimerFlushesType ==
    ASSUME TypeOK, NEW p \in Peers, TimerFlushes(p)
    PROVE  /\ TypeOK'
           /\ \A q \in Peers :
                  Range(st[q].buffer) \subseteq Range(st'[q].buffer) \cup Range(timer'.bundle)
           /\ timer'.bundle = st[p].buffer /\ st'[p].buffer = <<>>
           /\ \A q \in Peers \ {p} : st'[q].buffer = st[q].buffer
<1>1. /\ st' \in [Peers -> DigestStates]
      /\ st'[p].state = "active" /\ st'[p].buffer = <<>>
      /\ \A q \in Peers \ {p} : st'[q].state = st[q].state /\ st'[q].buffer = st[q].buffer
  <2>1. st' = Emptied(p)
    BY DEF TimerFlushes
  <2> QED
    BY <2>1, EmptiedType
<1>2. st[p].buffer \in Seq(Msgs)
  BY DEF TypeOK, FieldsOK, DigestStates
<1>3. timer' = [timer EXCEPT !.at = "flush", !.due = @ \ {p}, !.bundle = st[p].buffer]
  BY DEF TimerFlushes
<1>4. timer' \in TimerStates /\ timer'.bundle = st[p].buffer
  BY <1>2, <1>3 DEF TypeOK, FieldsOK, TimerStates
<1>5. OpenIffBuffered'
  BY <1>1 DEF TypeOK, OpenIffBuffered
<1>6. TypeOK'
  BY <1>1, <1>4, <1>5 DEF TypeOK, FieldsOK, TimerFlushes, TimerOnly, history
<1> QED
  BY <1>1, <1>4, <1>6

\* The steps of a task that leave the windows alone.
LEMMA PollStepsType ==
    ASSUME TypeOK, PollSavesBundle \/ PollAccepted \/ PollRaised \/ PollClears \/ PollUnlinks
    PROVE  TypeOK'
<1>1. poll \in PollStates /\ poll.at # "idle" /\ poll.msg \in Msgs
  BY DEF TypeOK, FieldsOK, PollSavesBundle, PollAccepted, PollRaised, PollClears,
         PollUnlinks
<1>2. \A s \in {"hand", "clear", "unlink"} : [poll EXCEPT !.at = s] \in PollStates
  BY <1>1 DEF PollStates
<1>3. PollIdle \in PollStates /\ PollIdle.at = "idle"
  BY DEF PollIdle, PollStates
<1>4. Range(poll.bundle) \subseteq Msgs /\ poll.bundle \in Seq(Msgs)
  BY <1>1, RangeOfSeq DEF PollStates
<1>5. [poll EXCEPT !.at = "hand"].msg \in Msgs /\ [poll EXCEPT !.at = "clear"].msg \in Msgs
      /\ [poll EXCEPT !.at = "unlink"].msg \in Msgs
  BY <1>1
<1>6. CASE PollSavesBundle
  <2>1. pend' \in Seq(Seq(Msgs))
    BY <1>4, <1>6, OneMoreMessage DEF TypeOK, FieldsOK, PollSavesBundle
  <2> QED
    BY <1>2, <1>4, <1>5, <1>6, <2>1
       DEF TypeOK, FieldsOK, OpenIffBuffered, PollSavesBundle
<1>7. CASE PollAccepted
  <2>1. delivered' \in [Msgs -> 0..2]
    BY <1>7, CountedType DEF TypeOK, FieldsOK, PollAccepted
  <2> QED
    BY <1>2, <1>5, <1>7, <2>1 DEF TypeOK, FieldsOK, OpenIffBuffered, PollAccepted
<1>8. CASE PollRaised
  BY <1>1, <1>3, <1>8, RaisesType DEF TypeOK, FieldsOK, OpenIffBuffered, PollRaised
<1>9. CASE PollClears
  <2>1. pend' \in Seq(Seq(Msgs))
    BY <1>9, OneEntryLess DEF TypeOK, FieldsOK, PollClears
  <2> QED
    BY <1>2, <1>5, <1>9, <2>1 DEF TypeOK, FieldsOK, OpenIffBuffered, PollClears, history
<1>10. CASE PollUnlinks
  BY <1>1, <1>3, <1>10 DEF TypeOK, FieldsOK, OpenIffBuffered, PollUnlinks, history
<1> QED
  BY <1>6, <1>7, <1>8, <1>9, <1>10

LEMMA TimerStepsType ==
    ASSUME TypeOK,
           \/ TimerWakes \/ TimerRecovers \/ TimerReadsClock \/ TimerSavesBundle
           \/ TimerAccepted \/ TimerRaised \/ TimerClears \/ TimerSleeps
    PROVE  TypeOK'
<1>1. timer \in TimerStates /\ pend \in Seq(Seq(Msgs)) /\ st \in [Peers -> DigestStates]
  BY DEF TypeOK, FieldsOK
<1>2. Range(timer.bundle) \subseteq Msgs /\ timer.bundle \in Seq(Msgs)
  BY <1>1, RangeOfSeq DEF TimerStates
<1>3. TimerIdle \in TimerStates
  BY DEF TimerIdle, TimerStates
<1>4. CASE TimerWakes
  <2>1. timer' \in TimerStates
    BY <1>1, <1>3, <1>4 DEF TimerWakes, TimerStates
  <2> QED
    BY <1>4, <2>1 DEF TypeOK, FieldsOK, OpenIffBuffered, TimerWakes, TimerOnly, history
<1>5. CASE TimerRecovers
  <2>1. Head(timer.rest) \in Seq(Msgs) /\ Tail(timer.rest) \in Seq(Seq(Msgs))
    BY <1>1, <1>5, HeadTailProperties DEF TimerRecovers, TimerStates
  <2>2. timer' \in TimerStates
    BY <1>1, <1>5, <2>1 DEF TimerRecovers, TimerStates
  <2>3. started' \subseteq Msgs
    BY <1>5, <2>1, RangeOfSeq DEF TypeOK, FieldsOK, TimerRecovers
  <2> QED
    BY <1>5, <2>2, <2>3
       DEF TypeOK, FieldsOK, OpenIffBuffered, TimerRecovers, TimerOnly
<1>6. CASE TimerReadsClock
  <2>1. timer' \in TimerStates
    BY <1>1, <1>6 DEF TimerReadsClock, TimerStates
  <2> QED
    BY <1>6, <2>1
       DEF TypeOK, FieldsOK, OpenIffBuffered, TimerReadsClock, TimerOnly, history
<1>7. CASE TimerSavesBundle
  <2>1. timer' \in TimerStates
    BY <1>1, <1>7 DEF TimerSavesBundle, TimerStates
  <2>2. pend' \in Seq(Seq(Msgs)) /\ started' \subseteq Msgs
    BY <1>1, <1>2, <1>7, OneMoreMessage DEF TypeOK, FieldsOK, TimerSavesBundle
  <2> QED
    BY <1>7, <2>1, <2>2
       DEF TypeOK, FieldsOK, OpenIffBuffered, TimerSavesBundle, TimerOnly
<1>8. CASE TimerAccepted
  <2>1. timer' \in TimerStates
    BY <1>1, <1>8 DEF TimerAccepted, TimerStates
  <2>2. delivered' \in [Msgs -> 0..2]
    BY <1>8, CountedType DEF TypeOK, FieldsOK, TimerAccepted
  <2> QED
    BY <1>8, <2>1, <2>2
       DEF TypeOK, FieldsOK, OpenIffBuffered, TimerAccepted, TimerOnly
<1>9. CASE TimerRaised
  BY <1>3, <1>9, RaisesType
     DEF TypeOK, FieldsOK, OpenIffBuffered, TimerRaised, TimerOnly, history
<1>10. CASE TimerClears
  <2>1. timer' \in TimerStates
    BY <1>1, <1>10 DEF TimerClears, TimerStates
  <2>2. pend' \in Seq(Seq(Msgs))
    BY <1>1, <1>10, OneEntryLess DEF TimerClears
  <2> QED
    BY <1>10, <2>1, <2>2
       DEF TypeOK, FieldsOK, OpenIffBuffered, TimerClears, TimerOnly, history
<1>11. CASE TimerSleeps
  BY <1>3, <1>11 DEF TypeOK, FieldsOK, OpenIffBuffered, TimerSleeps, TimerOnly, history
<1> QED
  BY <1>4, <1>5, <1>6, <1>7, <1>8, <1>9, <1>10, <1>11

LEMMA InHandType == TypeOK => InHand \subseteq Msgs
<1> SUFFICES ASSUME TypeOK PROVE InHand \subseteq Msgs
  OBVIOUS
<1>1. Range(poll.bundle) \subseteq Msgs /\ Range(timer.bundle) \subseteq Msgs
  BY RangeOfSeq DEF TypeOK, FieldsOK, PollStates, TimerStates
<1>2. poll.at = "hand" => poll.msg \in Msgs
  BY DEF TypeOK, FieldsOK
<1> QED
  BY <1>1, <1>2 DEF InHand

LEMMA CrashType ==
    ASSUME TypeOK, Crash
    PROVE  /\ TypeOK'
           /\ \A p \in Peers : st'[p].buffer = st[p].buffer
<1>1. ASSUME NEW p \in Peers
      PROVE  /\ st'[p] \in DigestStates
             /\ st'[p].state = st[p].state /\ st'[p].buffer = st[p].buffer
  <2>1. st'[p] = [st[p] EXCEPT !.gap = st[p].savedGap] /\ st[p] \in DigestStates
    BY DEF Crash, TypeOK, FieldsOK
  <2> QED
    BY <2>1 DEF DigestStates
<1>2. st' \in [Peers -> DigestStates]
  BY <1>1 DEF Crash
<1>3. OpenIffBuffered'
  BY <1>1 DEF TypeOK, OpenIffBuffered
<1>4. crashes' \in 0..MaxCrashes
  BY DigestAssumption DEF TypeOK, FieldsOK, Crash
<1>5. PollIdle \in PollStates /\ PollIdle.at = "idle" /\ TimerIdle \in TimerStates
  BY DEF PollIdle, TimerIdle, PollStates, TimerStates
<1>6. lost' \subseteq Msgs /\ file' \in [Msgs -> {"none", "waiting", "stuck", "gone"}]
  BY InHandType DEF TypeOK, FieldsOK, Crash
<1>7. TypeOK'
  BY <1>2, <1>3, <1>4, <1>5, <1>6 DEF TypeOK, FieldsOK, Crash
<1> QED
  BY <1>1, <1>7

LEMMA NextType == TypeOK /\ [Next]_vars => TypeOK'
<1> SUFFICES ASSUME TypeOK, [Next]_vars PROVE TypeOK'
  OBVIOUS
<1>1. CASE UNCHANGED vars
  BY <1>1 DEF TypeOK, FieldsOK, OpenIffBuffered, vars, history
<1>2. CASE PollTask
  BY <1>2, SuppressType, PassType, BuffersType, FlushNowType, PollStepsType DEF PollTask
<1>3. CASE TimerTask
  BY <1>3, TimerFlushesType, TimerStepsType DEF TimerTask
<1>4. CASE PollHandOff \/ TimerHandOff
  BY <1>4, PollStepsType, TimerStepsType DEF PollHandOff, TimerHandOff
<1> QED
  BY <1>1, <1>2, <1>3, <1>4, ArriveType, TickType, CrashType
     DEF Next, PollRuns, TimerRuns

\* The variables keep their types, and a window is open exactly while something
\* is buffered in it.
THEOREM DigestTypeCorrect == Spec => []TypeOK
  BY InitType, NextType, PTL DEF Spec

----------------------------------------------------------------------------
(* The bookkeeping. *)

Accounted(m) == delivered[m] > 0 \/ Stored(m) \/ m \in InHand \/ m \in lost

\* The poll task is done with a message: its file is gone or is about to go, or
\* a repetition of its id would be suppressed.
DoneWith(m) ==
    \/ file[m] = "gone" \/ m \in dedup
    \/ poll.at = "unlink" /\ poll.msg = m

\* The poll task flushes for the sake of the message in its hand.
FlushedForMessage ==
    poll.at \in {"flush", "clear"} \/ (poll.at = "hand" /\ poll.bundle # <<>>)
        => poll.bundle # <<>> /\ poll.msg \in Range(poll.bundle)

\* A bundle is cleared only after the gateway took it.
ClearedWereTaken ==
    /\ poll.at = "clear" => \A m \in Range(poll.bundle) : delivered[m] > 0
    /\ timer.at = "clear" => \A m \in Range(timer.bundle) : delivered[m] > 0

DigestInv ==
    /\ \A m \in Msgs : DoneWith(m) => Accounted(m)
    /\ FlushedForMessage
    /\ ClearedWereTaken

LEMMA InitInv == Init => DigestInv
BY DEF Init, DigestInv, DoneWith, FlushedForMessage, ClearedWereTaken, PollIdle,
       TimerIdle

\* What keeps a message accounted for.
LEMMA StaysAccounted ==
    ASSUME NEW m \in Msgs, Accounted(m),
           delivered[m] > 0 => delivered'[m] > 0,
           m \in lost => m \in lost',
           \A p \in Peers : m \in Range(st[p].buffer) =>
               m \in Range(st'[p].buffer) \/ m \in InHand',
           \A b \in Range(pend) : m \in Range(b) =>
               b \in Range(pend') \/ delivered'[m] > 0,
           m \in InHand =>
               \/ m \in InHand' \/ m \in lost' \/ delivered'[m] > 0
               \/ \E b \in Range(pend') : m \in Range(b)
    PROVE  Accounted(m)'
BY DEF Accounted, Stored

\* A step that takes nothing out of the books.
LEMMA NothingTaken ==
    ASSUME delivered' = delivered, lost' = lost, pend' = pend, InHand \subseteq InHand',
           \A p \in Peers : Range(st[p].buffer) \subseteq Range(st'[p].buffer)
    PROVE  \A m \in Msgs : Accounted(m) => Accounted(m)'
BY StaysAccounted

\* The poll task takes a message from the inbox.
LEMMA TakesInv ==
    ASSUME TypeOK, DigestInv, NEW m \in Msgs,
           Suppress(m) \/ Pass(m) \/ Open(m) \/ Buffer(m) \/ FlushNow(m)
    PROVE  DigestInv'
<1>0. /\ poll.at = "idle" /\ pend' = pend /\ delivered' = delivered /\ lost' = lost
      /\ \A k \in Msgs : DoneWith(k) => Accounted(k)
      /\ timer'.at = timer.at /\ timer'.bundle = timer.bundle
  <2>1. timer' = timer \/ timer' = [timer EXCEPT !.due = @ \ {PeerOf[m]}]
    BY DEF Suppress, Pass, Open, Buffer, FlushNow
  <2>2. timer'.at = timer.at /\ timer'.bundle = timer.bundle
    BY <2>1 DEF TypeOK, FieldsOK, TimerStates
  <2> QED
    BY <2>2 DEF DigestInv, Suppress, Pass, Open, Buffer, FlushNow, Takes, history
<1>1. InHand \subseteq InHand'
  BY <1>0 DEF InHand
<1>2. ClearedWereTaken'
  BY <1>0 DEF DigestInv, ClearedWereTaken, Suppress, Pass, Open, Buffer, FlushNow
<1>3. CASE Suppress(m)
  <2>1. \A k \in Msgs : Accounted(k) => Accounted(k)'
    BY <1>0, <1>1, <1>3, NothingTaken DEF Suppress
  <2>2. \A k \in Msgs : DoneWith(k)' => DoneWith(k)
    BY <1>0, <1>3 DEF DoneWith, Suppress, TypeOK, FieldsOK
  <2>3. FlushedForMessage'
    BY <1>0, <1>3 DEF FlushedForMessage, Suppress
  <2> QED
    BY <1>0, <1>2, <2>1, <2>2, <2>3 DEF DigestInv
<1>4. CASE Pass(m)
  <2>1. \A k \in Msgs : Accounted(k) => Accounted(k)'
    BY <1>0, <1>1, <1>4, PassType, NothingTaken
  <2>2. m \in InHand'
    BY <1>4 DEF Pass, InHand
  <2>3. \A k \in Msgs : DoneWith(k)' => DoneWith(k) \/ k = m
    BY <1>0, <1>4 DEF DoneWith, Pass
  <2>4. FlushedForMessage'
    BY <1>4 DEF FlushedForMessage, Pass
  <2> QED
    BY <1>0, <1>2, <2>1, <2>2, <2>3, <2>4 DEF DigestInv, Accounted
<1>5. CASE Open(m) \/ Buffer(m)
  <2>1. \A k \in Msgs : Accounted(k) => Accounted(k)'
    BY <1>0, <1>1, <1>5, BuffersType, NothingTaken
  <2>2. Accounted(m)'
    <3>1. PeerOf[m] \in Peers
      BY DigestAssumption
    <3> QED
      BY <1>5, <3>1, BuffersType DEF Accounted, Stored
  <2>3. poll' = [at |-> "unlink", msg |-> m, bundle |-> <<>>] /\ UNCHANGED <<file, dedup>>
    BY <1>5 DEF Open, Buffer
  <2>4. \A k \in Msgs : DoneWith(k)' => DoneWith(k) \/ k = m
    BY <2>3 DEF DoneWith
  <2>5. FlushedForMessage'
    BY <2>3 DEF FlushedForMessage
  <2> QED
    BY <1>0, <1>2, <2>1, <2>2, <2>4, <2>5 DEF DigestInv
<1>6. CASE FlushNow(m)
  <2>1. poll'.at = "flush" /\ poll'.msg = m /\ UNCHANGED <<file, dedup>>
    BY <1>6 DEF FlushNow
  <2>2. Range(poll'.bundle) \subseteq InHand'
    BY <2>1 DEF InHand
  <2>3. /\ \A q \in Peers :
               Range(st[q].buffer) \subseteq Range(st'[q].buffer) \cup Range(poll'.bundle)
        /\ m \in Range(poll'.bundle)
    BY <1>6, FlushNowType
  <2>4. \A k \in Msgs : Accounted(k) => Accounted(k)'
    BY <1>0, <1>1, <2>2, <2>3, StaysAccounted
  <2>5. \A k \in Msgs : DoneWith(k)' => DoneWith(k)
    BY <2>1 DEF DoneWith
  <2>6. FlushedForMessage'
    <3>1. poll'.bundle # <<>>
      BY <2>3, NoMessage
    <3> QED
      BY <2>1, <2>3, <3>1 DEF FlushedForMessage
  <2> QED
    BY <1>0, <1>2, <2>4, <2>5, <2>6 DEF DigestInv
<1> QED
  BY <1>3, <1>4, <1>5, <1>6

\* The poll task hands off, clears and unlinks.
LEMMA PollStepsInv ==
    ASSUME TypeOK, DigestInv,
           PollSavesBundle \/ PollAccepted \/ PollRaised \/ PollClears \/ PollUnlinks
    PROVE  DigestInv'
<1>0. /\ \A m \in Msgs : DoneWith(m) => Accounted(m)
      /\ poll.msg \in Msgs /\ timer' = timer /\ st' = st /\ dedup' = dedup
  BY DEF DigestInv, TypeOK, FieldsOK, PollSavesBundle, PollAccepted, PollRaised,
         PollClears, PollUnlinks, history
<1>1. \A m \in Msgs : delivered[m] > 0 => delivered'[m] > 0
  BY CountedType DEF TypeOK, FieldsOK, PollSavesBundle, PollAccepted, PollRaised,
         PollClears, PollUnlinks, history
<1>2. ClearedWereTaken' <=>
          (poll'.at = "clear" => \A m \in Range(poll'.bundle) : delivered'[m] > 0)
  <2>1. Range(timer.bundle) \subseteq Msgs
    BY RangeOfSeq DEF TypeOK, FieldsOK, TimerStates
  <2> QED
    BY <1>0, <1>1, <2>1 DEF DigestInv, ClearedWereTaken
<1>3. poll \in PollStates /\ Range(poll.bundle) \subseteq Msgs
  BY RangeOfSeq DEF TypeOK, FieldsOK, PollStates
<1>4. CASE PollSavesBundle
  <2>1. /\ poll.at = "flush" /\ poll'.at = "hand" /\ poll'.msg = poll.msg
        /\ poll'.bundle = poll.bundle /\ UNCHANGED <<file, delivered, lost>>
    BY <1>3, <1>4 DEF PollSavesBundle, PollStates
  <2>2. Range(pend') = Range(pend) \cup {poll.bundle}
    <3>1. pend \in Seq(Seq(Msgs)) /\ poll.bundle \in Seq(Msgs)
      BY <1>3 DEF TypeOK, FieldsOK, PollStates
    <3> QED
      BY <1>4, <3>1, OneMoreMessage DEF PollSavesBundle
  <2>3. poll.bundle # <<>> /\ poll.msg \in Range(poll.bundle)
    BY <2>1 DEF DigestInv, FlushedForMessage
  <2>4. InHand \subseteq InHand' \cup Range(poll.bundle)
    BY <1>0, <2>1 DEF InHand
  <2>5. \A m \in Msgs : Accounted(m) => Accounted(m)'
    BY <1>0, <1>1, <2>1, <2>2, <2>4, StaysAccounted
  <2>6. \A m \in Msgs : DoneWith(m)' => DoneWith(m)
    BY <1>0, <2>1 DEF DoneWith
  <2> QED
    BY <1>0, <1>2, <2>1, <2>3, <2>5, <2>6 DEF DigestInv, FlushedForMessage
<1>5. CASE PollAccepted
  <2>1. /\ poll.at = "hand" /\ poll'.msg = poll.msg /\ poll'.bundle = poll.bundle
        /\ poll'.at = (IF poll.bundle = <<>> THEN "unlink" ELSE "clear")
        /\ UNCHANGED <<file, pend, lost>>
    BY <1>3, <1>5 DEF PollAccepted, PollStates
  <2>2. \A m \in Msgs : m \in (IF poll.bundle = <<>> THEN {poll.msg} ELSE Range(poll.bundle))
            => delivered'[m] > 0
    BY <1>5, CountedType DEF TypeOK, FieldsOK, PollAccepted
  <2>3. InHand \subseteq InHand' \cup (IF poll.bundle = <<>> THEN {poll.msg} ELSE {})
    BY <1>0, <2>1 DEF InHand
  <2>4. \A m \in Msgs : Accounted(m) => Accounted(m)'
    BY <1>0, <1>1, <2>1, <2>2, <2>3, StaysAccounted
  <2>5. \A m \in Msgs : DoneWith(m)' =>
            DoneWith(m) \/ (m = poll.msg /\ poll.bundle = <<>>)
    BY <1>0, <2>1 DEF DoneWith
  <2>6. \A m \in Msgs : DoneWith(m)' => Accounted(m)'
    BY <1>0, <2>2, <2>4, <2>5 DEF Accounted
  <2>7. FlushedForMessage'
    BY <2>1 DEF DigestInv, FlushedForMessage
  <2>8. ClearedWereTaken'
    BY <1>2, <1>3, <2>1, <2>2
  <2> QED
    BY <2>6, <2>7, <2>8 DEF DigestInv
<1>6. CASE PollRaised
  <2>1. /\ poll.at = "hand" /\ poll' = PollIdle /\ poll'.at = "idle"
        /\ file' = [file EXCEPT ![poll.msg] = "stuck"]
        /\ lost \subseteq lost' /\ (poll.bundle = <<>> => poll.msg \in lost')
        /\ UNCHANGED <<pend, delivered>>
    BY <1>6 DEF PollRaised, PollIdle
  <2>2. InHand \subseteq InHand' \cup lost'
    BY <1>0, <2>1 DEF InHand
  <2>3. \A m \in Msgs : Accounted(m) => Accounted(m)'
    BY <1>0, <2>1, <2>2, StaysAccounted
  <2>4. \A m \in Msgs : DoneWith(m)' => DoneWith(m)
    BY <1>0, <2>1 DEF DoneWith, TypeOK, FieldsOK
  <2> QED
    BY <1>0, <1>2, <2>1, <2>3, <2>4 DEF DigestInv, FlushedForMessage
<1>7. CASE PollClears
  <2>1. /\ poll.at = "clear" /\ poll'.msg = poll.msg /\ poll'.bundle = poll.bundle
        /\ poll'.at = "unlink" /\ pend' = WithoutNewest(poll.bundle)
        /\ UNCHANGED <<file, delivered, lost>>
    BY <1>3, <1>7 DEF PollClears, PollStates, history
  <2>2. \A b \in Range(pend) : b \in Range(pend') \/ b = poll.bundle
    BY <2>1, OneEntryLess DEF TypeOK, FieldsOK
  <2>3. /\ \A m \in Range(poll.bundle) : delivered'[m] > 0
        /\ poll.msg \in Range(poll.bundle)
    BY <2>1 DEF DigestInv, FlushedForMessage, ClearedWereTaken
  <2>4. InHand \subseteq InHand'
    BY <1>0, <2>1 DEF InHand
  <2>5. \A m \in Msgs : Accounted(m) => Accounted(m)'
    BY <1>0, <2>1, <2>2, <2>3, <2>4, StaysAccounted
  <2>6. \A m \in Msgs : DoneWith(m)' => DoneWith(m) \/ m = poll.msg
    BY <1>0, <2>1 DEF DoneWith
  <2>7. \A m \in Msgs : DoneWith(m)' => Accounted(m)'
    BY <1>0, <2>3, <2>5, <2>6 DEF Accounted
  <2> QED
    BY <1>2, <2>1, <2>7 DEF DigestInv, FlushedForMessage
<1>8. CASE PollUnlinks
  <2>1. /\ poll.at = "unlink" /\ poll' = PollIdle /\ poll'.at = "idle"
        /\ file' = [file EXCEPT ![poll.msg] = "gone"]
        /\ UNCHANGED <<pend, delivered, lost>>
    BY <1>8 DEF PollUnlinks, PollIdle, history
  <2>2. InHand \subseteq InHand'
    BY <1>0, <2>1 DEF InHand
  <2>3. \A m \in Msgs : Accounted(m) => Accounted(m)'
    BY <1>0, <2>1, <2>2, NothingTaken
  <2>4. \A m \in Msgs : DoneWith(m)' => DoneWith(m)
    BY <1>0, <2>1 DEF DoneWith, TypeOK, FieldsOK
  <2> QED
    BY <1>0, <1>2, <2>1, <2>3, <2>4 DEF DigestInv, FlushedForMessage
<1> QED
  BY <1>4, <1>5, <1>6, <1>7, <1>8

\* The steps of the timer, which has no file in hand.
LEMMA TimerStepsInv ==
    ASSUME TypeOK, DigestInv,
           \/ TimerWakes \/ TimerRecovers \/ TimerReadsClock \/ TimerSavesBundle
           \/ TimerAccepted \/ TimerRaised \/ TimerClears \/ TimerSleeps
           \/ \E p \in Peers : TimerFlushes(p)
    PROVE  DigestInv'
<1>0. /\ \A m \in Msgs : DoneWith(m) => Accounted(m)
      /\ poll' = poll /\ file' = file /\ dedup' = dedup /\ lost' = lost
  BY DEF DigestInv, TimerOnly, TimerWakes, TimerRecovers, TimerReadsClock,
         TimerSavesBundle, TimerAccepted, TimerRaised, TimerClears, TimerSleeps,
         TimerFlushes, history
<1>1. \A m \in Msgs : delivered[m] > 0 => delivered'[m] > 0
  BY CountedType
     DEF TypeOK, FieldsOK, TimerWakes, TimerRecovers, TimerReadsClock,
         TimerSavesBundle, TimerAccepted, TimerRaised, TimerClears, TimerSleeps,
         TimerFlushes, history
<1>2. \A m \in Msgs : DoneWith(m)' => DoneWith(m)
  BY <1>0 DEF DoneWith
<1>3. FlushedForMessage'
  BY <1>0 DEF DigestInv, FlushedForMessage
<1>4. ClearedWereTaken' <=>
          (timer'.at = "clear" => \A m \in Range(timer'.bundle) : delivered'[m] > 0)
  <2>1. Range(poll.bundle) \subseteq Msgs
    BY RangeOfSeq DEF TypeOK, FieldsOK, PollStates
  <2> QED
    BY <1>0, <1>1, <2>1 DEF DigestInv, ClearedWereTaken
<1>5. timer \in TimerStates /\ Range(timer.bundle) \subseteq Msgs
  BY RangeOfSeq DEF TypeOK, FieldsOK, TimerStates
<1>6. SUFFICES /\ \A m \in Msgs : Accounted(m) => Accounted(m)'
               /\ ClearedWereTaken'
  BY <1>0, <1>2, <1>3 DEF DigestInv
<1>7. CASE TimerWakes \/ TimerRecovers \/ TimerReadsClock \/ TimerRaised \/ TimerSleeps
  <2>1. /\ timer.at # "flush" /\ timer'.at # "clear"
        /\ UNCHANGED <<st, pend, delivered>>
    <3>1. CASE TimerWakes
      <4>1. timer'.at = "recover"
        BY <3>1 DEF TimerWakes, TimerIdle
      <4> QED
        BY <3>1, <4>1 DEF TimerWakes, history
    <3>2. CASE TimerRecovers
      BY <1>5, <3>2 DEF TimerRecovers, TimerStates
    <3>3. CASE TimerReadsClock
      BY <1>5, <3>3 DEF TimerReadsClock, TimerStates, history
    <3>4. CASE TimerRaised \/ TimerSleeps
      BY <3>4 DEF TimerRaised, TimerSleeps, TimerIdle, history
    <3> QED
      BY <1>7, <3>1, <3>2, <3>3, <3>4
  <2>2. InHand \subseteq InHand'
    BY <1>0, <2>1 DEF InHand
  <2> QED
    BY <1>0, <1>4, <2>1, <2>2, NothingTaken
<1>8. CASE TimerSavesBundle
  <2>1. timer'.at = "hand" /\ UNCHANGED <<st, delivered>>
    BY <1>5, <1>8 DEF TimerSavesBundle, TimerStates
  <2>2. Range(pend') = Range(pend) \cup {timer.bundle}
    BY <1>5, <1>8, OneMoreMessage DEF TypeOK, FieldsOK, TimerSavesBundle, TimerStates
  <2>3. InHand \subseteq InHand' \cup Range(timer.bundle)
    BY <1>0 DEF InHand
  <2> QED
    BY <1>0, <1>4, <2>1, <2>2, <2>3, StaysAccounted
<1>9. CASE TimerAccepted
  <2>1. /\ timer.at = "hand" /\ timer'.bundle = timer.bundle
        /\ UNCHANGED <<st, pend>>
    BY <1>5, <1>9 DEF TimerAccepted, TimerStates
  <2>2. \A m \in Range(timer.bundle) : delivered'[m] > 0
    BY <1>5, <1>9, CountedType DEF TypeOK, FieldsOK, TimerAccepted
  <2>3. InHand \subseteq InHand'
    BY <1>0, <2>1 DEF InHand
  <2> QED
    BY <1>0, <1>1, <1>4, <2>1, <2>2, <2>3, StaysAccounted
<1>10. CASE TimerClears
  <2>1. /\ timer.at = "clear" /\ timer'.at # "clear"
        /\ pend' = WithoutNewest(timer.bundle) /\ UNCHANGED <<st, delivered>>
    BY <1>5, <1>10 DEF TimerClears, TimerStates, history
  <2>2. \A b \in Range(pend) : b \in Range(pend') \/ b = timer.bundle
    BY <2>1, OneEntryLess DEF TypeOK, FieldsOK
  <2>3. \A m \in Range(timer.bundle) : delivered'[m] > 0
    BY <2>1 DEF DigestInv, ClearedWereTaken
  <2>4. InHand \subseteq InHand'
    BY <1>0, <2>1 DEF InHand
  <2> QED
    BY <1>0, <1>4, <2>1, <2>2, <2>3, <2>4, StaysAccounted
<1>11. CASE \E p \in Peers : TimerFlushes(p)
  <2>1. PICK p \in Peers : TimerFlushes(p)
    BY <1>11
  <2>2. /\ timer.at = "windows" /\ timer'.at = "flush"
        /\ UNCHANGED <<pend, delivered>>
    BY <1>5, <2>1 DEF TimerFlushes, TimerStates, history
  <2>3. Range(timer'.bundle) \subseteq InHand' /\ InHand \subseteq InHand'
    BY <1>0, <2>2 DEF InHand
  <2>4. \A q \in Peers : Range(st[q].buffer) \subseteq Range(st'[q].buffer) \cup InHand'
    BY <2>1, <2>3, TimerFlushesType
  <2> QED
    BY <1>0, <1>4, <2>2, <2>3, <2>4, StaysAccounted
<1> QED
  BY <1>7, <1>8, <1>9, <1>10, <1>11

\* A stop takes what is in hand with it; what nobody is done with is found again.
LEMMA CrashInv == ASSUME TypeOK, DigestInv, Crash PROVE DigestInv'
<1>1. /\ poll'.at = "idle" /\ timer'.at = "idle"
      /\ lost \subseteq lost' /\ UNCHANGED <<dedup, pend, delivered>>
      /\ \A m \in InHand : m \in dedup \/ file[m] = "gone" => m \in lost'
      /\ \A m \in Msgs : file'[m] = "gone" => file[m] = "gone"
  BY DEF Crash, PollIdle, TimerIdle
<1>2. \A m \in Msgs : DoneWith(m)' => m \in dedup \/ file[m] = "gone"
  BY <1>1 DEF DoneWith
<1>3. ASSUME NEW m \in Msgs, DoneWith(m)'
      PROVE  Accounted(m)'
  <2>1. Accounted(m) /\ (m \in InHand => m \in lost')
    BY <1>1, <1>2, <1>3 DEF DigestInv, DoneWith
  <2>2. \A p \in Peers : st'[p].buffer = st[p].buffer
    BY CrashType
  <2> QED
    BY <1>1, <2>1, <2>2, StaysAccounted
<1>4. FlushedForMessage' /\ ClearedWereTaken'
  BY <1>1 DEF FlushedForMessage, ClearedWereTaken
<1> QED
  BY <1>3, <1>4 DEF DigestInv

LEMMA OthersInv ==
    ASSUME TypeOK, DigestInv,
           Tick \/ (\E m \in Msgs : Arrive(m)) \/ UNCHANGED vars
    PROVE  DigestInv'
<1>1. /\ UNCHANGED <<dedup, pend, poll, timer, delivered, lost>>
      /\ \A m \in Msgs : file'[m] = "gone" => file[m] = "gone"
      /\ \A p \in Peers : st'[p].buffer = st[p].buffer
  <2>1. CASE Tick
    BY <2>1, TickType DEF Tick, history
  <2>2. CASE \E m \in Msgs : Arrive(m)
    BY <2>2 DEF Arrive, history, TypeOK, FieldsOK
  <2>3. CASE UNCHANGED vars
    BY <2>3 DEF vars
  <2> QED
    BY <2>1, <2>2, <2>3
<1>2. InHand' = InHand
  BY <1>1 DEF InHand
<1>3. \A m \in Msgs : Accounted(m) => Accounted(m)'
  BY <1>1, <1>2, NothingTaken
<1>4. \A m \in Msgs : DoneWith(m)' => DoneWith(m)
  BY <1>1 DEF DoneWith
<1> QED
  BY <1>1, <1>3, <1>4 DEF DigestInv, FlushedForMessage, ClearedWereTaken

LEMMA NextInv == TypeOK /\ DigestInv /\ [Next]_vars => DigestInv'
<1> SUFFICES ASSUME TypeOK, DigestInv, [Next]_vars PROVE DigestInv'
  OBVIOUS
<1>1. CASE PollTask
  BY <1>1, TakesInv, PollStepsInv DEF PollTask
<1>2. CASE TimerTask
  BY <1>2, TimerStepsInv DEF TimerTask
<1>3. CASE PollHandOff \/ TimerHandOff
  BY <1>3, PollStepsInv, TimerStepsInv DEF PollHandOff, TimerHandOff
<1> QED
  BY <1>1, <1>2, <1>3, CrashInv, OthersInv DEF Next, PollRuns, TimerRuns

\* A message whose file is gone has reached the gateway, is stored, is in the
\* bundle in hand, or went with a stop or a failing hand-off.
THEOREM DigestAccounts == Spec => []NothingUnaccounted
<1>1. DigestInv => NothingUnaccounted
  BY DEF DigestInv, DoneWith, Accounted, NothingUnaccounted
<1> QED
  BY <1>1, InitType, NextType, InitInv, NextInv, PTL DEF Spec

----------------------------------------------------------------------------
(* The order of the first hand-offs. *)

\* The poll task took the message from the inbox.
Taken(m) == file[m] = "gone" \/ (poll.at # "idle" /\ poll.msg = m)

\* The bundle a task has in hand between the two saves of _a2a_flush.
Flushing ==
    (IF poll.at = "flush" THEN Range(poll.bundle) ELSE {})
    \cup (IF timer.at = "flush" THEN Range(timer.bundle) ELSE {})

\* Messages are taken in the order of their arrival ...
TakenInOrder ==
    /\ dedup \subseteq started
    /\ \A m \in Msgs : file[m] # "stuck"
    /\ \A m \in Msgs : file[m] # "none" => \A k \in 1..(m - 1) : file[k] # "none"
    /\ \A m \in Msgs : Taken(m) => \A k \in 1..(m - 1) : Taken(k)

\* ... and a taken message is handed off, in its peer's window or being flushed.
TakenIsSomewhere ==
    \A m \in Msgs :
        Taken(m) => \/ m \in started \cup Flushing
                    \/ m \in Range(st[PeerOf[m]].buffer)

\* Windows and bundles are one peer's and hold what was taken; while a bundle is
\* being flushed its peer's window is empty, and the other task waits.
OnePeersMessages ==
    /\ PollWaits \/ TimerWaits
    /\ \A p \in Peers : \A m \in Range(st[p].buffer) : Taken(m) /\ PeerOf[m] = p
    /\ \A m \in Flushing : Taken(m) /\ st[PeerOf[m]].buffer = <<>>
    /\ \A m, k \in Flushing : PeerOf[m] = PeerOf[k]
    /\ \A b \in Range(pend) \cup Range(timer.rest) : Range(b) \subseteq started

Orderly ==
    /\ TakenInOrder /\ TakenIsSomewhere /\ OnePeersMessages
    /\ \A m \in started : \A k \in 1..(m - 1) : PeerOf[k] = PeerOf[m] => k \in started

InTurn == crashes = 0 /\ raises = 0 => Orderly

LEMMA Earlier == \A m \in Msgs : 1..(m - 1) \subseteq Msgs
BY DigestAssumption DEF Msgs

LEMMA InitTurn == Init => InTurn
<1> SUFFICES ASSUME Init PROVE Orderly
  BY DEF InTurn
<1>1. /\ poll.at = "idle" /\ timer.at = "idle" /\ pend = <<>> /\ timer.rest = <<>>
      /\ started = {} /\ dedup = {} /\ \A m \in Msgs : file[m] = "none"
      /\ \A p \in Peers : st[p].buffer = <<>>
  BY DEF Init, PollIdle, TimerIdle, Fresh
<1>2. Flushing = {} /\ \A m \in Msgs : ~Taken(m)
  BY <1>1 DEF Flushing, Taken
<1> QED
  BY <1>1, <1>2, NoMessage
  DEF Orderly, TakenInOrder, TakenIsSomewhere, OnePeersMessages, PollWaits

\* Steps that take no message from the inbox and move none.
LEMMA MovesNothing ==
    ASSUME TypeOK, Orderly, UNCHANGED <<started, dedup>>,
           \A m \in Msgs : Taken(m)' <=> Taken(m),
           \A m \in Msgs : file'[m] # "stuck",
           \A m \in Msgs : file'[m] # "none" => \A k \in 1..(m - 1) : file'[k] # "none",
           \A p \in Peers : st'[p].buffer = st[p].buffer,
           Flushing' = Flushing, (PollWaits \/ TimerWaits)',
           Range(pend') \cup Range(timer'.rest) \subseteq Range(pend) \cup Range(timer.rest)
    PROVE  Orderly'
<1>1. \A m \in Msgs : PeerOf[m] \in Peers
  BY DigestAssumption
<1>2. \A p \in Peers : Range(st[p].buffer) \subseteq Msgs
  BY RangeOfSeq DEF TypeOK, FieldsOK, DigestStates
<1>3. Flushing \subseteq Msgs
  BY RangeOfSeq DEF TypeOK, FieldsOK, PollStates, TimerStates, Flushing
<1>4. TakenInOrder'
  BY Earlier DEF Orderly, TakenInOrder
<1>5. TakenIsSomewhere'
  BY <1>1 DEF Orderly, TakenIsSomewhere
<1>6. OnePeersMessages'
  BY <1>1, <1>2, <1>3 DEF Orderly, OnePeersMessages
<1> QED
  BY <1>4, <1>5, <1>6 DEF Orderly

LEMMA OthersTurn ==
    ASSUME TypeOK, Orderly, Tick \/ (\E m \in Msgs : Arrive(m)) \/ UNCHANGED vars
    PROVE  Orderly'
<1>1. /\ UNCHANGED <<started, dedup, pend, poll, timer>>
      /\ \A p \in Peers : st'[p].buffer = st[p].buffer
  BY TickType DEF Tick, Arrive, vars, history
<1>2. /\ \A m \in Msgs : file'[m] = "gone" <=> file[m] = "gone"
      /\ \A m \in Msgs : file'[m] # "stuck"
      /\ \A m \in Msgs : file'[m] # "none" => \A k \in 1..(m - 1) : file'[k] # "none"
  <2>1. CASE file' = file
    BY <2>1 DEF Orderly, TakenInOrder
  <2>2. CASE \E m \in Msgs : Arrive(m)
    BY <2>2, Earlier DEF Arrive, Orderly, TakenInOrder, TypeOK, FieldsOK
  <2> QED
    BY <2>1, <2>2 DEF Tick, vars
<1>3. Flushing' = Flushing /\ (PollWaits \/ TimerWaits)'
  BY <1>1 DEF Flushing, PollWaits, TimerWaits, Orderly, OnePeersMessages
<1>4. \A m \in Msgs : Taken(m)' <=> Taken(m)
  BY <1>1, <1>2 DEF Taken
<1> QED
  BY <1>1, <1>2, <1>3, <1>4, MovesNothing

\* The oldest message of the inbox is taken.
LEMMA TakesOne ==
    ASSUME TypeOK, TakenInOrder, NEW m \in Msgs, Takes(m),
           \A k \in Msgs : Taken(k)' <=> Taken(k) \/ k = m,
           \A k \in Msgs \ {m} : file'[k] = file[k],
           file'[m] \in {"waiting", "gone"}, dedup' \subseteq started'
    PROVE  TakenInOrder'
<1>1. poll.at = "idle" /\ file[m] = "waiting"
  BY DEF Takes
<1>2. \A k \in 1..(m - 1) : Taken(k)
  BY <1>1, Earlier DEF Takes, Taken, TakenInOrder, TypeOK, FieldsOK
<1>3. ASSUME NEW k \in Msgs, Taken(k)', NEW l \in 1..(k - 1)
      PROVE  Taken(l)'
  <2>1. l \in Msgs
    BY Earlier
  <2>2. CASE k = m
    BY <1>2, <2>1, <2>2
  <2>3. CASE k # m
    BY <1>3, <2>1, <2>3 DEF TakenInOrder
  <2> QED
    BY <2>2, <2>3
<1>4. \A k \in Msgs : file'[k] = "none" <=> file[k] = "none"
  BY <1>1
<1>5. \A k \in Msgs : file'[k] # "stuck"
  BY DEF TakenInOrder
<1> QED
  BY <1>3, <1>4, <1>5, Earlier DEF TakenInOrder

LEMMA TakesTurn ==
    ASSUME TypeOK, Orderly, TimerWaits, NEW m \in Msgs,
           Suppress(m) \/ Pass(m) \/ Open(m) \/ Buffer(m) \/ FlushNow(m)
    PROVE  Orderly'
<1>0. /\ Takes(m) /\ poll.at = "idle" /\ file[m] = "waiting" /\ ~Taken(m)
      /\ timer'.at = timer.at /\ timer'.rest = timer.rest /\ pend' = pend
      /\ timer.at # "flush" /\ Flushing = {} /\ TimerWaits'
      /\ \A k \in Msgs : Taken(k) <=> file[k] = "gone"
  BY DEF Suppress, Pass, Open, Buffer, FlushNow, Takes, Taken, TimerWaits, Flushing,
         TypeOK, FieldsOK, TimerStates
<1>1. /\ \A k \in Msgs : PeerOf[k] \in Peers
      /\ \A p \in Peers : Range(st[p].buffer) \subseteq Msgs
      /\ dedup \subseteq started /\ started \subseteq Msgs
      /\ \A k \in 1..(m - 1) : k \in Msgs /\ Taken(k)
  BY <1>0, Earlier, RangeOfSeq, DigestAssumption
  DEF TypeOK, FieldsOK, DigestStates, Orderly, TakenInOrder, Takes
\* The part of the windows and bundles, once the message is taken.
<1>2. ASSUME \A k \in Msgs : Taken(k)' <=> Taken(k) \/ k = m,
             started \subseteq started', Flushing' = {},
             \A q \in Peers : Range(st[q].buffer) \subseteq Range(st'[q].buffer),
             \A q \in Peers : Range(st'[q].buffer)
                 \subseteq Range(st[q].buffer) \cup (IF q = PeerOf[m] THEN {m} ELSE {}),
             m \in started' \/ m \in Range(st'[PeerOf[m]].buffer)
      PROVE  TakenIsSomewhere' /\ OnePeersMessages'
  <2>1. TakenIsSomewhere'
    BY <1>0, <1>1, <1>2 DEF Orderly, TakenIsSomewhere
  <2>2. ASSUME NEW q \in Peers, NEW k \in Range(st'[q].buffer)
        PROVE  Taken(k)' /\ PeerOf[k] = q
    BY <1>1, <1>2, <2>2 DEF Orderly, OnePeersMessages
  <2>3. \A b \in Range(pend') \cup Range(timer'.rest) : Range(b) \subseteq started'
    BY <1>0, <1>2 DEF Orderly, OnePeersMessages
  <2> QED
    BY <1>0, <1>2, <2>1, <2>2, <2>3 DEF OnePeersMessages
<1>3. CASE Suppress(m)
  <2>1. /\ \A k \in Msgs : file'[k] = IF k = m THEN "gone" ELSE file[k]
        /\ UNCHANGED <<dedup, st, poll, timer, started>> /\ m \in started
    BY <1>1, <1>3 DEF Suppress, history, TypeOK, FieldsOK
  <2>2. /\ \A k \in Msgs : Taken(k)' <=> Taken(k) \/ k = m
        /\ Flushing' = {}
    BY <1>0, <2>1 DEF Taken, Flushing
  <2>3. TakenInOrder'
    BY <1>0, <1>1, <2>1, <2>2, TakesOne DEF Orderly
  <2>4. TakenIsSomewhere' /\ OnePeersMessages'
    BY <1>2, <2>1, <2>2
  <2> QED
    BY <2>1, <2>3, <2>4 DEF Orderly
<1>4. CASE Pass(m)
  <2>1. /\ UNCHANGED <<file, timer>> /\ dedup' = dedup \cup {m}
        /\ started' = started \cup {m}
        /\ poll'.at = "hand" /\ poll'.msg = m
        /\ st[PeerOf[m]].buffer = <<>>
        /\ \A q \in Peers : st'[q].buffer = st[q].buffer
    BY <1>1, <1>4, PassType DEF Pass, TypeOK, OpenIffBuffered
  <2>2. /\ \A k \in Msgs : Taken(k)' <=> Taken(k) \/ k = m
        /\ Flushing' = {}
    BY <1>0, <2>1 DEF Taken, Flushing
  <2>3. TakenInOrder'
    BY <1>0, <1>1, <2>1, <2>2, TakesOne DEF Orderly
  <2>4. TakenIsSomewhere' /\ OnePeersMessages'
    BY <1>2, <2>1, <2>2
  <2>5. ASSUME NEW k \in 1..(m - 1), PeerOf[k] = PeerOf[m]
        PROVE  k \in started
    BY <1>0, <1>1, <2>1, <2>5, NoMessage DEF Orderly, TakenIsSomewhere
  <2> QED
    BY <2>1, <2>3, <2>4, <2>5 DEF Orderly
<1>5. CASE Open(m) \/ Buffer(m)
  <2>1. /\ UNCHANGED <<file, dedup, started>>
        /\ poll'.at = "unlink" /\ poll'.msg = m
    BY <1>5 DEF Open, Buffer, history
  <2>2. /\ \A k \in Msgs : Taken(k)' <=> Taken(k) \/ k = m
        /\ Flushing' = {}
    BY <1>0, <2>1 DEF Taken, Flushing
  <2>3. TakenInOrder'
    BY <1>0, <1>1, <2>1, <2>2, TakesOne DEF Orderly
  <2>4. TakenIsSomewhere' /\ OnePeersMessages'
    BY <1>2, <1>5, <2>1, <2>2, BuffersType
  <2> QED
    BY <2>1, <2>3, <2>4 DEF Orderly
<1>6. CASE FlushNow(m)
  <2>1. /\ UNCHANGED <<file, dedup, started>>
        /\ poll'.at = "flush" /\ poll'.msg = m
    BY <1>6 DEF FlushNow, history
  <2>2. /\ \A k \in Msgs : Taken(k)' <=> Taken(k) \/ k = m
        /\ Flushing' = Range(st[PeerOf[m]].buffer) \cup {m}
        /\ st'[PeerOf[m]].buffer = <<>>
        /\ \A q \in Peers \ {PeerOf[m]} : st'[q].buffer = st[q].buffer
    BY <1>0, <1>6, <2>1, FlushNowType DEF Taken, Flushing
  <2>3. TakenInOrder'
    BY <1>0, <1>1, <2>1, <2>2, TakesOne DEF Orderly
  <2>4. TakenIsSomewhere'
    BY <1>0, <1>1, <2>1, <2>2 DEF Orderly, TakenIsSomewhere
  <2>5. \A k \in Flushing' : k \in Msgs /\ Taken(k)' /\ PeerOf[k] = PeerOf[m]
    BY <1>1, <2>2 DEF Orderly, OnePeersMessages
  <2>6. \A q \in Peers : \A k \in Range(st'[q].buffer) : Taken(k)' /\ PeerOf[k] = q
    BY <1>1, <2>2, NoMessage DEF Orderly, OnePeersMessages
  <2>7. OnePeersMessages'
    BY <1>0, <2>1, <2>2, <2>5, <2>6 DEF Orderly, OnePeersMessages
  <2> QED
    BY <2>1, <2>3, <2>4, <2>7 DEF Orderly
<1> QED
  BY <1>3, <1>4, <1>5, <1>6

\* A saved bundle: whatever of its peer came before is handed off or in it.
LEMMA SavesTurn ==
    ASSUME TypeOK, Orderly, NEW b, UNCHANGED <<dedup, st, file>>,
           Flushing = Range(b), Flushing' = {}, started' = started \cup Range(b),
           \A m \in Msgs : Taken(m)' <=> Taken(m),
           (PollWaits \/ TimerWaits)',
           Range(pend') \cup Range(timer'.rest)
               \subseteq Range(pend) \cup {b} \cup Range(timer.rest)
    PROVE  Orderly'
<1>1. Flushing \subseteq Msgs /\ \A p \in Peers : Range(st[p].buffer) \subseteq Msgs
  BY RangeOfSeq
  DEF TypeOK, FieldsOK, PollStates, TimerStates, DigestStates, Flushing
<1>2. TakenInOrder'
  BY Earlier DEF Orderly, TakenInOrder
<1>3. TakenIsSomewhere'
  BY DEF Orderly, TakenIsSomewhere
<1>4. OnePeersMessages'
  BY <1>1 DEF Orderly, OnePeersMessages
<1>5. ASSUME NEW m \in Flushing, NEW k \in 1..(m - 1), PeerOf[k] = PeerOf[m]
      PROVE  k \in started'
  <2>1. m \in Msgs /\ Taken(m) /\ st[PeerOf[m]].buffer = <<>>
    BY <1>1, <1>5 DEF Orderly, OnePeersMessages
  <2>2. k \in Msgs /\ Taken(k)
    BY <2>1, Earlier DEF Orderly, TakenInOrder
  <2> QED
    BY <1>5, <2>1, <2>2, NoMessage DEF Orderly, TakenIsSomewhere
<1> QED
  BY <1>2, <1>3, <1>4, <1>5 DEF Orderly

LEMMA PollStepsTurn ==
    ASSUME TypeOK, Orderly, TimerWaits,
           PollSavesBundle \/ PollAccepted \/ PollClears \/ PollUnlinks
    PROVE  Orderly'
<1>0. /\ poll \in PollStates /\ poll.at # "idle" /\ poll.msg \in Msgs
      /\ timer' = timer /\ TimerWaits' /\ timer.at # "flush"
      /\ UNCHANGED <<dedup, st>>
      /\ Range(timer.rest) \cup Range(pend) = Range(pend) \cup Range(timer.rest)
      /\ \A m \in Msgs : file[m] # "stuck"
  BY DEF TypeOK, FieldsOK, PollSavesBundle, PollAccepted, PollClears, PollUnlinks,
         TimerWaits, history, Orderly, TakenInOrder
<1>1. CASE PollSavesBundle
  <2>1. /\ poll.at = "flush" /\ poll'.at = "hand" /\ poll'.msg = poll.msg
        /\ file' = file /\ started' = started \cup Range(poll.bundle)
    BY <1>0, <1>1 DEF PollSavesBundle, PollStates
  <2>2. Range(pend') = Range(pend) \cup {poll.bundle}
    <3>1. pend \in Seq(Seq(Msgs)) /\ poll.bundle \in Seq(Msgs)
      BY <1>0 DEF TypeOK, FieldsOK, PollStates
    <3> QED
      BY <1>1, <3>1, OneMoreMessage DEF PollSavesBundle
  <2>3. /\ \A m \in Msgs : Taken(m)' <=> Taken(m)
        /\ Flushing = Range(poll.bundle) /\ Flushing' = {}
    BY <1>0, <2>1 DEF Taken, Flushing
  <2> QED
    BY <1>0, <2>1, <2>2, <2>3, SavesTurn
<1>2. CASE PollAccepted \/ PollClears
  <2>1. /\ poll.at # "flush" /\ poll'.at \notin {"flush", "idle"} /\ poll'.msg = poll.msg
        /\ UNCHANGED <<file, started>> /\ Range(pend') \subseteq Range(pend)
    BY <1>0, <1>2, OneEntryLess
    DEF PollAccepted, PollClears, PollStates, history, TypeOK, FieldsOK
  <2>2. /\ \A m \in Msgs : Taken(m)' <=> Taken(m)
        /\ Flushing' = Flushing
    BY <1>0, <2>1 DEF Taken, Flushing
  <2> QED
    BY <1>0, <2>1, <2>2, MovesNothing DEF Orderly, TakenInOrder
<1>3. CASE PollUnlinks
  <2>1. /\ poll.at = "unlink" /\ poll'.at = "idle" /\ UNCHANGED <<started, pend>>
        /\ \A m \in Msgs : file'[m] = IF m = poll.msg THEN "gone" ELSE file[m]
    BY <1>0, <1>3 DEF PollUnlinks, PollIdle, history, TypeOK, FieldsOK
  <2>2. /\ \A m \in Msgs : Taken(m)' <=> Taken(m)
        /\ Flushing' = Flushing
    BY <1>0, <2>1 DEF Taken, Flushing
  <2>3. ASSUME NEW m \in Msgs, file'[m] # "none", NEW k \in 1..(m - 1)
        PROVE  file'[k] # "none"
    <3>1. k \in Msgs
      BY Earlier
    <3>2. CASE file[m] # "none"
      BY <2>1, <3>1, <3>2 DEF Orderly, TakenInOrder
    <3>3. CASE file[m] = "none"
      <4>1. m = poll.msg /\ Taken(m)
        BY <1>0, <2>1, <2>3, <3>3 DEF Taken
      <4>2. Taken(k)'
        BY <2>2, <3>1, <4>1 DEF Orderly, TakenInOrder
      <4> QED
        BY <2>1, <4>2 DEF Taken
    <3> QED
      BY <3>2, <3>3
  <2> QED
    BY <1>0, <2>1, <2>2, <2>3, MovesNothing
<1> QED
  BY <1>1, <1>2, <1>3

LEMMA TimerStepsTurn ==
    ASSUME TypeOK, Orderly, PollWaits,
           \/ TimerWakes \/ TimerRecovers \/ TimerReadsClock \/ TimerSavesBundle
           \/ TimerAccepted \/ TimerClears \/ TimerSleeps
           \/ \E p \in Peers : TimerFlushes(p)
    PROVE  Orderly'
<1>0. /\ UNCHANGED <<file, dedup, poll>> /\ PollWaits' /\ poll.at # "flush"
      /\ \A m \in Msgs : file[m] # "stuck"
      /\ \A m \in Msgs : Taken(m)' <=> Taken(m)
      /\ timer \in TimerStates
      /\ \A m \in Msgs : file[m] # "none" => \A k \in 1..(m - 1) : file[k] # "none"
  BY DEF TypeOK, FieldsOK, TimerWakes, TimerRecovers, TimerReadsClock, TimerSavesBundle,
         TimerAccepted, TimerClears, TimerSleeps, TimerFlushes, TimerOnly, PollWaits,
         Taken, Orderly, TakenInOrder
<1>1. CASE TimerWakes \/ TimerReadsClock \/ TimerAccepted \/ TimerClears \/ TimerSleeps
  <2>1. /\ timer.at # "flush" /\ timer'.at # "flush" /\ UNCHANGED <<started, st>>
        /\ Range(pend') \cup Range(timer'.rest) \subseteq Range(pend) \cup Range(timer.rest)
    <3>1. CASE TimerWakes
      <4>1. timer'.at = "recover" /\ timer'.rest = pend
        BY <3>1 DEF TimerWakes, TimerIdle
      <4> QED
        BY <3>1, <4>1 DEF TimerWakes, history
    <3>2. CASE TimerReadsClock \/ TimerAccepted
      BY <1>0, <3>2 DEF TimerReadsClock, TimerAccepted, TimerStates, history
    <3>3. CASE TimerClears
      BY <1>0, <3>3, OneEntryLess DEF TimerClears, TimerStates, history, TypeOK, FieldsOK
    <3>4. CASE TimerSleeps
      <4>1. TimerIdle.at = "idle" /\ TimerIdle.rest = <<>>
        BY DEF TimerIdle
      <4> QED
        BY <3>4, <4>1, NoMessage DEF TimerSleeps, history
    <3> QED
      BY <1>1, <3>1, <3>2, <3>3, <3>4
  <2>2. Flushing' = Flushing
    BY <1>0, <2>1 DEF Flushing
  <2> QED
    BY <1>0, <2>1, <2>2, MovesNothing
\* A pending bundle goes once more.
<1>2. CASE TimerRecovers
  <2>1. /\ timer.rest \in Seq(Seq(Msgs)) /\ timer.rest # <<>>
        /\ timer'.at = "hand" /\ timer'.rest = Tail(timer.rest) /\ timer.at = "recover"
        /\ started' = started \cup Range(Head(timer.rest)) /\ UNCHANGED <<st, pend>>
    BY <1>0, <1>2 DEF TimerRecovers, TimerStates
  <2>2. Head(timer.rest) \in Range(timer.rest) /\ Range(Tail(timer.rest)) \subseteq Range(timer.rest)
    BY <2>1, HeadAndRest
  <2>3. started' = started
    BY <2>1, <2>2 DEF Orderly, OnePeersMessages
  <2>4. Flushing' = Flushing
    BY <1>0, <2>1 DEF Flushing
  <2>5. Range(pend') \cup Range(timer'.rest) \subseteq Range(pend) \cup Range(timer.rest)
    BY <2>1, <2>2
  <2> QED
    BY <1>0, <2>1, <2>3, <2>4, <2>5, MovesNothing
<1>3. CASE TimerSavesBundle
  <2>1. /\ timer.at = "flush" /\ timer'.at = "hand" /\ timer'.rest = timer.rest
        /\ started' = started \cup Range(timer.bundle) /\ st' = st
    BY <1>0, <1>3 DEF TimerSavesBundle, TimerStates
  <2>2. Range(pend') = Range(pend) \cup {timer.bundle}
    <3>1. pend \in Seq(Seq(Msgs)) /\ timer.bundle \in Seq(Msgs)
      BY <1>0 DEF TypeOK, FieldsOK, TimerStates
    <3> QED
      BY <1>3, <3>1, OneMoreMessage DEF TimerSavesBundle
  <2>3. Flushing = Range(timer.bundle) /\ Flushing' = {}
    BY <1>0, <2>1 DEF Flushing
  <2> QED
    BY <1>0, <2>1, <2>2, <2>3, SavesTurn
<1>4. ASSUME NEW p \in Peers, TimerFlushes(p)
      PROVE  Orderly'
  <2>1. /\ timer.at = "windows" /\ timer'.at = "flush" /\ timer'.rest = timer.rest
        /\ UNCHANGED <<pend, started>>
    BY <1>0, <1>4 DEF TimerFlushes, TimerStates, history
  <2>2. /\ Flushing = {} /\ Flushing' = Range(st[p].buffer)
        /\ st'[p].buffer = <<>>
        /\ \A q \in Peers \ {p} : st'[q].buffer = st[q].buffer
    BY <1>0, <1>4, <2>1, TimerFlushesType DEF Flushing
  <2>3. /\ \A k \in Msgs : PeerOf[k] \in Peers
        /\ \A q \in Peers : Range(st[q].buffer) \subseteq Msgs
    BY RangeOfSeq, DigestAssumption DEF TypeOK, FieldsOK, DigestStates
  <2>4. TakenInOrder'
    BY <1>0, <2>1, Earlier DEF Orderly, TakenInOrder
  <2>5. TakenIsSomewhere'
    BY <1>0, <2>1, <2>2, <2>3 DEF Orderly, TakenIsSomewhere
  <2>6. \A k \in Flushing' : k \in Msgs /\ Taken(k)' /\ PeerOf[k] = p
    BY <1>0, <2>2, <2>3 DEF Orderly, OnePeersMessages
  <2>7. \A q \in Peers : \A k \in Range(st'[q].buffer) : Taken(k)' /\ PeerOf[k] = q
    BY <1>0, <2>2, <2>3, NoMessage DEF Orderly, OnePeersMessages
  <2>8. OnePeersMessages'
    BY <1>0, <2>1, <2>2, <2>6, <2>7 DEF Orderly, OnePeersMessages
  <2> QED
    BY <2>1, <2>4, <2>5, <2>8 DEF Orderly
<1> QED
  BY <1>1, <1>2, <1>3, <1>4

LEMMA NextTurn == TypeOK /\ InTurn /\ [Next]_vars => InTurn'
<1> SUFFICES ASSUME TypeOK, InTurn, [Next]_vars, crashes' = 0, raises' = 0
             PROVE  Orderly'
  BY DEF InTurn
<1>1. CASE Crash \/ PollRaised \/ TimerRaised
  BY <1>1 DEF Crash, PollRaised, TimerRaised, TypeOK, FieldsOK
<1>2. CASE TimerWaits /\ (PollTask \/ PollAccepted)
  <2>1. crashes' = crashes /\ raises' = raises
    BY <1>2
    DEF PollTask, PollAccepted, Suppress, Pass, Open, Buffer, FlushNow, Takes,
        PollSavesBundle, PollClears, PollUnlinks
  <2> QED
    BY <1>2, <2>1, TakesTurn, PollStepsTurn DEF PollTask, InTurn
<1>3. CASE PollWaits /\ (TimerTask \/ TimerAccepted)
  <2>1. crashes' = crashes /\ raises' = raises
    BY <1>3
    DEF TimerTask, TimerAccepted, TimerOnly, TimerWakes, TimerRecovers, TimerReadsClock,
        TimerSavesBundle, TimerFlushes, TimerClears, TimerSleeps
  <2> QED
    BY <1>3, <2>1, TimerStepsTurn DEF TimerTask, InTurn
<1>4. CASE Tick \/ (\E m \in Msgs : Arrive(m)) \/ UNCHANGED vars
  <2>1. crashes' = crashes /\ raises' = raises
    BY <1>4 DEF Tick, Arrive, vars
  <2> QED
    BY <1>4, <2>1, OthersTurn DEF InTurn
<1> QED
  BY <1>1, <1>2, <1>3, <1>4 DEF Next, PollRuns, TimerRuns, PollHandOff, TimerHandOff

\* FirstHandOffsInOrder: while nothing fails, no message of a peer is handed off
\* before an older one, whichever of the two tasks hands it off, by itself or in
\* a bundle, and wherever the other task is at that time.
THEOREM DigestKeepsOrder == Spec => []FirstHandOffsInOrder
<1>1. InTurn => FirstHandOffsInOrder
  BY DEF InTurn, Orderly, FirstHandOffsInOrder
<1> QED
  BY <1>1, InitType, NextType, InitTurn, NextTurn, PTL DEF Spec

=============================================================================
