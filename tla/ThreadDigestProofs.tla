------------------------- MODULE ThreadDigestProofs -------------------------
(***************************************************************************)
(* Proofs about the digests of a unified thread, for every number of       *)
(* messages, every window, threshold and cooldown, and any number of kills *)
(* and failures: types and the digest window, that no message vanishes     *)
(* unaccounted, the mention gate, and how often the agent is told.         *)
(***************************************************************************)
EXTENDS ThreadDigest, FiniteSetTheorems, SequenceTheorems, TLAPS

----------------------------------------------------------------------------
(* Sequences. *)

\* A function on an initial interval is a sequence of that length.
LEMMA FunctionAsSeq ==
    ASSUME NEW S, NEW n \in Nat, NEW f \in [1..n -> S]
    PROVE  f \in Seq(S) /\ Len(f) = n
<1>1. f \in Seq(S)
  BY SeqDef
<1>2. 1..Len(f) = 1..n /\ Len(f) \in Nat
  BY <1>1, LenProperties
<1>3. CASE Len(f) < n
  <2>1. n \in 1..n /\ n \notin 1..Len(f)
    BY <1>2, <1>3
  <2> QED
    BY <1>2, <2>1
<1>4. CASE Len(f) > n
  <2>1. Len(f) \in 1..Len(f) /\ Len(f) \notin 1..n
    BY <1>2, <1>4
  <2> QED
    BY <1>2, <2>1
<1> QED
  BY <1>1, <1>2, <1>3, <1>4

LEMMA WiderSeq ==
    ASSUME NEW S, NEW T, S \subseteq T
    PROVE  Seq(S) \subseteq Seq(T)
BY SeqDef

\* A list with one more entry: what is in it, and how often.
LEMMA OneMore ==
    ASSUME NEW S, NEW s \in Seq(S), NEW e \in S
    PROVE  /\ Append(s, e) \in Seq(S) /\ Append(s, e) # <<>>
           /\ Append(s, e)[Len(Append(s, e))] = e
           /\ In(Append(s, e)) = In(s) \cup {e}
           /\ \A m : Times(Append(s, e), m) = Times(s, m) + (IF e = m THEN 1 ELSE 0)
<1> DEFINE a == Append(s, e)
           n == Len(s)
<1>1. /\ n \in Nat /\ DOMAIN s = 1..n /\ a \in Seq(S) /\ a # <<>>
      /\ Len(a) = n + 1 /\ DOMAIN a = 1..n + 1
      /\ \A i \in 1..n : a[i] = s[i]
      /\ a[n + 1] = e
  BY AppendProperties, LenProperties
<1> HIDE DEF a, n
<1>2. 1..n + 1 = 1..n \cup {n + 1} /\ n + 1 \notin 1..n
  BY <1>1
<1>3. In(a) = In(s) \cup {e}
  BY <1>1, <1>2 DEF In
<1>4. ASSUME NEW m
      PROVE  Times(a, m) = Times(s, m) + (IF e = m THEN 1 ELSE 0)
  <2> DEFINE T == {i \in DOMAIN s : s[i] = m}
             U == {i \in DOMAIN a : a[i] = m}
  <2>1. IsFiniteSet(T) /\ Cardinality(T) \in Nat
    <3>1. IsFiniteSet(1..n)
      BY <1>1, FS_Interval
    <3> QED
      BY <1>1, <3>1, FS_Subset, FS_CardinalityType
  <2>2. CASE e = m
    <3>1. U = T \cup {n + 1} /\ n + 1 \notin T
      BY <1>1, <1>2, <2>2
    <3>2. Cardinality(U) = Cardinality(T) + 1
      BY <2>1, <3>1, FS_AddElement
    <3> QED
      BY <2>2, <3>2 DEF Times
  <2>3. CASE e # m
    <3>1. U = T
      BY <1>1, <1>2, <2>3
    <3>2. Times(a, m) = Times(s, m) /\ Times(s, m) \in Nat
      BY <2>1, <3>1 DEF Times
    <3> QED
      BY <2>3, <3>2
  <2> QED
    BY <2>2, <2>3
<1> QED
  BY <1>1, <1>3, <1>4 DEF a

\* Times counts what is in a list.
LEMMA CountsWhatIsIn ==
    ASSUME NEW S, NEW s \in Seq(S), NEW m
    PROVE  Times(s, m) \in Nat /\ (Times(s, m) > 0 <=> m \in In(s))
<1> DEFINE T == {i \in DOMAIN s : s[i] = m}
<1>1. Len(s) \in Nat /\ DOMAIN s = 1..Len(s)
  BY LenProperties
<1>2. IsFiniteSet(T) /\ Cardinality(T) \in Nat
  <2>1. IsFiniteSet(1..Len(s))
    BY <1>1, FS_Interval
  <2> QED
    BY <1>1, <2>1, FS_Subset, FS_CardinalityType
<1>3. Cardinality(T) = 0 <=> T = {}
  BY <1>2, FS_EmptySet
<1>4. T # {} <=> m \in In(s)
  BY DEF In
<1> QED
  BY <1>2, <1>3, <1>4 DEF Times

LEMMA NothingIn == In(<<>>) = {} /\ \A m : Times(<<>>, m) = 0
<1>1. In(<<>>) = {}
  BY DEF In
<1>2. \A m : {i \in DOMAIN <<>> : <<>>[i] = m} = {}
  OBVIOUS
<1> QED
  BY <1>1, <1>2, FS_EmptySet DEF Times

\* The ids of a buffer, in its order.
LEMMA IdsOf ==
    ASSUME NEW S, NEW R, \A r \in R : r.id \in S, NEW b \in Seq(R)
    PROVE  /\ Ids(b) \in Seq(S) /\ Len(Ids(b)) = Len(b)
           /\ \A i \in 1..Len(b) : Ids(b)[i] = b[i].id
<1>1. Len(b) \in Nat /\ DOMAIN b = 1..Len(b) /\ \A i \in 1..Len(b) : b[i] \in R
  BY LenProperties, ElementOfSeq
<1>2. Ids(b) \in [1..Len(b) -> S]
  BY <1>1 DEF Ids
<1>3. Ids(b) \in Seq(S) /\ Len(Ids(b)) = Len(b)
  BY <1>1, <1>2, FunctionAsSeq
<1> QED
  BY <1>1, <1>3 DEF Ids

LEMMA IdsOfMore ==
    ASSUME NEW S, NEW R, \A r \in R : r.id \in S, NEW b \in Seq(R),
           NEW m \in S, Entry(m) \in R
    PROVE  /\ Append(b, Entry(m)) \in Seq(R)
           /\ Ids(Append(b, Entry(m))) = Append(Ids(b), m)
<1> DEFINE e == Entry(m)
           a == Append(b, e)
<1>1. e \in R /\ e.id = m
  BY DEF Entry
<1> HIDE DEF e
<1>2. /\ a \in Seq(R) /\ Len(a) = Len(b) + 1
      /\ \A i \in 1..Len(b) : a[i] = b[i]
      /\ a[Len(b) + 1] = e /\ Len(b) \in Nat
  BY <1>1, AppendProperties, LenProperties
<1> HIDE DEF a
<1>3. /\ Ids(a) \in Seq(S) /\ Len(Ids(a)) = Len(b) + 1
      /\ \A i \in 1..Len(b) + 1 : Ids(a)[i] = a[i].id
  BY <1>2, IdsOf
<1>4. /\ Ids(b) \in Seq(S) /\ Len(Ids(b)) = Len(b)
      /\ \A i \in 1..Len(b) : Ids(b)[i] = b[i].id
  BY IdsOf
<1>5. /\ Append(Ids(b), m) \in Seq(S) /\ Len(Append(Ids(b), m)) = Len(b) + 1
      /\ \A i \in 1..Len(b) : Append(Ids(b), m)[i] = Ids(b)[i]
      /\ Append(Ids(b), m)[Len(b) + 1] = m
  BY <1>4, AppendProperties
<1>6. \A i \in 1..Len(b) + 1 : Ids(a)[i] = Append(Ids(b), m)[i]
  <2> SUFFICES ASSUME NEW i \in 1..Len(b) + 1
               PROVE  Ids(a)[i] = Append(Ids(b), m)[i]
    OBVIOUS
  <2>1. CASE i \in 1..Len(b)
    BY <1>2, <1>3, <1>4, <1>5, <2>1
  <2>2. CASE i = Len(b) + 1
    BY <1>1, <1>2, <1>3, <1>5, <2>2
  <2>3. Len(b) \in Nat
    BY <1>2
  <2>4. i \in 1..Len(b) \/ i = Len(b) + 1
    BY <2>3
  <2> QED
    BY <2>1, <2>2, <2>4
<1>7. Ids(a) = Append(Ids(b), m)
  BY <1>3, <1>5, <1>6, SeqEqual
<1> QED
  BY <1>2, <1>7 DEF a, e

----------------------------------------------------------------------------
(* Types and the digest window. *)

Items == [id : Seen, age : 0..MaxAge]

LEMMA Ages == MaxAge \in Nat /\ MaxAge >= Interval /\ Interval \in Nat /\ Interval > 0
              /\ Cooldown \in Nat /\ Cooldown <= Interval
BY DigestAssumption DEF MaxAge

\* An older buffer is the same messages.
LEMMA AgedBuffer ==
    ASSUME buffer \in Seq(Items)
    PROVE  /\ Aged(buffer) \in Seq(Items) /\ Len(Aged(buffer)) = Len(buffer)
           /\ \A i \in 1..Len(buffer) :
                 /\ Aged(buffer)[i].id = buffer[i].id
                 /\ Aged(buffer)[i].age
                       = IF buffer[i].age = MaxAge THEN MaxAge ELSE buffer[i].age + 1
           /\ Ids(Aged(buffer)) = Ids(buffer)
<1> DEFINE n == Len(buffer)
<1>1. n \in Nat /\ DOMAIN buffer = 1..n /\ \A i \in 1..n : buffer[i] \in Items
  BY LenProperties, ElementOfSeq
<1> HIDE DEF n
<1>2. ASSUME NEW i \in 1..n
      PROVE  /\ Aged(buffer)[i] \in Items
             /\ Aged(buffer)[i].id = buffer[i].id
             /\ Aged(buffer)[i].age
                   = IF buffer[i].age = MaxAge THEN MaxAge ELSE buffer[i].age + 1
  <2> DEFINE g == IF buffer[i].age = MaxAge THEN MaxAge ELSE buffer[i].age + 1
  <2>1. buffer[i].id \in Seen /\ buffer[i].age \in 0..MaxAge /\ buffer[i] \in Items
    BY <1>1 DEF Items
  <2>2. g \in 0..MaxAge
    BY <2>1, Ages
  <2>3. Aged(buffer)[i] = [buffer[i] EXCEPT !.age = g]
    BY <1>1 DEF Aged
  <2> HIDE DEF g
  <2>4. /\ [buffer[i] EXCEPT !.age = g] \in Items
        /\ [buffer[i] EXCEPT !.age = g].id = buffer[i].id
        /\ [buffer[i] EXCEPT !.age = g].age = g
    BY <2>1, <2>2 DEF Items
  <2> QED
    BY <2>3, <2>4 DEF g
<1>3. Aged(buffer) \in [1..n -> Items]
  <2>1. DOMAIN Aged(buffer) = 1..n
    BY <1>1 DEF Aged
  <2>2. \A i \in 1..n : Aged(buffer)[i] \in Items
    BY <1>2
  <2>3. Aged(buffer) = [i \in 1..n |-> Aged(buffer)[i]]
    BY <1>1 DEF Aged
  <2> QED
    BY <2>2, <2>3
<1>4. Aged(buffer) \in Seq(Items) /\ Len(Aged(buffer)) = n
  BY <1>1, <1>3, FunctionAsSeq
<1>5. Ids(Aged(buffer)) = Ids(buffer)
  <2>1. DOMAIN Aged(buffer) = DOMAIN buffer
    BY <1>1 DEF Aged
  <2> QED
    BY <1>1, <1>2, <2>1 DEF Ids
<1> QED
  BY <1>2, <1>4, <1>5 DEF n

LEMMA SeenType ==
    ASSUME FieldsOK
    PROVE  /\ Len(kinds) \in Nat /\ Seen \subseteq Messages
           /\ Faults \in Nat /\ failures \in Nat /\ crashes \in Nat
BY DigestAssumption, LenProperties DEF FieldsOK, Seen, Messages, Faults

\* The message in hand.
LEMMA SayInHand ==
    ASSUME FieldsOK, hand.cmd = "say"
    PROVE  /\ hand \in [cmd : {"say"}, id : Seen] /\ hand.id \in Seen
           /\ hand = [cmd |-> "say", id |-> hand.id]
           /\ \A m : Waiting(m) <=> m = hand.id
<1>1. hand \in [cmd : {"say"}, id : Seen]
  BY DEF FieldsOK, CommandItems, NoItem
<1>2. hand.id \in Seen /\ hand = [cmd |-> "say", id |-> hand.id]
  BY <1>1
<1>3. ASSUME NEW m
      PROVE  Waiting(m) <=> m = hand.id
  <2>1. Waiting(m) => hand.id = m
    BY DEF Waiting
  <2> QED
    BY <1>2, <2>1 DEF Waiting
<1> QED
  BY <1>1, <1>2, <1>3

LEMMA NothingInHand == hand.cmd # "say" => \A m : ~Waiting(m)
BY DEF Waiting

LEMMA NoMessageWaits == NoItem.cmd # "say"
BY DEF NoItem

LEMMA GoneType ==
    ASSUME FieldsOK, NEW ms, NEW why \in Reasons, Gone(ms, why)
    PROVE  gone' \in [Messages -> SUBSET Reasons]
BY DEF Gone, FieldsOK

LEMMA ToldType ==
    ASSUME FieldsOK, NEW t \in Seq(Seen), Told(t)
    PROVE  /\ told' \in [Messages -> Nat]
           /\ \A m \in Messages : told'[m] = told[m] + Times(t, m)
<1>1. \A m \in Messages : told[m] + Times(t, m) \in Nat
  BY CountsWhatIsIn DEF FieldsOK
<1> QED
  BY <1>1 DEF Told

LEMMA InitType == Init => TypeOK
<1> SUFFICES ASSUME Init PROVE TypeOK
  OBVIOUS
<1> USE DEF Init
<1>1. Seen = {} /\ Len(kinds) = 0
  BY EmptySeq DEF Seen
<1>2. 0 \in 0..Interval /\ 0 \in 0..Cooldown /\ 0 \in 0..MaxCommands /\ 0 <= MaxMessages
      /\ 0 + 0 <= MaxFaults /\ 0 \in Nat
  BY DigestAssumption
<1>3. /\ buffer \in Seq([id : Seen, age : 0..MaxAge]) /\ turn \in Seq(Seen)
      /\ timerTurn \in Seq(Seen) /\ kinds \in Seq(Kinds)
      /\ artifacts \in [Names -> Seq(Seen)]
  BY EmptySeq
<1>4. hand \in CommandItems \cup {NoItem} \cup [cmd : {"say"}, id : Seen]
  OBVIOUS
<1>5. FieldsOK
  BY <1>1, <1>2, <1>3, <1>4 DEF FieldsOK, Modes, Faults
<1>6. DigestWindow
  BY DEF DigestWindow
<1> QED
  BY <1>5, <1>6 DEF TypeOK

\* The window and the cooldown run down together.
LEMMA TickType ==
    ASSUME TypeOK, Tick
    PROVE  TypeOK'
<1> USE Ages DEF TypeOK
<1>1. /\ UNCHANGED <<mode, state, session, files, poll, timerTurn, kinds, counts, history>>
      /\ buffer' = Aged(buffer) /\ due' = Later(due) /\ cool' = Later(cool)
  BY DEF Tick
<1>0. Seen' = Seen /\ buffer \in Seq(Items)
  BY <1>1 DEF FieldsOK, Seen, Items
<1>2. /\ Aged(buffer) \in Seq(Items) /\ Len(Aged(buffer)) = Len(buffer)
      /\ \A i \in 1..Len(buffer) :
            Aged(buffer)[i].age = IF buffer[i].age = MaxAge THEN MaxAge ELSE buffer[i].age + 1
  BY <1>0, AgedBuffer
<1>3. due' \in 0..Interval /\ cool' \in 0..Cooldown /\ (cool <= due => cool' <= due')
  BY <1>1 DEF Later, FieldsOK
<1>4. FieldsOK'
  BY <1>0, <1>1, <1>2, <1>3 DEF FieldsOK, Items, files, poll, counts, history, Faults
<1>5. DigestWindow'
  <2> SUFFICES ASSUME state = "digesting"
               PROVE  /\ buffer' # <<>>
                      /\ due' = IF buffer'[Len(buffer')].age >= Interval
                                THEN 0 ELSE Interval - buffer'[Len(buffer')].age
                      /\ cool' <= due'
    BY <1>1 DEF DigestWindow
  <2> DEFINE n == Len(buffer)
             a == buffer[n].age
             z == buffer'[n].age
  <2>1. /\ buffer # <<>> /\ due = (IF a >= Interval THEN 0 ELSE Interval - a)
        /\ cool <= due
    BY DEF DigestWindow
  <2>2. n \in Nat /\ n # 0 /\ n \in 1..n /\ buffer[n] \in Items
    BY <1>0, <2>1, LenProperties, EmptySeq, ElementOfSeq
  <2>3. a \in 0..MaxAge
    BY <2>2 DEF Items
  <2>4. z = IF a = MaxAge THEN MaxAge ELSE a + 1
    BY <1>1, <1>2, <2>2
  <2>5. buffer' # <<>> /\ Len(buffer') = n
    BY <1>1, <1>2, <2>2, EmptySeq
  <2> HIDE DEF n, a, z
  <2>6. due' = IF z >= Interval THEN 0 ELSE Interval - z
    BY <1>1, <2>1, <2>3, <2>4 DEF Later
  <2> QED
    BY <1>3, <2>1, <2>5, <2>6 DEF z
<1> QED
  BY <1>4, <1>5

LEMMA ArrivalType ==
    ASSUME TypeOK, NEW k \in Kinds, Arrives(k)
    PROVE  TypeOK'
<1> USE DEF TypeOK
<1>1. /\ UNCHANGED <<thread, files, phase, turn, timerTurn, counts, history>>
      /\ Len(kinds) < MaxMessages /\ kinds' = Append(kinds, k)
      /\ hand' = [cmd |-> "say", id |-> Len(kinds) + 1] /\ hand = NoItem
  BY DEF Arrives, Idle
<1>2. /\ kinds' \in Seq(Kinds) /\ Len(kinds') = Len(kinds) + 1 /\ Len(kinds) \in Nat
  BY <1>1, AppendProperties, LenProperties DEF FieldsOK
<1>3. Seen \subseteq Seen' /\ Len(kinds) + 1 \in Seen' /\ Len(kinds') <= MaxMessages
  BY <1>1, <1>2, DigestAssumption DEF Seen
<1>4. /\ Seq(Seen) \subseteq Seq(Seen')
      /\ Seq([id : Seen, age : 0..MaxAge]) \subseteq Seq([id : Seen', age : 0..MaxAge])
  BY <1>3, WiderSeq
<1>5. hand' \in [cmd : {"say"}, id : Seen']
  BY <1>1, <1>3
<1>6. session = Closed \/ session \in [name : Names, msgs : Seq(Seen')]
  BY <1>4 DEF FieldsOK
<1>7. phase # "written" /\ phase \notin {"unlink", "gate", "handing"}
  BY <1>1 DEF FieldsOK, NoItem
<1>8. FieldsOK'
  BY <1>1, <1>2, <1>3, <1>4, <1>5, <1>6, <1>7
  DEF FieldsOK, thread, files, counts, history, Faults
<1> QED
  BY <1>1, <1>8 DEF DigestWindow, thread

LEMMA CommandType ==
    ASSUME TypeOK, NEW c \in CommandItems, Commanded(c)
    PROVE  TypeOK'
<1> USE DEF TypeOK
<1>1. /\ UNCHANGED <<thread, files, phase, turn, timerTurn, kinds, failures, crashes, history>>
      /\ hand' = c /\ hand = NoItem
      /\ commands' = commands \/ (commands < MaxCommands /\ commands' = commands + 1)
  BY DEF Commanded, Idle
<1>2. commands' \in 0..MaxCommands
  BY <1>1, DigestAssumption DEF FieldsOK
<1>3. phase # "written" /\ phase \notin {"unlink", "gate", "handing"}
  BY <1>1 DEF FieldsOK, NoItem
<1>4. FieldsOK'
  BY <1>1, <1>2, <1>3 DEF FieldsOK, thread, files, history, Faults, Seen
<1> QED
  BY <1>1, <1>4 DEF DigestWindow, thread

\* A file that is done with.
LEMMA FreeType ==
    ASSUME FieldsOK, Free
    PROVE  /\ hand' \in CommandItems \cup {NoItem} \cup [cmd : {"say"}, id : Seen]
           /\ phase' = "new" /\ turn' \in Seq(Seen)
BY EmptySeq DEF Free

LEMMA MessageType == TypeOK /\ MessageStep => TypeOK'
<1> SUFFICES ASSUME TypeOK, MessageStep
             PROVE  TypeOK'
  OBVIOUS
<1> USE DEF TypeOK
<1>h. /\ hand.cmd = "say" /\ hand \in [cmd : {"say"}, id : Seen] /\ hand.id \in Seen
  <2>0. New \/ phase \in {"unlink", "gate", "handing"}
    BY DEF MessageStep, Duplicate, Drops, Buffers, Flushes, Notes, Passes, Collects,
           Unlinks, Skips, Records, HandsOver, Fresh
  <2>1. hand.cmd = "say"
    BY <2>0 DEF New, FieldsOK
  <2> QED
    BY <2>1, SayInHand
<1>b. /\ Append(buffer, Entry(hand.id)) \in Seq([id : Seen, age : 0..MaxAge])
      /\ Append(buffer, Entry(hand.id)) # <<>>
      /\ Append(buffer, Entry(hand.id))[Len(Append(buffer, Entry(hand.id)))].age = 0
      /\ Ids(buffer) \in Seq(Seen)
  <2>1. buffer \in Seq(Items)
    BY DEF FieldsOK, Items
  <2>2. Entry(hand.id) \in Items /\ \A r \in Items : r.id \in Seen
    BY <1>h, Ages DEF Entry, Items
  <2>3. /\ Append(buffer, Entry(hand.id)) \in Seq(Items)
        /\ Append(buffer, Entry(hand.id)) # <<>>
        /\ Append(buffer, Entry(hand.id))[Len(Append(buffer, Entry(hand.id)))] = Entry(hand.id)
    BY <2>1, <2>2, OneMore
  <2>4. Ids(buffer) \in Seq(Seen)
    BY <2>1, <2>2, IdsOf
  <2> QED
    BY <2>3, <2>4 DEF Entry, Items
<1>e. <<>> \in Seq(Seen) /\ <<>> \in Seq([id : Seen, age : 0..MaxAge])
  BY EmptySeq
<1>t. /\ <<hand.id>> \in Seq(Seen) /\ Append(Ids(buffer), hand.id) \in Seq(Seen)
  BY <1>h, <1>b, <1>e, AppendProperties
<1>1. CASE Duplicate \/ Unlinks
  <2>1. /\ Free /\ UNCHANGED <<thread, files, timerTurn, kinds, counts, history>>
    BY <1>1 DEF Duplicate, Unlinks
  <2>2. FieldsOK'
    BY <2>1, FreeType DEF FieldsOK, thread, files, counts, history, Faults, Seen
  <2> QED
    BY <2>1, <2>2 DEF DigestWindow, thread
<1>2. CASE Drops \/ Skips
  <2>1. /\ Free /\ UNCHANGED <<thread, files, timerTurn, kinds, counts, told>>
        /\ gone' \in [Messages -> SUBSET Reasons]
    BY <1>2, GoneType DEF Drops, Skips, Reasons
  <2>2. FieldsOK'
    BY <2>1, FreeType DEF FieldsOK, thread, files, counts, Faults, Seen
  <2> QED
    BY <2>1, <2>2 DEF DigestWindow, thread
<1>3. CASE Buffers
  <2>1. /\ state' = "digesting" /\ buffer' = Append(buffer, Entry(hand.id))
        /\ due' = Interval /\ phase' = "unlink"
        /\ UNCHANGED <<mode, cool, session, files, hand, turn, timerTurn, kinds,
                       counts, history>>
    BY <1>3 DEF Buffers
  <2>2. due' \in 0..Interval
    BY <2>1, Ages
  <2>3. FieldsOK'
    BY <1>h, <1>b, <2>1, <2>2 DEF FieldsOK, files, counts, history, Faults, Seen
  <2>4. DigestWindow'
    <3>1. cool \in 0..Cooldown
      BY DEF FieldsOK
    <3> QED
      BY <1>b, <2>1, <3>1, Ages DEF DigestWindow
  <2> QED
    BY <2>3, <2>4
<1>4. CASE Flushes
  <2>1. /\ turn' = Append(Ids(buffer), hand.id) /\ phase' = "gate"
        /\ state' = "active" /\ cool' = Cooldown /\ buffer' = <<>>
        /\ UNCHANGED <<mode, due, session, files, hand, timerTurn, kinds, counts, history>>
    BY <1>4 DEF Flushes, Flushed
  <2>2. cool' \in 0..Cooldown
    BY <2>1, Ages
  <2>3. FieldsOK'
    BY <1>h, <1>e, <1>t, <2>1, <2>2 DEF FieldsOK, files, counts, history, Faults, Seen
  <2> QED
    BY <2>1, <2>3 DEF DigestWindow
<1>5. CASE Notes
  <2>1. /\ turn' = <<hand.id>> /\ phase' = "gate"
        /\ state' = "active" /\ buffer' = Append(buffer, Entry(hand.id))
        /\ UNCHANGED <<mode, due, cool, session, files, hand, timerTurn, kinds, counts,
                       history>>
    BY <1>5 DEF Notes
  <2>2. FieldsOK'
    BY <1>h, <1>b, <1>t, <2>1 DEF FieldsOK, files, counts, history, Faults, Seen
  <2> QED
    BY <2>1, <2>2 DEF DigestWindow
<1>6. CASE Passes
  <2>1. /\ turn' = <<hand.id>> /\ phase' = "gate"
        /\ UNCHANGED <<thread, files, hand, timerTurn, kinds, counts, history>>
    BY <1>6 DEF Passes
  <2>2. FieldsOK'
    BY <1>h, <1>t, <2>1 DEF FieldsOK, thread, files, counts, history, Faults, Seen
  <2> QED
    BY <2>1, <2>2 DEF DigestWindow, thread
<1>7. CASE Collects
  <2>1. /\ session # Closed /\ session' = [session EXCEPT !.msgs = Append(@, hand.id)]
        /\ phase' = "unlink"
        /\ UNCHANGED <<mode, state, buffer, due, cool, files, hand, turn, timerTurn,
                       kinds, counts, history>>
    BY <1>7 DEF Collects
  <2>2. session \in [name : Names, msgs : Seq(Seen)]
    BY <2>1 DEF FieldsOK
  <2>3. Append(session.msgs, hand.id) \in Seq(Seen)
    BY <1>h, <2>2, AppendProperties
  <2>4. session' \in [name : Names, msgs : Seq(Seen)]
    BY <2>1, <2>2, <2>3
  <2>5. FieldsOK'
    BY <1>h, <2>1, <2>4 DEF FieldsOK, files, counts, history, Faults, Seen
  <2> QED
    BY <2>1, <2>5 DEF DigestWindow
<1>8. CASE Records
  <2>1. /\ recorded' = recorded \cup {hand.id} /\ phase' = "handing"
        /\ UNCHANGED <<thread, peopled, artifacts, hand, turn, timerTurn, kinds, counts, history>>
    BY <1>8 DEF Records
  <2>2. FieldsOK'
    BY <1>h, <2>1 DEF FieldsOK, thread, counts, history, Faults, Seen
  <2> QED
    BY <2>1, <2>2 DEF DigestWindow, thread
<1>9. CASE HandsOver
  <2>1. /\ Free /\ UNCHANGED <<thread, files, timerTurn, kinds, counts, gone>>
        /\ told' \in [Messages -> Nat]
    BY <1>9, ToldType DEF HandsOver, FieldsOK
  <2>2. FieldsOK'
    BY <2>1, FreeType DEF FieldsOK, thread, files, counts, Faults, Seen
  <2> QED
    BY <2>1, <2>2 DEF DigestWindow, thread
<1> QED
  BY <1>1, <1>2, <1>3, <1>4, <1>5, <1>6, <1>7, <1>8, <1>9 DEF MessageStep

LEMMA TimerType == TypeOK /\ (Timer \/ TimerRaises) => TypeOK'
<1> SUFFICES ASSUME TypeOK, Timer \/ TimerRaises
             PROVE  TypeOK'
  OBVIOUS
<1> USE DEF TypeOK
<1>e. <<>> \in Seq(Seen) /\ <<>> \in Seq([id : Seen, age : 0..MaxAge])
  BY EmptySeq
<1>1. CASE TimerFlushes
  <2>1. /\ timerTurn' = Ids(buffer)
        /\ state' = "active" /\ cool' = Cooldown /\ buffer' = <<>>
        /\ UNCHANGED <<mode, due, session, files, poll, kinds, counts, history>>
    BY <1>1 DEF TimerFlushes, Flushed
  <2>2. cool' \in 0..Cooldown
    BY <2>1, Ages
  <2>3. Ids(buffer) \in Seq(Seen)
    <3>1. \A r \in [id : Seen, age : 0..MaxAge] : r.id \in Seen
      OBVIOUS
    <3>2. buffer \in Seq([id : Seen, age : 0..MaxAge])
      BY DEF FieldsOK
    <3> QED
      BY <3>1, <3>2, IdsOf
  <2>4. FieldsOK'
    BY <1>e, <2>1, <2>2, <2>3 DEF FieldsOK, files, poll, counts, history, Faults, Seen
  <2> QED
    BY <2>1, <2>4 DEF DigestWindow
<1>2. CASE TimerHandsOver
  <2>1. /\ timerTurn' = <<>> /\ UNCHANGED <<thread, files, poll, kinds, counts, gone>>
        /\ told' \in [Messages -> Nat]
    BY <1>2, ToldType DEF TimerHandsOver, FieldsOK
  <2>2. FieldsOK'
    BY <1>e, <2>1 DEF FieldsOK, thread, files, poll, counts, Faults, Seen
  <2> QED
    BY <2>1, <2>2 DEF DigestWindow, thread
<1>3. CASE TimerRaises
  <2>1. /\ timerTurn' = <<>> /\ UNCHANGED <<thread, files, poll, kinds, commands, crashes, told>>
        /\ gone' \in [Messages -> SUBSET Reasons]
        /\ Faults < MaxFaults /\ failures' = failures + 1
    BY <1>3, GoneType DEF TimerRaises, Reasons
  <2>2. failures' \in Nat /\ failures' + crashes <= MaxFaults
    BY <2>1, SeenType, DigestAssumption DEF Faults
  <2>3. FieldsOK'
    BY <1>e, <2>1, <2>2 DEF FieldsOK, thread, files, poll, Faults, Seen
  <2> QED
    BY <2>1, <2>3 DEF DigestWindow, thread
<1>4. CASE TimerLoses
  <2>1. /\ state' = "active" /\ cool' = Cooldown /\ buffer' = <<>>
        /\ UNCHANGED <<mode, due, session, files, poll, timerTurn, kinds, counts, told>>
        /\ gone' \in [Messages -> SUBSET Reasons]
    BY <1>4, GoneType DEF TimerLoses, Flushed, Reasons
  <2>2. cool' \in 0..Cooldown
    BY <2>1, Ages
  <2>3. FieldsOK'
    BY <1>e, <2>1, <2>2 DEF FieldsOK, files, poll, counts, Faults, Seen
  <2> QED
    BY <2>1, <2>3 DEF DigestWindow
<1> QED
  BY <1>1, <1>2, <1>3, <1>4 DEF Timer

\* An artifact is written over.
LEMMA WritesType ==
    ASSUME FieldsOK, session # Closed, NEW msgs \in Seq(Seen), Writes(msgs)
    PROVE  /\ artifacts' \in [Names -> Seq(Seen)] /\ gone' \in [Messages -> SUBSET Reasons]
           /\ session.name \in Names /\ artifacts' = [artifacts EXCEPT ![session.name] = msgs]
<1>1. artifacts' \in [Names -> Seq(Seen)]
  BY DEF Writes, FieldsOK
<1>2. gone' \in [Messages -> SUBSET Reasons]
  BY GoneType DEF Writes, Reasons
<1>3. session.name \in Names
  BY DEF FieldsOK
<1> QED
  BY <1>1, <1>2, <1>3 DEF Writes

LEMMA ChangeType == TypeOK /\ (CommandStep \/ CloseFails) => TypeOK'
<1> SUFFICES ASSUME TypeOK, CommandStep \/ CloseFails
             PROVE  TypeOK'
  OBVIOUS
<1> USE DEF TypeOK
<1>e. <<>> \in Seq(Seen)
  BY EmptySeq
<1>1. CASE SetsMode
  <2>1. /\ mode' = hand.mode /\ Free
        /\ UNCHANGED <<state, buffer, due, cool, session, files, timerTurn, kinds, counts,
                       history>>
    BY <1>1 DEF SetsMode
  <2>2. hand.mode \in Modes
    <3>1. hand \in [cmd : {"mode"}, mode : Modes]
      BY <1>1 DEF SetsMode, FieldsOK, CommandItems, NoItem
    <3> QED
      BY <3>1
  <2>3. FieldsOK'
    BY <2>1, <2>2, FreeType DEF FieldsOK, files, counts, history, Faults, Seen
  <2> QED
    BY <2>1, <2>3 DEF DigestWindow
<1>2. CASE Opens
  <2>1. /\ session' = [name |-> hand.name, msgs |-> <<>>] /\ mode' = "protokoll" /\ Free
        /\ UNCHANGED <<state, buffer, due, cool, files, timerTurn, kinds, counts, told>>
    BY <1>2 DEF Opens
  <2>2. hand.name \in Names
    <3>1. hand \in [cmd : {"open"}, name : Names]
      BY <1>2 DEF Opens, FieldsOK, CommandItems, NoItem
    <3> QED
      BY <3>1
  <2>3. session' \in [name : Names, msgs : Seq(Seen)]
    BY <1>e, <2>1, <2>2
  <2>4. gone' \in [Messages -> SUBSET Reasons]
    <3>1. CASE session = Closed
      BY <1>2, <3>1 DEF Opens, FieldsOK
    <3>2. CASE session # Closed
      BY <1>2, <3>2, GoneType DEF Opens, Reasons
    <3> QED
      BY <3>1, <3>2
  <2>5. FieldsOK'
    BY <2>1, <2>3, <2>4, FreeType DEF FieldsOK, files, counts, Faults, Seen, Modes
  <2> QED
    BY <2>1, <2>5 DEF DigestWindow
<1>3. CASE CloseRefused
  <2>1. Free /\ UNCHANGED <<thread, files, timerTurn, kinds, counts, history>>
    BY <1>3 DEF CloseRefused
  <2>2. FieldsOK'
    BY <2>1, FreeType DEF FieldsOK, thread, files, counts, history, Faults, Seen
  <2> QED
    BY <2>1, <2>2 DEF DigestWindow, thread
<1>4. CASE CloseWrites
  <2>1. /\ session # Closed /\ Writes(session.msgs) /\ phase' = "written"
        /\ hand.cmd = "close"
        /\ UNCHANGED <<thread, peopled, recorded, hand, turn, timerTurn, kinds, counts, told>>
    BY <1>4 DEF CloseWrites
  <2>2. session.msgs \in Seq(Seen)
    BY <2>1 DEF FieldsOK
  <2>3. artifacts' \in [Names -> Seq(Seen)] /\ gone' \in [Messages -> SUBSET Reasons]
    BY <2>1, <2>2, WritesType
  <2>4. FieldsOK'
    BY <2>1, <2>3 DEF FieldsOK, thread, counts, Faults, Seen
  <2> QED
    BY <2>1, <2>4 DEF DigestWindow, thread
<1>5. CASE CloseSaves
  <2>1. /\ session' = Closed /\ mode' = "participant" /\ Free
        /\ UNCHANGED <<state, buffer, due, cool, files, timerTurn, kinds, counts, history>>
    BY <1>5 DEF CloseSaves
  <2>2. FieldsOK'
    BY <2>1, FreeType DEF FieldsOK, files, counts, history, Faults, Seen, Modes
  <2> QED
    BY <2>1, <2>2 DEF DigestWindow
<1>6. CASE CloseFails
  <2>1. /\ session # Closed /\ Free
        /\ Writes(artifacts[session.name]) \/ Writes(<<>>)
        /\ Faults < MaxFaults /\ failures' = failures + 1
        /\ UNCHANGED <<thread, peopled, recorded, timerTurn, kinds, commands, crashes, told>>
    BY <1>6 DEF CloseFails
  <2>2. artifacts[session.name] \in Seq(Seen)
    BY <2>1 DEF FieldsOK
  <2>3. artifacts' \in [Names -> Seq(Seen)] /\ gone' \in [Messages -> SUBSET Reasons]
    BY <1>e, <2>1, <2>2, WritesType
  <2>4. failures' \in Nat /\ failures' + crashes <= MaxFaults
    BY <2>1, SeenType, DigestAssumption DEF Faults
  <2>5. FieldsOK'
    BY <2>1, <2>3, <2>4, FreeType DEF FieldsOK, thread, Faults, Seen
  <2> QED
    BY <2>1, <2>5 DEF DigestWindow, thread
<1>7. CASE Leaves \/ Joins
  <2>1. /\ peopled' \in BOOLEAN /\ Free
        /\ UNCHANGED <<thread, recorded, artifacts, timerTurn, kinds, counts, history>>
    BY <1>7 DEF Leaves, Joins
  <2>2. FieldsOK'
    BY <2>1, FreeType DEF FieldsOK, thread, counts, history, Faults, Seen
  <2> QED
    BY <2>1, <2>2 DEF DigestWindow, thread
<1> QED
  BY <1>1, <1>2, <1>3, <1>4, <1>5, <1>6, <1>7 DEF CommandStep

LEMMA FailureType == TypeOK /\ (Raises \/ Crashes) => TypeOK'
<1> SUFFICES ASSUME TypeOK, Raises \/ Crashes
             PROVE  TypeOK'
  OBVIOUS
<1> USE DEF TypeOK
<1>e. <<>> \in Seq(Seen)
  BY EmptySeq
<1>1. CASE Raises
  <2>1. /\ Faults < MaxFaults /\ failures' = failures + 1 /\ phase' = "new" /\ turn' = <<>>
        /\ UNCHANGED <<thread, files, hand, timerTurn, kinds, commands, crashes, told>>
        /\ gone' \in [Messages -> SUBSET Reasons]
    BY <1>1, GoneType DEF Raises, Reasons
  <2>2. failures' \in Nat /\ failures' + crashes <= MaxFaults
    BY <2>1, SeenType, DigestAssumption DEF Faults
  <2>3. FieldsOK'
    BY <1>e, <2>1, <2>2 DEF FieldsOK, thread, files, Faults, Seen
  <2> QED
    BY <2>1, <2>3 DEF DigestWindow, thread
<1>2. CASE Crashes
  <2>1. /\ Faults < MaxFaults /\ crashes' = crashes + 1
        /\ phase' = "new" /\ turn' = <<>> /\ timerTurn' = <<>>
        /\ UNCHANGED <<thread, files, hand, kinds, commands, failures, told>>
        /\ gone' \in [Messages -> SUBSET Reasons]
    BY <1>2, GoneType DEF Crashes, Reasons
  <2>2. crashes' \in Nat /\ failures + crashes' <= MaxFaults
    BY <2>1, SeenType, DigestAssumption DEF Faults
  <2>3. FieldsOK'
    BY <1>e, <2>1, <2>2 DEF FieldsOK, thread, files, Faults, Seen
  <2> QED
    BY <2>1, <2>3 DEF DigestWindow, thread
<1> QED
  BY <1>1, <1>2

LEMMA TypeStep == TypeOK /\ [Next]_vars => TypeOK'
<1> SUFFICES ASSUME TypeOK, [Next]_vars
             PROVE  TypeOK'
  OBVIOUS
<1>1. CASE UNCHANGED vars
  BY <1>1 DEF vars, thread, files, poll, counts, history, TypeOK, FieldsOK, DigestWindow,
              Faults, Seen
<1>2. CASE Next
  BY <1>2, TickType, ArrivalType, CommandType, MessageType, ChangeType, TimerType,
     FailureType DEF Next
<1> QED
  BY <1>1, <1>2

\* Type correctness, and with it the digest window: the buffer of a digest is not
\* empty, the window is counted from its last message, and a cooldown is over by
\* its end.
THEOREM TypeCorrect == Spec => []TypeOK
BY InitType, TypeStep, PTL DEF Spec

----------------------------------------------------------------------------
(* Nothing vanishes.  What is handed on is the turn of the message in hand, *)
(* and only a message that is fresh is in the inbox alone: everything else  *)
(* is in a list, was told, or has its reason.                               *)

TurnInHand ==
    /\ phase \in {"new", "unlink", "written"} => turn = <<>>
    /\ phase \in {"gate", "handing"} => hand.id \in In(turn)
    /\ phase = "handing" => hand.id \in recorded

\* What a close has written is the session.
WrittenWhole == phase = "written" => artifacts[session.name] = session.msgs

HandInv == TypeOK /\ TurnInHand /\ WrittenWhole

Elsewhere(m) ==
    Buffered(m) \/ Bundled(m) \/ Collected(m) \/ told[m] > 0 \/ gone[m] # {}

OnlyFreshIsAlone ==
    \A m \in Seen :
        Elsewhere(m) \/ (Waiting(m) /\ phase = "new" /\ m \notin recorded)

\* Nothing is known of a message that has not arrived.
NotYet == \A m \in Messages \ Seen : told[m] = 0 /\ gone[m] = {}

AccountInv == HandInv /\ OnlyFreshIsAlone /\ NotYet /\ MentionPassesTheGate

LEMMA InSeen == \A t \in Seq(Seen) : In(t) \subseteq Seen
BY LenProperties, ElementOfSeq DEF In

LEMMA InOne == \A e : In(<<e>>) = {e}
BY DEF In

\* The ids of the buffer, before and after a message joins it.
LEMMA BufferIds ==
    ASSUME FieldsOK
    PROVE  /\ Ids(buffer) \in Seq(Seen)
           /\ \A m \in Seen :
                 /\ Ids(Append(buffer, Entry(m))) = Append(Ids(buffer), m)
                 /\ In(Ids(Append(buffer, Entry(m)))) = In(Ids(buffer)) \cup {m}
                 /\ In(Append(Ids(buffer), m)) = In(Ids(buffer)) \cup {m}
<1>1. buffer \in Seq(Items) /\ \A r \in Items : r.id \in Seen
  BY DEF FieldsOK, Items
<1>2. Ids(buffer) \in Seq(Seen)
  BY <1>1, IdsOf
<1>3. ASSUME NEW m \in Seen
      PROVE  /\ Ids(Append(buffer, Entry(m))) = Append(Ids(buffer), m)
             /\ In(Append(Ids(buffer), m)) = In(Ids(buffer)) \cup {m}
  <2>1. Entry(m) \in Items
    BY Ages DEF Entry, Items
  <2>2. Ids(Append(buffer, Entry(m))) = Append(Ids(buffer), m)
    BY <1>1, <2>1, IdsOfMore
  <2>3. In(Append(Ids(buffer), m)) = In(Ids(buffer)) \cup {m}
    BY <1>2, OneMore
  <2> QED
    BY <2>2, <2>3
<1> QED
  BY <1>2, <1>3

\* A reason is added for those messages, and for no other.
LEMMA GoneAdds ==
    ASSUME FieldsOK, NEW ms, NEW why, Gone(ms, why), NEW m \in Messages
    PROVE  /\ gone[m] \subseteq gone'[m] /\ gone'[m] \subseteq gone[m] \cup {why}
           /\ m \in ms => why \in gone'[m]
           /\ m \notin ms => gone'[m] = gone[m]
BY DEF Gone, FieldsOK

LEMMA ToldAdds ==
    ASSUME FieldsOK, NEW t \in Seq(Seen), Told(t), NEW m \in Messages
    PROVE  /\ told[m] > 0 \/ m \in In(t) => told'[m] > 0
           /\ m \notin In(t) => told'[m] = told[m]
<1>1. /\ told'[m] = told[m] + Times(t, m) /\ told[m] \in Nat
      /\ Times(t, m) \in Nat /\ (Times(t, m) > 0 <=> m \in In(t))
  BY ToldType, CountsWhatIsIn DEF FieldsOK
<1> QED
  BY <1>1

\* Between two files the poll task is before the next one.
LEMMA IdleIsNew == HandInv /\ hand.cmd # "say" /\ phase # "written" => phase = "new"
BY DEF HandInv, TypeOK, FieldsOK

LEMMA HandStep == HandInv /\ [Next]_vars => HandInv'
<1> SUFFICES ASSUME HandInv, [Next]_vars
             PROVE  TurnInHand' /\ WrittenWhole'
  BY TypeStep DEF HandInv
<1> USE DEF TurnInHand, WrittenWhole
<1>t. FieldsOK /\ TurnInHand /\ WrittenWhole
  BY DEF HandInv, TypeOK
<1>1. CASE Free
  BY <1>1 DEF Free
<1>2. CASE UNCHANGED <<hand, phase, turn, recorded, session, artifacts>>
  BY <1>2, <1>t
<1>3. CASE Tick \/ UNCHANGED vars
  BY <1>2, <1>3 DEF Tick, vars, thread, files, poll
<1>4. CASE \/ \E k \in Kinds : Arrives(k)
           \/ \E c \in CommandItems : Commanded(c)
  <2>1. hand = NoItem /\ UNCHANGED <<phase, turn>>
    BY <1>4 DEF Arrives, Commanded, Idle
  <2>2. phase = "new"
    BY <1>t, <2>1 DEF FieldsOK, NoItem
  <2> QED
    BY <1>t, <2>1, <2>2
<1>5. CASE Duplicate \/ Drops \/ Unlinks \/ Skips \/ HandsOver \/ SetsMode \/ Leaves \/ Joins \/ Opens
           \/ CloseRefused \/ CloseSaves \/ CloseFails
  BY <1>1, <1>5 DEF Duplicate, Drops, Unlinks, Skips, HandsOver, SetsMode, Leaves, Joins, Opens,
                    CloseRefused, CloseSaves, CloseFails
<1>6. CASE Buffers \/ Collects
  <2>1. phase = "new" /\ phase' = "unlink" /\ turn' = turn
    BY <1>6 DEF Buffers, Collects, Fresh, New
  <2> QED
    BY <1>t, <2>1
<1>7. CASE Flushes \/ Notes \/ Passes
  <2>1. hand.cmd = "say" /\ phase' = "gate" /\ hand' = hand
    BY <1>7 DEF Flushes, Notes, Passes, Fresh, New
  <2>2. hand.id \in Seen
    BY <1>t, <2>1, SayInHand
  <2>3. turn' = Append(Ids(buffer), hand.id) \/ turn' = <<hand.id>>
    BY <1>7 DEF Flushes, Notes, Passes
  <2>4. hand.id \in In(turn')
    BY <1>t, <2>2, <2>3, BufferIds, InOne
  <2> QED
    BY <2>1, <2>4
<1>8. CASE Records
  BY <1>8, <1>t DEF Records
<1>9. CASE TimerFlushes \/ TimerLoses \/ TimerHandsOver \/ TimerRaises
  <2>1. UNCHANGED <<hand, phase, turn, recorded, session, artifacts>>
    BY <1>9 DEF TimerFlushes, TimerLoses, TimerHandsOver, TimerRaises, thread, files, poll
  <2> QED
    BY <1>2, <2>1
<1>10. CASE CloseWrites
  <2>1. /\ phase = "new" /\ phase' = "written" /\ turn' = turn
        /\ session # Closed /\ session' = session /\ Writes(session.msgs)
    BY <1>10 DEF CloseWrites, thread
  <2>2. session.name \in Names /\ artifacts' = [artifacts EXCEPT ![session.name] = session.msgs]
    <3>1. session.msgs \in Seq(Seen)
      BY <1>t, <2>1 DEF FieldsOK
    <3> QED
      BY <1>t, <2>1, <3>1, WritesType
  <2> QED
    BY <1>t, <2>1, <2>2 DEF FieldsOK
<1>11. CASE Raises \/ Crashes
  BY <1>11 DEF Raises, Crashes
<1> QED
  BY <1>3, <1>4, <1>5, <1>6, <1>7, <1>8, <1>9, <1>10, <1>11
  DEF Next, MessageStep, CommandStep, Timer

\* The reasons and the tellings of one step, for messages that have arrived.
Touches(ms) ==
    \A m \in Messages \ ms : told'[m] = told[m] /\ gone'[m] = gone[m]

\* What the poll task, the timer and a command have in hand has arrived.
LEMMA ListsHaveArrived ==
    ASSUME FieldsOK
    PROVE  /\ In(turn) \subseteq Seen /\ In(timerTurn) \subseteq Seen
           /\ session # Closed => In(session.msgs) \subseteq Seen
           /\ session # Closed => In(artifacts[session.name]) \subseteq Seen
           /\ recorded \subseteq Seen
           /\ hand.cmd = "say" => hand.id \in Seen
BY InSeen, SayInHand DEF FieldsOK

\* Only what has arrived is told or gets a reason.
LEMMA OnlyArrivedTouched ==
    ASSUME FieldsOK, [Next]_vars
    PROVE  Touches(Seen)
<1> USE DEF Touches
<1>a. /\ In(turn) \subseteq Seen /\ In(timerTurn) \subseteq Seen
      /\ session # Closed => In(session.msgs) \subseteq Seen
      /\ session # Closed => In(artifacts[session.name]) \subseteq Seen
      /\ hand.cmd = "say" => hand.id \in Seen
  BY ListsHaveArrived
<1>g. ASSUME NEW ms \in SUBSET Seen, NEW why, Gone(ms, why), told' = told
      PROVE  Touches(Seen)
  BY <1>g, GoneAdds
<1>s. ASSUME NEW t \in Seq(Seen), Told(t), gone' = gone
      PROVE  Touches(Seen)
  BY <1>s, ToldAdds, InSeen
<1>0. CASE UNCHANGED history
  BY <1>0 DEF history
<1>1. CASE Drops
  <2>1. Gone({hand.id}, "mode") /\ told' = told /\ {hand.id} \in SUBSET Seen
    BY <1>1, <1>a DEF Drops, Fresh, New
  <2> QED
    BY <2>1, <1>g
<1>2. CASE Skips \/ Raises
  <2>1. told' = told /\ In(turn) \in SUBSET Seen
        /\ \E why \in Reasons : Gone(In(turn), why)
    BY <1>2, <1>a DEF Skips, Raises, Reasons
  <2> QED
    BY <2>1, <1>g
<1>3. CASE TimerRaises
  <2>1. told' = told /\ In(timerTurn) \in SUBSET Seen /\ Gone(In(timerTurn), "raised")
    BY <1>3, <1>a DEF TimerRaises
  <2> QED
    BY <2>1, <1>g
<1>11. CASE TimerLoses
  <2>1. told' = told /\ In(Ids(buffer)) \in SUBSET Seen /\ Gone(In(Ids(buffer)), "nobody")
    BY <1>11, BufferIds, InSeen DEF TimerLoses
  <2> QED
    BY <2>1, <1>g
<1>4. CASE Crashes
  <2>1. told' = told /\ In(turn) \cup In(timerTurn) \in SUBSET Seen
        /\ Gone(In(turn) \cup In(timerTurn), "killed")
    BY <1>4, <1>a DEF Crashes
  <2> QED
    BY <2>1, <1>g
<1>5. CASE HandsOver
  BY <1>5, <1>s DEF HandsOver, FieldsOK
<1>6. CASE TimerHandsOver
  BY <1>6, <1>s DEF TimerHandsOver, FieldsOK
<1>7. CASE Opens
  <2>1. CASE session = Closed
    BY <1>7, <2>1 DEF Opens
  <2>2. CASE session # Closed
    <3>1. told' = told /\ In(session.msgs) \in SUBSET Seen /\ Gone(In(session.msgs), "reopened")
      BY <1>7, <1>a, <2>2 DEF Opens
    <3> QED
      BY <3>1, <1>g
  <2> QED
    BY <2>1, <2>2
<1>8. CASE CloseWrites \/ CloseFails
  <2>1. session # Closed /\ told' = told /\ \E msgs : Writes(msgs)
    BY <1>8 DEF CloseWrites, CloseFails
  <2>2. PICK msgs : Writes(msgs)
    BY <2>1
  <2>3. In(artifacts[session.name]) \ In(msgs) \in SUBSET Seen
    BY <1>a, <2>1
  <2> QED
    BY <2>1, <2>2, <2>3, <1>g DEF Writes
<1>9. CASE \/ Tick \/ Duplicate \/ Buffers \/ Flushes \/ Notes \/ Passes \/ Collects
           \/ Unlinks \/ Records \/ TimerFlushes \/ SetsMode \/ Leaves \/ Joins \/ CloseRefused \/ CloseSaves
           \/ UNCHANGED vars
  BY <1>0, <1>9
  DEF Tick, Duplicate, Buffers, Flushes, Notes, Passes, Collects, Unlinks, Records,
      TimerFlushes, SetsMode, Leaves, Joins, CloseRefused, CloseSaves, vars
<1>10. CASE \/ \E k \in Kinds : Arrives(k)
            \/ \E c \in CommandItems : Commanded(c)
  BY <1>0, <1>10 DEF Arrives, Commanded
<1> QED
  BY <1>1, <1>2, <1>3, <1>4, <1>5, <1>6, <1>7, <1>8, <1>9, <1>10, <1>11
  DEF Next, MessageStep, CommandStep, Timer

\* Messages arrive one by one, and none is forgotten.
LEMMA SeenGrows ==
    ASSUME FieldsOK, [Next]_vars
    PROVE  /\ Seen \subseteq Seen' /\ \A m \in Seen : kinds'[m] = kinds[m]
           /\ (\E k \in Kinds : Arrives(k)) \/ Seen' = Seen
           /\ \A k \in Kinds : Arrives(k) => Seen' = Seen \cup {Len(kinds) + 1}
<1>1. kinds \in Seq(Kinds) /\ Len(kinds) \in Nat
  BY SeenType DEF FieldsOK
<1>2. ASSUME NEW k \in Kinds, Arrives(k)
      PROVE  /\ Seen' = Seen \cup {Len(kinds) + 1}
             /\ \A m \in Seen : kinds'[m] = kinds[m]
  <2>1. kinds' = Append(kinds, k)
    BY <1>2 DEF Arrives
  <2>2. Len(kinds') = Len(kinds) + 1 /\ \A m \in 1..Len(kinds) : kinds'[m] = kinds[m]
    BY <1>1, <2>1, AppendProperties
  <2> QED
    BY <1>1, <2>2 DEF Seen
<1>3. CASE kinds' = kinds
  BY <1>2, <1>3 DEF Seen
<1>4. (\E k \in Kinds : Arrives(k)) \/ kinds' = kinds
  <2>1. Tick \/ (\E c \in CommandItems : Commanded(c)) \/ UNCHANGED vars => kinds' = kinds
    BY DEF Tick, Commanded, vars
  <2>2. MessageStep => kinds' = kinds
    BY DEF MessageStep, Duplicate, Drops, Buffers, Flushes, Notes, Passes, Collects,
           Unlinks, Skips, Records, HandsOver
  <2>3. CommandStep \/ CloseFails \/ Timer \/ TimerRaises \/ Raises \/ Crashes
            => kinds' = kinds
    BY DEF CommandStep, SetsMode, Leaves, Joins, Opens, CloseRefused, CloseWrites, CloseSaves, CloseFails,
           Timer, TimerFlushes, TimerLoses, TimerHandsOver, TimerRaises, Raises, Crashes
  <2> QED
    BY <2>1, <2>2, <2>3 DEF Next
<1> QED
  BY <1>2, <1>3, <1>4

LEMMA NotYetStep == FieldsOK /\ NotYet /\ [Next]_vars => NotYet'
BY OnlyArrivedTouched, SeenGrows DEF NotYet, Touches, Messages

\* The gate gives a reason only to bundles without a mention.
LEMMA GateStep ==
    FieldsOK /\ NotYet /\ MentionPassesTheGate /\ [Next]_vars => MentionPassesTheGate'
<1> SUFFICES ASSUME FieldsOK, NotYet, MentionPassesTheGate, [Next]_vars,
                    NEW m \in Seen', Named(m)'
             PROVE  "gate" \notin gone'[m]
  BY DEF MentionPassesTheGate
<1>m. Seen \subseteq Messages
  BY SeenType
<1>0. CASE m \notin Seen
  <2>1. PICK k \in Kinds : Arrives(k)
    BY <1>0, SeenGrows
  <2>2. m \in Messages
    <3>1. Len(kinds) < MaxMessages /\ m = Len(kinds) + 1
      BY <1>0, <2>1, SeenGrows DEF Arrives
    <3> QED
      BY <3>1, SeenType, DigestAssumption DEF Messages
  <2> QED
    BY <1>0, <2>1, <2>2 DEF Arrives, history, NotYet
<1>1. ASSUME m \in Seen
      PROVE  "gate" \notin gone'[m]
  <2>0. Named(m) /\ m \in Messages /\ "gate" \notin gone[m]
    BY <1>1, <1>m, SeenGrows DEF Named, MentionPassesTheGate
  <2>g. ASSUME NEW ms, NEW why, Gone(ms, why), why # "gate" \/ m \notin ms
        PROVE  "gate" \notin gone'[m]
    BY <2>0, <2>g, GoneAdds
  <2>1. CASE gone' = gone
    BY <2>0, <2>1
  <2>2. CASE Skips
    BY <2>0, <2>2, <2>g DEF Skips, Gated
  <2>3. CASE Drops \/ Raises \/ TimerLoses \/ TimerRaises \/ Crashes
    BY <2>3, <2>g DEF Drops, Raises, TimerLoses, TimerRaises, Crashes
  <2>4. CASE Opens
    BY <2>1, <2>4, <2>g DEF Opens
  <2>5. CASE CloseWrites \/ CloseFails
    BY <2>5, <2>g DEF CloseWrites, CloseFails, Writes
  <2>6. CASE \/ Tick \/ Duplicate \/ Buffers \/ Flushes \/ Notes \/ Passes \/ Collects
             \/ Unlinks \/ Records \/ TimerFlushes \/ SetsMode \/ Leaves \/ Joins \/ CloseRefused
             \/ CloseSaves \/ HandsOver \/ TimerHandsOver \/ UNCHANGED vars
    BY <2>1, <2>6
    DEF Tick, Duplicate, Buffers, Flushes, Notes, Passes, Collects, Unlinks, Records,
        TimerFlushes, SetsMode, Leaves, Joins, CloseRefused, CloseSaves, HandsOver, TimerHandsOver,
        vars, history
  <2>7. CASE \/ \E k \in Kinds : Arrives(k)
             \/ \E c \in CommandItems : Commanded(c)
    BY <2>1, <2>7 DEF Arrives, Commanded, history
  <2> QED
    BY <2>2, <2>3, <2>4, <2>5, <2>6, <2>7 DEF Next, MessageStep, CommandStep, Timer
<1> QED
  BY <1>0, <1>1

\* A message that is not in the inbox alone never is again.
LEMMA StaysElsewhere ==
    ASSUME HandInv, [Next]_vars, NEW m \in Seen, Elsewhere(m)
    PROVE  Elsewhere(m)'
<1>t. /\ FieldsOK /\ TurnInHand /\ WrittenWhole /\ m \in Messages
      /\ turn \in Seq(Seen) /\ timerTurn \in Seq(Seen)
  BY SeenType DEF HandInv, TypeOK, FieldsOK
<1> USE DEF Elsewhere, Buffered, Bundled, Collected
<1>r. gone[m] # {} => gone'[m] # {}
  <2>1. ASSUME NEW ms, NEW why, Gone(ms, why)
        PROVE  gone[m] # {} => gone'[m] # {}
    BY <1>t, <2>1, GoneAdds
  <2>2. gone' = gone \/ \E ms, why : Gone(ms, why)
    <3>1. MessageStep => gone' = gone \/ \E ms, why : Gone(ms, why)
      BY DEF MessageStep, Duplicate, Drops, Buffers, Flushes, Notes, Passes, Collects,
             Unlinks, Skips, Records, HandsOver, history
    <3>2. CommandStep \/ CloseFails => gone' = gone \/ \E ms, why : Gone(ms, why)
      BY DEF CommandStep, SetsMode, Leaves, Joins, Opens, CloseRefused, CloseWrites, CloseSaves,
             CloseFails, Writes, history
    <3>3. Timer \/ TimerRaises \/ Raises \/ Crashes
              => gone' = gone \/ \E ms, why : Gone(ms, why)
      BY DEF Timer, TimerFlushes, TimerLoses, TimerHandsOver, TimerRaises, Raises, Crashes, history
    <3>4. Tick \/ (\E k \in Kinds : Arrives(k)) \/ (\E c \in CommandItems : Commanded(c))
              \/ UNCHANGED vars => gone' = gone
      BY DEF Tick, Arrives, Commanded, vars, history
    <3> QED
      BY <3>1, <3>2, <3>3, <3>4 DEF Next
  <2> QED
    BY <2>1, <2>2
<1>o. told[m] > 0 => told'[m] > 0
  <2>1. CASE told' = told
    BY <2>1
  <2>2. CASE HandsOver \/ TimerHandsOver
    BY <1>t, <2>2, ToldAdds DEF HandsOver, TimerHandsOver
  <2>3. told' = told \/ HandsOver \/ TimerHandsOver
    <3>1. MessageStep => told' = told \/ HandsOver
      BY DEF MessageStep, Duplicate, Drops, Buffers, Flushes, Notes, Passes, Collects,
             Unlinks, Skips, Records, history
    <3>2. CommandStep \/ CloseFails => told' = told
      BY DEF CommandStep, SetsMode, Leaves, Joins, Opens, CloseRefused, CloseWrites, CloseSaves,
             CloseFails, history
    <3>3. Timer \/ TimerRaises \/ Raises \/ Crashes => told' = told \/ TimerHandsOver
      BY DEF Timer, TimerFlushes, TimerLoses, TimerRaises, Raises, Crashes, history
    <3>4. Tick \/ (\E k \in Kinds : Arrives(k)) \/ (\E c \in CommandItems : Commanded(c))
              \/ UNCHANGED vars => told' = told
      BY DEF Tick, Arrives, Commanded, vars, history
    <3> QED
      BY <3>1, <3>2, <3>3, <3>4 DEF Next
  <2> QED
    BY <2>1, <2>2, <2>3
<1>e. In(<<>>) = {}
  BY NothingIn
\* The message is in one of the lists.
<1>1. CASE told[m] > 0 \/ gone[m] # {}
  BY <1>1, <1>r, <1>o
<1>2. ASSUME Buffered(m) \/ Bundled(m) \/ Collected(m)
      PROVE  Elsewhere(m)'
  <2>0. CASE UNCHANGED <<buffer, session, artifacts, turn, timerTurn>>
    BY <1>2, <2>0
  <2>1. CASE Tick
    <3>1. Ids(buffer') = Ids(buffer) /\ UNCHANGED <<session, artifacts, turn, timerTurn>>
      <4>1. buffer \in Seq(Items)
        BY <1>t DEF FieldsOK, Items
      <4>2. Ids(Aged(buffer)) = Ids(buffer)
        BY <4>1, AgedBuffer
      <4> QED
        BY <2>1, <4>2 DEF Tick, files, poll
    <3> QED
      BY <1>2, <3>1
  <2>2. CASE \/ \E k \in Kinds : Arrives(k)
             \/ \E c \in CommandItems : Commanded(c)
             \/ UNCHANGED vars
    <3>1. UNCHANGED <<buffer, session, artifacts, turn, timerTurn>>
      BY <2>2 DEF Arrives, Commanded, vars, thread, files, poll
    <3> QED
      BY <2>0, <3>1
  <2>3. CASE Duplicate \/ Unlinks \/ SetsMode \/ Leaves \/ Joins \/ CloseRefused \/ Drops
    <3>1. phase \in {"new", "unlink"}
      BY <2>3, <1>t DEF Duplicate, Unlinks, SetsMode, Leaves, Joins, CloseRefused, Drops, Fresh, New, FieldsOK
    <3>2. UNCHANGED <<buffer, session, artifacts, timerTurn>> /\ turn = <<>>
      BY <2>3, <3>1, <1>t
      DEF Duplicate, Unlinks, SetsMode, Leaves, Joins, CloseRefused, Drops, TurnInHand, thread, files
    <3> QED
      BY <1>2, <1>e, <3>2
  <2>4. CASE Buffers \/ Notes
    <3>1. /\ hand.id \in Seen /\ buffer' = Append(buffer, Entry(hand.id)) /\ turn = <<>>
          /\ UNCHANGED <<session, artifacts, timerTurn>>
      BY <2>4, <1>t, ListsHaveArrived DEF Buffers, Notes, Fresh, New, TurnInHand, files
    <3>2. In(Ids(buffer)) \subseteq In(Ids(buffer'))
      BY <1>t, <3>1, BufferIds
    <3> QED
      BY <1>2, <1>e, <3>1, <3>2
  <2>5. CASE Flushes
    <3>1. /\ hand.id \in Seen /\ turn' = Append(Ids(buffer), hand.id) /\ turn = <<>>
          /\ UNCHANGED <<session, artifacts, timerTurn>>
      BY <2>5, <1>t, ListsHaveArrived DEF Flushes, Fresh, New, TurnInHand, files
    <3>2. In(Ids(buffer)) \subseteq In(turn')
      BY <1>t, <3>1, BufferIds
    <3> QED
      BY <1>2, <1>e, <3>1, <3>2
  <2>6. CASE Passes
    <3>1. turn = <<>> /\ UNCHANGED <<buffer, session, artifacts, timerTurn>>
      BY <2>6, <1>t DEF Passes, Fresh, New, TurnInHand, thread, files
    <3> QED
      BY <1>2, <1>e, <3>1
  <2>7. CASE Collects
    <3>1. /\ session # Closed /\ session' = [session EXCEPT !.msgs = Append(@, hand.id)]
          /\ hand.id \in Seen /\ UNCHANGED <<buffer, artifacts, turn, timerTurn>>
      BY <2>7, <1>t, ListsHaveArrived DEF Collects, Fresh, New, files
    <3>2. session \in [name : Names, msgs : Seq(Seen)]
      BY <1>t, <3>1 DEF FieldsOK
    <3>3. session'.msgs = Append(session.msgs, hand.id) /\ session' # Closed
      BY <3>1, <3>2 DEF Closed
    <3>4. In(session.msgs) \subseteq In(session'.msgs)
      BY <3>1, <3>2, <3>3, OneMore
    <3> QED
      BY <1>2, <3>1, <3>3, <3>4
  <2>8. CASE Skips \/ Raises
    <3>1. /\ UNCHANGED <<buffer, session, artifacts, timerTurn>>
          /\ \E why : Gone(In(turn), why)
      BY <2>8 DEF Skips, Raises, thread, files
    <3>2. m \in In(turn) => gone'[m] # {}
      BY <1>t, <3>1, GoneAdds
    <3> QED
      BY <1>2, <3>1, <3>2
  <2>9. CASE Records
    <3>1. UNCHANGED <<buffer, session, artifacts, turn, timerTurn>>
      BY <2>9 DEF Records, thread
    <3> QED
      BY <2>0, <3>1
  <2>10. CASE HandsOver
    <3>1. UNCHANGED <<buffer, session, artifacts, timerTurn>> /\ Told(turn)
      BY <2>10 DEF HandsOver, thread, files
    <3>2. m \in In(turn) => told'[m] > 0
      BY <1>t, <3>1, ToldAdds
    <3> QED
      BY <1>2, <3>1, <3>2
  <2>11. CASE TimerFlushes
    <3>1. /\ timerTurn = <<>> /\ timerTurn' = Ids(buffer)
          /\ UNCHANGED <<session, artifacts, turn>>
      BY <2>11 DEF TimerFlushes, files, poll
    <3> QED
      BY <1>2, <1>e, <3>1
  <2>18. CASE TimerLoses
    <3>1. UNCHANGED <<session, artifacts, turn, timerTurn>> /\ Gone(In(Ids(buffer)), "nobody")
      BY <2>18 DEF TimerLoses, files, poll
    <3>2. m \in In(Ids(buffer)) => gone'[m] # {}
      BY <1>t, <3>1, GoneAdds
    <3> QED
      BY <1>2, <3>1, <3>2
  <2>12. CASE TimerHandsOver
    <3>1. UNCHANGED <<buffer, session, artifacts, turn>> /\ Told(timerTurn)
      BY <2>12 DEF TimerHandsOver, thread, files, poll
    <3>2. m \in In(timerTurn) => told'[m] > 0
      BY <1>t, <3>1, ToldAdds
    <3> QED
      BY <1>2, <3>1, <3>2
  <2>13. CASE TimerRaises
    <3>1. UNCHANGED <<buffer, session, artifacts, turn>> /\ Gone(In(timerTurn), "raised")
      BY <2>13 DEF TimerRaises, thread, files, poll
    <3>2. m \in In(timerTurn) => gone'[m] # {}
      BY <1>t, <3>1, GoneAdds
    <3> QED
      BY <1>2, <3>1, <3>2
  <2>14. CASE Crashes
    <3>1. /\ UNCHANGED <<buffer, session, artifacts>>
          /\ Gone(In(turn) \cup In(timerTurn), "killed")
      BY <2>14 DEF Crashes, thread, files
    <3>2. m \in In(turn) \cup In(timerTurn) => gone'[m] # {}
      BY <1>t, <3>1, GoneAdds
    <3> QED
      BY <1>2, <3>1, <3>2
  <2>15. CASE Opens
    <3>1. UNCHANGED <<buffer, artifacts, timerTurn>> /\ hand.cmd = "open"
      BY <2>15 DEF Opens, files
    <3>2. turn = <<>>
      BY <1>t, <3>1 DEF FieldsOK, TurnInHand
    <3>3. session # Closed => Gone(In(session.msgs), "reopened")
      BY <2>15 DEF Opens
    <3>4. session # Closed /\ m \in In(session.msgs) => gone'[m] # {}
      BY <1>t, <3>3, GoneAdds
    <3> QED
      BY <1>2, <1>e, <3>1, <3>2, <3>4
  <2>16. CASE CloseSaves
    <3>1. phase = "written" /\ UNCHANGED <<buffer, artifacts, timerTurn>>
      BY <2>16 DEF CloseSaves, files
    <3>2. turn = <<>> /\ artifacts[session.name] = session.msgs
      BY <1>t, <3>1 DEF TurnInHand, WrittenWhole
    <3>3. session # Closed => session.name \in Names
      BY <1>t DEF FieldsOK
    <3> QED
      BY <1>2, <1>e, <3>1, <3>2, <3>3
  <2>17. CASE CloseWrites \/ CloseFails
    <3>1. /\ session # Closed /\ phase = "new"
          /\ UNCHANGED <<buffer, session, timerTurn>>
          /\ \E msgs \in Seq(Seen) : Writes(msgs)
      <4>1. session # Closed => /\ session.msgs \in Seq(Seen) /\ session.name \in Names
                                /\ artifacts[session.name] \in Seq(Seen)
                                /\ <<>> \in Seq(Seen)
        BY <1>t, EmptySeq DEF FieldsOK
      <4> QED
        BY <2>17, <4>1 DEF CloseWrites, CloseFails, thread
    <3>2. PICK msgs \in Seq(Seen) : Writes(msgs)
      BY <3>1
    <3>3. turn = <<>>
      BY <1>t, <3>1 DEF TurnInHand
    <3>4. artifacts' = [artifacts EXCEPT ![session.name] = msgs] /\ session.name \in Names
      BY <1>t, <3>1, <3>2, WritesType
    <3>5. m \in In(artifacts[session.name]) => m \in In(msgs) \/ gone'[m] # {}
      BY <1>t, <3>2, GoneAdds DEF Writes
    <3>6. artifacts \in [Names -> Seq(Seen)]
      BY <1>t DEF FieldsOK
    <3>7. \A n \in Names : m \in In(artifacts[n]) =>
              gone'[m] # {} \/ \E k \in Names : m \in In(artifacts'[k])
      BY <3>4, <3>5, <3>6
    <3> QED
      BY <1>2, <1>e, <3>1, <3>3, <3>7
  <2> QED
    BY <2>1, <2>2, <2>3, <2>4, <2>5, <2>6, <2>7, <2>8, <2>9, <2>10, <2>11, <2>12, <2>13,
       <2>14, <2>15, <2>16, <2>17, <2>18
    DEF Next, MessageStep, CommandStep, Timer
<1> QED
  BY <1>1, <1>2

\* The fresh message in hand is taken somewhere, or is fresh still.
LEMMA FreshIsTaken ==
    ASSUME HandInv, [Next]_vars, NEW m \in Seen,
           Waiting(m), phase = "new", m \notin recorded
    PROVE  Elsewhere(m)' \/ (Waiting(m)' /\ phase' = "new" /\ m \notin recorded')
<1> USE DEF Elsewhere, Buffered, Bundled, Collected
<1>t. /\ FieldsOK /\ TurnInHand /\ m \in Messages
      /\ hand.cmd = "say" /\ hand.id = m /\ hand # NoItem
  BY SeenType, NoMessageWaits DEF HandInv, TypeOK, Waiting
<1>1. CASE UNCHANGED <<hand, phase, recorded>>
  BY <1>1, <1>t DEF Waiting
<1>2. CASE Tick \/ Timer \/ TimerRaises \/ UNCHANGED vars
  <2>1. UNCHANGED <<hand, phase, recorded>>
    BY <1>2 DEF Tick, Timer, TimerFlushes, TimerLoses, TimerHandsOver, TimerRaises, vars, poll, files
  <2> QED
    BY <1>1, <2>1
<1>3. ~ \/ \E k \in Kinds : Arrives(k)
        \/ \E c \in CommandItems : Commanded(c)
        \/ CommandStep \/ CloseFails
  BY <1>t DEF Arrives, Commanded, Idle, CommandStep, SetsMode, Leaves, Joins, Opens, CloseRefused,
              CloseWrites, CloseSaves, CloseFails
<1>4. ~(Duplicate \/ Unlinks \/ Skips \/ Records \/ HandsOver \/ Raises)
  BY <1>t DEF Duplicate, Unlinks, Skips, Records, HandsOver, Raises
<1>5. CASE Drops
  BY <1>5, <1>t, GoneAdds DEF Drops
<1>6. CASE Buffers \/ Notes
  BY <1>6, <1>t, BufferIds DEF Buffers, Notes
<1>7. CASE Flushes
  BY <1>7, <1>t, BufferIds DEF Flushes
<1>8. CASE Passes
  BY <1>8, <1>t, InOne DEF Passes
<1>9. CASE Collects
  <2>1. /\ session # Closed /\ session' = [session EXCEPT !.msgs = Append(@, m)]
    BY <1>9, <1>t DEF Collects
  <2>2. session \in [name : Names, msgs : Seq(Seen)]
    BY <1>t, <2>1 DEF FieldsOK
  <2>3. session'.msgs = Append(session.msgs, m) /\ session' # Closed
    BY <2>1, <2>2 DEF Closed
  <2>4. m \in In(session'.msgs)
    BY <2>2, <2>3, OneMore
  <2> QED
    BY <2>3, <2>4
<1>10. CASE Crashes
  BY <1>1, <1>10, <1>t DEF Crashes, files
<1> QED
  BY <1>2, <1>3, <1>4, <1>5, <1>6, <1>7, <1>8, <1>9, <1>10
  DEF Next, MessageStep

LEMMA AccountStep == AccountInv /\ [Next]_vars => AccountInv'
<1> SUFFICES ASSUME AccountInv, [Next]_vars
             PROVE  OnlyFreshIsAlone'
  BY HandStep, NotYetStep, GateStep DEF AccountInv, HandInv, TypeOK
<1>t. HandInv /\ FieldsOK /\ OnlyFreshIsAlone
  BY DEF AccountInv, HandInv, TypeOK
<1> SUFFICES ASSUME NEW m \in Seen'
             PROVE  Elsewhere(m)' \/ (Waiting(m)' /\ phase' = "new" /\ m \notin recorded')
  BY DEF OnlyFreshIsAlone
<1>1. CASE m \in Seen
  BY <1>1, <1>t, StaysElsewhere, FreshIsTaken DEF OnlyFreshIsAlone
<1>2. CASE m \notin Seen
  <2>1. PICK k \in Kinds : Arrives(k)
    BY <1>2, <1>t, SeenGrows
  <2>2. m = Len(kinds) + 1
    BY <1>2, <1>t, <2>1, SeenGrows
  <2>3. hand' = [cmd |-> "say", id |-> m] /\ hand = NoItem /\ phase' = phase
        /\ recorded' = recorded
    BY <2>1, <2>2 DEF Arrives, Idle, files
  <2>4. phase = "new"
    BY <1>t, <2>3 DEF FieldsOK, NoItem
  <2>5. m \notin recorded
    BY <1>2, <1>t DEF FieldsOK
  <2> QED
    BY <2>3, <2>4, <2>5 DEF Waiting
<1> QED
  BY <1>1, <1>2

LEMMA InitAccount == Init => AccountInv
<1> SUFFICES ASSUME Init PROVE AccountInv
  OBVIOUS
<1>1. Seen = {}
  BY EmptySeq DEF Init, Seen
<1>2. TypeOK
  BY InitType
<1>3. TurnInHand /\ WrittenWhole
  BY DEF Init, TurnInHand, WrittenWhole
<1>4. OnlyFreshIsAlone /\ NotYet /\ MentionPassesTheGate
  BY <1>1 DEF Init, OnlyFreshIsAlone, NotYet, MentionPassesTheGate
<1> QED
  BY <1>2, <1>3, <1>4 DEF AccountInv, HandInv

LEMMA AccountInvariant == Spec => []AccountInv
BY InitAccount, AccountStep, PTL DEF Spec

\* No message vanishes between the inbox, the buffer, a bundle, the session, the
\* minutes and the agent without one of the reasons.
THEOREM EverythingAccounted == Spec => []NothingUnaccounted
<1>1. AccountInv => NothingUnaccounted
  BY DEF AccountInv, OnlyFreshIsAlone, Elsewhere, NothingUnaccounted
<1> QED
  BY <1>1, AccountInvariant, PTL

\* The mention gate never takes a message that mentions the agent, also not with
\* the bundle of a later one.
THEOREM GateKeepsMentions == Spec => []MentionPassesTheGate
<1>1. AccountInv => MentionPassesTheGate
  BY DEF AccountInv
<1> QED
  BY <1>1, AccountInvariant, PTL

----------------------------------------------------------------------------
(* How often the agent is told of a message.  A message is counted where it *)
(* is a turn, or is going to be one as things are, and the one in hand once *)
(* more for each way it has still to become one.                            *)

Turns(m) ==
    told[m] + Times(turn, m) + Times(timerTurn, m) + Times(Ids(buffer), m)

\* Before its mode stage a message may become a turn and join the buffer; when
\* it has joined, only a kill lets it be read once more.
Allowed(m) ==
    IF ~Waiting(m) \/ m \in recorded THEN 0
    ELSE CASE phase = "new" -> 2 [] phase = "unlink" -> 1 [] OTHER -> 0

TurnsBounded == \A m \in Seen : Turns(m) + Allowed(m) <= 2 + crashes

\* A message that is no turn and is not going to be one.
Untold(m) == told[m] = 0 /\ ~Bundled(m) /\ ~Buffered(m)

Minuting == mode = "protokoll" /\ session # Closed

\* The minutes and the turns have no message in common; the message in hand,
\* which a kill may have left with a trace, goes where it has been before.
MinutesApart ==
    \A m \in Seen :
        /\ Collected(m) => Untold(m)
        /\ Waiting(m) => IF Minuting THEN Untold(m) ELSE ~Collected(m)

ToldInv == AccountInv /\ TurnsBounded /\ MinutesApart

LEMMA NoIds == Ids(<<>>) = <<>>
<1>1. <<>> \in Seq({[id |-> 1]}) /\ \A r \in {[id |-> 1]} : r.id \in {1}
  BY EmptySeq
<1>2. Ids(<<>>) \in Seq({1}) /\ Len(Ids(<<>>)) = Len(<<>>)
  BY <1>1, IdsOf
<1> QED
  BY <1>2, EmptySeq

LEMMA TurnParts ==
    ASSUME FieldsOK, NEW m \in Messages
    PROVE  /\ told[m] \in Nat /\ Times(turn, m) \in Nat
           /\ Times(timerTurn, m) \in Nat /\ Times(Ids(buffer), m) \in Nat
           /\ Allowed(m) \in 0..2 /\ crashes \in Nat
BY BufferIds, CountsWhatIsIn DEF FieldsOK, Allowed

LEMMA CountsOne == \A e, m : Times(<<e>>, m) = IF e = m THEN 1 ELSE 0
<1> SUFFICES ASSUME NEW e, NEW m PROVE Times(<<e>>, m) = IF e = m THEN 1 ELSE 0
  OBVIOUS
<1>1. <<>> \in Seq({e}) /\ Append(<<>>, e) = <<e>> /\ Times(<<>>, m) = 0
  BY EmptySeq, NothingIn
<1>2. Times(Append(<<>>, e), m) = Times(<<>>, m) + (IF e = m THEN 1 ELSE 0)
  <2> DEFINE S == {e}
             s == <<>>
  <2>1. s \in Seq(S) /\ e \in S
    BY EmptySeq
  <2> HIDE DEF S, s
  <2>2. Times(Append(s, e), m) = Times(s, m) + (IF e = m THEN 1 ELSE 0)
    BY <2>1, OneMore
  <2> QED
    BY <2>2 DEF s
<1> QED
  BY <1>1, <1>2

\* The counts of a message that has arrived.
LEMMA TurnsStep ==
    ASSUME HandInv, [Next]_vars, NEW m \in Seen, Turns(m) + Allowed(m) <= 2 + crashes
    PROVE  Turns(m)' + Allowed(m)' <= 2 + crashes'
<1> DEFINE a == told[m]
           t == Times(turn, m)
           u == Times(timerTurn, m)
           b == Times(Ids(buffer), m)
<1>t. /\ FieldsOK /\ TurnInHand /\ m \in Messages
      /\ turn \in Seq(Seen) /\ timerTurn \in Seq(Seen) /\ Ids(buffer) \in Seq(Seen)
      /\ Times(<<>>, m) = 0 /\ Ids(<<>>) = <<>>
  BY SeenType, BufferIds, NothingIn, NoIds DEF HandInv, TypeOK, FieldsOK
<1>n. /\ a \in Nat /\ t \in Nat /\ u \in Nat /\ b \in Nat /\ crashes \in Nat
      /\ Allowed(m) \in 0..2 /\ a + t + u + b + Allowed(m) <= 2 + crashes
  BY <1>t, TurnParts DEF Turns
<1>p. Turns(m)' = told'[m] + Times(turn', m) + Times(timerTurn', m) + Times(Ids(buffer'), m)
  BY DEF Turns
<1>w. Waiting(m) => hand.cmd = "say" /\ hand.id = m /\ hand # NoItem
  BY NoMessageWaits DEF Waiting
<1>z. (hand'.cmd # "say" \/ hand'.id # m \/ phase' \in {"gate", "handing"}) => Allowed(m)' = 0
  BY DEF Allowed, Waiting
<1>s. UNCHANGED <<hand, phase, recorded>> => Allowed(m)' = Allowed(m)
  BY DEF Allowed, Waiting
<1>f. Free => hand'.cmd # "say" /\ turn' = <<>>
  BY NoMessageWaits DEF Free
<1>c. \A e \in Seen : Times(Append(Ids(buffer), e), m) = b + (IF e = m THEN 1 ELSE 0)
  BY <1>t, OneMore
<1>e. ASSUME hand.cmd = "say", phase = "new", hand.id \notin recorded
      PROVE  m = hand.id => Allowed(m) = 2
  BY <1>e, <1>t, SayInHand DEF Allowed
<1> HIDE DEF a, t, u, b
\* The message is where it was.
<1>1. CASE \/ Tick \/ UNCHANGED vars
           \/ \E k \in Kinds : Arrives(k)
           \/ \E d \in CommandItems : Commanded(d)
  <2>1. /\ UNCHANGED <<told, turn, timerTurn, crashes>> /\ Ids(buffer') = Ids(buffer)
    <3>1. CASE Tick
      <4>1. buffer \in Seq(Items)
        BY <1>t DEF FieldsOK, Items
      <4>2. Ids(Aged(buffer)) = Ids(buffer)
        BY <4>1, AgedBuffer
      <4> QED
        BY <3>1, <4>2 DEF Tick, poll, counts, history
    <3>2. CASE \/ \E k \in Kinds : Arrives(k)
               \/ \E d \in CommandItems : Commanded(d)
               \/ UNCHANGED vars
      BY <3>2 DEF Arrives, Commanded, vars, thread, poll, counts, history
    <3> QED
      BY <1>1, <3>1, <3>2
  <2>2. Allowed(m)' = Allowed(m) \/ Allowed(m)' = 0
    <3>1. CASE Tick \/ UNCHANGED vars
      BY <1>s, <3>1 DEF Tick, vars, poll, files
    <3>2. CASE \E k \in Kinds : Arrives(k)
      <4>1. hand'.id = Len(kinds) + 1 /\ Len(kinds) \in Nat /\ m \in 1..Len(kinds)
        BY <1>t, <3>2, SeenType DEF Arrives, Seen
      <4> QED
        BY <1>z, <4>1
    <3>3. CASE \E d \in CommandItems : Commanded(d)
      BY <1>z, <3>3 DEF Commanded, CommandItems
    <3> QED
      BY <1>1, <3>1, <3>2, <3>3
  <2>3. Turns(m)' = a + t + u + b
    BY <1>p, <2>1 DEF a, t, u, b
  <2> QED
    BY <1>n, <2>1, <2>2, <2>3
\* The file is done with, and with it the turn, if there is one.
<1>2. CASE \/ Duplicate \/ Drops \/ Unlinks \/ Skips \/ SetsMode \/ Leaves \/ Joins \/ Opens
           \/ CloseRefused \/ CloseFails \/ CloseSaves
  <2>1. Free /\ UNCHANGED <<told, timerTurn, buffer, crashes>>
    BY <1>2 DEF Duplicate, Drops, Unlinks, Skips, SetsMode, Leaves, Joins, Opens, CloseRefused,
                CloseFails, CloseSaves, thread, counts, history
  <2>2. Turns(m)' = a + 0 + u + b /\ Allowed(m)' = 0
    BY <1>p, <1>t, <1>f, <1>z, <2>1 DEF a, u, b
  <2> QED
    BY <1>n, <2>1, <2>2
<1>3. CASE Buffers
  <2>1. /\ Fresh /\ hand.id \in Seen /\ buffer' = Append(buffer, Entry(hand.id))
        /\ phase' = "unlink" /\ UNCHANGED <<told, turn, timerTurn, crashes, hand>>
    BY <1>3, <1>t, ListsHaveArrived DEF Buffers, Fresh, New, history, counts
  <2>2. Times(Ids(buffer'), m) = b + (IF hand.id = m THEN 1 ELSE 0)
    BY <1>c, <1>t, <2>1, BufferIds
  <2>3. Allowed(m)' <= 1 /\ Allowed(m)' \in Nat /\ (m # hand.id => Allowed(m)' = 0)
    BY <1>z, <2>1 DEF Allowed
  <2>4. Turns(m)' = a + t + u + (b + (IF hand.id = m THEN 1 ELSE 0))
    BY <1>p, <2>1, <2>2 DEF a, t, u
  <2>5. m = hand.id => Allowed(m) = 2
    BY <1>e, <2>1 DEF Fresh, New
  <2> QED
    BY <1>n, <2>1, <2>3, <2>4, <2>5
<1>4. CASE Flushes
  <2>1. /\ Fresh /\ hand.id \in Seen /\ buffer' = <<>> /\ turn' = Append(Ids(buffer), hand.id)
        /\ phase' = "gate" /\ UNCHANGED <<told, timerTurn, crashes>> /\ turn = <<>>
    BY <1>4, <1>t, ListsHaveArrived
    DEF Flushes, Flushed, Fresh, New, history, counts, TurnInHand
  <2>2. Times(turn', m) = b + (IF hand.id = m THEN 1 ELSE 0) /\ t = 0
    BY <1>c, <1>t, <2>1 DEF t
  <2>3. Times(Ids(buffer'), m) = 0 /\ Allowed(m)' = 0
    BY <1>t, <1>z, <2>1
  <2>4. Turns(m)' = a + (b + (IF hand.id = m THEN 1 ELSE 0)) + u + 0
    BY <1>p, <2>1, <2>2, <2>3 DEF a, u
  <2>5. m = hand.id => Allowed(m) = 2
    BY <1>e, <2>1 DEF Fresh, New
  <2> QED
    BY <1>n, <2>1, <2>2, <2>3, <2>4, <2>5
<1>5. CASE Notes
  <2>1. /\ Fresh /\ hand.id \in Seen /\ buffer' = Append(buffer, Entry(hand.id))
        /\ turn' = <<hand.id>> /\ phase' = "gate"
        /\ UNCHANGED <<told, timerTurn, crashes>> /\ turn = <<>>
    BY <1>5, <1>t, ListsHaveArrived DEF Notes, Fresh, New, history, counts, TurnInHand
  <2>2. /\ Times(Ids(buffer'), m) = b + (IF hand.id = m THEN 1 ELSE 0)
        /\ Times(turn', m) = (IF hand.id = m THEN 1 ELSE 0)
    BY <1>c, <1>t, <2>1, BufferIds, CountsOne
  <2>3. Allowed(m)' = 0 /\ t = 0
    BY <1>t, <1>z, <2>1 DEF t
  <2>4. Turns(m)' = a + (IF hand.id = m THEN 1 ELSE 0) + u
                      + (b + (IF hand.id = m THEN 1 ELSE 0))
    BY <1>p, <2>1, <2>2 DEF a, u
  <2>5. m = hand.id => Allowed(m) = 2
    BY <1>e, <2>1 DEF Fresh, New
  <2> QED
    BY <1>n, <2>1, <2>3, <2>4, <2>5
<1>6. CASE Passes
  <2>1. /\ Fresh /\ turn' = <<hand.id>> /\ phase' = "gate"
        /\ UNCHANGED <<buffer, told, timerTurn, crashes>> /\ turn = <<>>
    BY <1>6, <1>t DEF Passes, Fresh, New, thread, history, counts, TurnInHand
  <2>2. Times(turn', m) = (IF hand.id = m THEN 1 ELSE 0) /\ t = 0 /\ Allowed(m)' = 0
    BY <1>t, <1>z, <2>1, CountsOne DEF t
  <2>3. Turns(m)' = a + (IF hand.id = m THEN 1 ELSE 0) + u + b
    BY <1>p, <2>1, <2>2 DEF a, u, b
  <2>4. m = hand.id => Allowed(m) = 2
    BY <1>e, <2>1 DEF Fresh, New
  <2> QED
    BY <1>n, <2>1, <2>2, <2>3, <2>4
<1>7. CASE Collects
  <2>1. /\ Fresh /\ phase' = "unlink"
        /\ UNCHANGED <<buffer, told, turn, timerTurn, crashes, hand>>
    BY <1>7 DEF Collects, Fresh, New, history, counts
  <2>2. Allowed(m)' <= 1 /\ Allowed(m)' \in Nat /\ (m # hand.id => Allowed(m)' = 0)
    BY <1>z, <2>1 DEF Allowed
  <2>3. Turns(m)' = a + t + u + b
    BY <1>p, <2>1 DEF a, t, u, b
  <2>4. m = hand.id => Allowed(m) = 2
    BY <1>e, <2>1 DEF Fresh, New
  <2> QED
    BY <1>n, <2>1, <2>2, <2>3, <2>4
<1>8. CASE Records \/ CloseWrites
  <2>1. /\ UNCHANGED <<buffer, told, turn, timerTurn, crashes>>
        /\ phase' = "handing" \/ (hand' = hand /\ hand.cmd = "close")
    BY <1>8 DEF Records, CloseWrites, thread, history, counts
  <2>2. Turns(m)' = a + t + u + b /\ Allowed(m)' = 0
    BY <1>p, <1>z, <2>1 DEF a, t, u, b
  <2> QED
    BY <1>n, <2>1, <2>2
<1>9. CASE HandsOver
  <2>1. Free /\ Told(turn) /\ UNCHANGED <<timerTurn, buffer, crashes>>
    BY <1>9 DEF HandsOver, thread, counts
  <2>2. told'[m] = a + t
    BY <1>t, <2>1, ToldType DEF a, t
  <2>3. Turns(m)' = (a + t) + 0 + u + b /\ Allowed(m)' = 0
    BY <1>p, <1>t, <1>f, <1>z, <2>1, <2>2 DEF u, b
  <2> QED
    BY <1>n, <2>1, <2>3
<1>10. CASE Raises
  <2>1. /\ phase = "handing" /\ turn' = <<>>
        /\ UNCHANGED <<buffer, told, timerTurn, crashes, hand, recorded>>
    BY <1>10 DEF Raises, thread, files
  <2>2. hand.id \in recorded
    BY <1>t, <2>1 DEF TurnInHand
  <2>3. Allowed(m)' = 0
    BY <1>z, <2>1, <2>2 DEF Allowed
  <2>4. Turns(m)' = a + 0 + u + b
    BY <1>p, <1>t, <2>1 DEF a, u, b
  <2> QED
    BY <1>n, <2>1, <2>3, <2>4
<1>11. CASE TimerFlushes
  <2>1. /\ timerTurn = <<>> /\ timerTurn' = Ids(buffer) /\ buffer' = <<>>
        /\ UNCHANGED <<told, turn, crashes, hand, phase, recorded>>
    BY <1>11 DEF TimerFlushes, Flushed, poll, files, counts, history
  <2>2. Turns(m)' = a + t + b + 0 /\ u = 0 /\ Allowed(m)' = Allowed(m)
    BY <1>p, <1>t, <1>s, <2>1 DEF a, t, b, u
  <2> QED
    BY <1>n, <2>1, <2>2
<1>15. CASE TimerLoses
  <2>1. /\ buffer' = <<>>
        /\ UNCHANGED <<told, turn, timerTurn, crashes, hand, phase, recorded>>
    BY <1>15 DEF TimerLoses, Flushed, poll, files, counts
  <2>2. Turns(m)' = a + t + u + 0 /\ Allowed(m)' = Allowed(m)
    BY <1>p, <1>t, <1>s, <2>1 DEF a, t, u
  <2> QED
    BY <1>n, <2>1, <2>2
<1>12. CASE TimerHandsOver
  <2>1. /\ timerTurn' = <<>> /\ Told(timerTurn)
        /\ UNCHANGED <<buffer, turn, crashes, hand, phase, recorded>>
    BY <1>12 DEF TimerHandsOver, poll, files, counts, thread
  <2>2. told'[m] = a + u
    BY <1>t, <2>1, ToldType DEF a, u
  <2>3. Turns(m)' = (a + u) + t + 0 + b /\ Allowed(m)' = Allowed(m)
    BY <1>p, <1>t, <1>s, <2>1, <2>2 DEF t, b
  <2> QED
    BY <1>n, <2>1, <2>3
<1>13. CASE TimerRaises
  <2>1. /\ timerTurn' = <<>>
        /\ UNCHANGED <<told, buffer, turn, crashes, hand, phase, recorded>>
    BY <1>13 DEF TimerRaises, poll, files, thread
  <2>2. Turns(m)' = a + t + 0 + b /\ Allowed(m)' = Allowed(m)
    BY <1>p, <1>t, <1>s, <2>1 DEF a, t, b
  <2> QED
    BY <1>n, <2>1, <2>2
\* A kill: the message in hand is read again, and what it had been is gone or in
\* the buffer.
<1>14. CASE Crashes
  <2>1. /\ turn' = <<>> /\ timerTurn' = <<>> /\ crashes' = crashes + 1 /\ phase' = "new"
        /\ UNCHANGED <<told, buffer, hand, recorded>>
    BY <1>14 DEF Crashes, files, thread
  <2>2. Turns(m)' = a + 0 + 0 + b
    BY <1>p, <1>t, <2>1 DEF a, b
  <2>3. Allowed(m)' \in 0..2
    BY <2>1 DEF Allowed
  <2>4. CASE ~Waiting(m) \/ m \in recorded
    <3>1. Allowed(m)' = 0
      BY <2>1, <2>4 DEF Allowed, Waiting
    <3> QED
      BY <1>n, <2>1, <2>2, <3>1
  <2>5. CASE Waiting(m) /\ m \notin recorded /\ phase \in {"new", "unlink"}
    <3>1. Allowed(m) >= 1
      BY <2>5 DEF Allowed
    <3> QED
      BY <1>n, <2>1, <2>2, <2>3, <3>1
  <2>6. CASE Waiting(m) /\ m \notin recorded /\ phase = "gate"
    <3>1. t >= 1
      <4>1. m \in In(turn)
        BY <1>t, <1>w, <2>6 DEF TurnInHand
      <4>2. t > 0
        BY <1>t, <4>1, CountsWhatIsIn DEF t
      <4> QED
        BY <1>n, <4>2
    <3> QED
      BY <1>n, <2>1, <2>2, <2>3, <3>1
  <2>7. Waiting(m) /\ m \notin recorded => phase \in {"new", "unlink", "gate"}
    BY <1>t, <1>w DEF TurnInHand, FieldsOK
  <2> QED
    BY <2>4, <2>5, <2>6, <2>7
<1> QED
  BY <1>1, <1>2, <1>3, <1>4, <1>5, <1>6, <1>7, <1>8, <1>9, <1>10, <1>11, <1>12, <1>13, <1>14, <1>15
  DEF Next, MessageStep, CommandStep, Timer

----------------------------------------------------------------------------
(* The minutes.                                                            *)

\* The steps that make a turn, or an entry of the buffer, of the message in hand.
Takes == Buffers \/ Flushes \/ Notes \/ Passes

\* No other step makes a turn of a message that is none.
LEMMA StaysUntold ==
    ASSUME HandInv, [Next]_vars, NEW m \in Seen, Untold(m), ~(Takes /\ m = hand.id)
    PROVE  Untold(m)'
<1> USE DEF Untold, Bundled, Buffered
<1>t. /\ FieldsOK /\ m \in Messages
      /\ turn \in Seq(Seen) /\ timerTurn \in Seq(Seen) /\ Ids(buffer) \in Seq(Seen)
      /\ In(<<>>) = {} /\ Ids(<<>>) = <<>>
  BY SeenType, BufferIds, NothingIn, NoIds DEF HandInv, TypeOK, FieldsOK
<1>1. CASE \/ \E k \in Kinds : Arrives(k)
           \/ \E c \in CommandItems : Commanded(c)
           \/ UNCHANGED vars \/ Records \/ CloseWrites \/ Collects
  BY <1>1 DEF Arrives, Commanded, vars, Records, CloseWrites, Collects, thread, poll, history
<1>2. CASE Tick
  <2>1. buffer \in Seq(Items)
    BY <1>t DEF FieldsOK, Items
  <2>2. Ids(Aged(buffer)) = Ids(buffer)
    BY <2>1, AgedBuffer
  <2> QED
    BY <1>2, <2>2 DEF Tick, poll, history
<1>3. CASE \/ Duplicate \/ Drops \/ Unlinks \/ Skips \/ SetsMode \/ Leaves \/ Joins \/ Opens
           \/ CloseRefused \/ CloseFails \/ CloseSaves
  <2>1. turn' = <<>> /\ UNCHANGED <<told, timerTurn, buffer>>
    BY <1>3 DEF Duplicate, Drops, Unlinks, Skips, SetsMode, Leaves, Joins, Opens, CloseRefused,
                CloseFails, CloseSaves, thread, history, Free
  <2> QED
    BY <1>t, <2>1
<1>4. CASE Buffers
  <2>1. /\ hand.id \in Seen /\ buffer' = Append(buffer, Entry(hand.id))
        /\ UNCHANGED <<told, turn, timerTurn>>
    BY <1>4, <1>t, ListsHaveArrived DEF Buffers, Fresh, New, history
  <2>2. In(Ids(buffer')) = In(Ids(buffer)) \cup {hand.id}
    BY <1>t, <2>1, BufferIds
  <2> QED
    BY <1>4, <2>1, <2>2 DEF Takes
<1>5. CASE Flushes
  <2>1. /\ hand.id \in Seen /\ buffer' = <<>> /\ turn' = Append(Ids(buffer), hand.id)
        /\ UNCHANGED <<told, timerTurn>>
    BY <1>5, <1>t, ListsHaveArrived DEF Flushes, Flushed, Fresh, New, history
  <2>2. In(turn') = In(Ids(buffer)) \cup {hand.id}
    BY <1>t, <2>1, BufferIds
  <2> QED
    BY <1>5, <1>t, <2>1, <2>2 DEF Takes
<1>6. CASE Notes
  <2>1. /\ hand.id \in Seen /\ buffer' = Append(buffer, Entry(hand.id))
        /\ turn' = <<hand.id>> /\ UNCHANGED <<told, timerTurn>>
    BY <1>6, <1>t, ListsHaveArrived DEF Notes, Fresh, New, history
  <2>2. In(Ids(buffer')) = In(Ids(buffer)) \cup {hand.id} /\ In(turn') = {hand.id}
    BY <1>t, <2>1, BufferIds, InOne
  <2> QED
    BY <1>6, <2>1, <2>2 DEF Takes
<1>7. CASE Passes
  <2>1. turn' = <<hand.id>> /\ UNCHANGED <<told, buffer, timerTurn>>
    BY <1>7 DEF Passes, thread, history
  <2>2. In(turn') = {hand.id}
    BY <2>1, InOne
  <2> QED
    BY <1>7, <2>1, <2>2 DEF Takes
<1>8. CASE HandsOver
  <2>1. turn' = <<>> /\ Told(turn) /\ UNCHANGED <<timerTurn, buffer>>
    BY <1>8 DEF HandsOver, thread, Free
  <2>2. told'[m] = told[m]
    BY <1>t, <2>1, ToldAdds
  <2> QED
    BY <1>t, <2>1, <2>2
<1>9. CASE TimerHandsOver
  <2>1. timerTurn' = <<>> /\ Told(timerTurn) /\ UNCHANGED <<turn, buffer>>
    BY <1>9 DEF TimerHandsOver, thread, poll
  <2>2. told'[m] = told[m]
    BY <1>t, <2>1, ToldAdds
  <2> QED
    BY <1>t, <2>1, <2>2
<1>10. CASE TimerFlushes
  <2>1. timerTurn' = Ids(buffer) /\ buffer' = <<>> /\ UNCHANGED <<told, turn>>
    BY <1>10 DEF TimerFlushes, Flushed, poll, history
  <2> QED
    BY <1>t, <2>1
<1>12. CASE TimerLoses
  <2>1. buffer' = <<>> /\ UNCHANGED <<told, turn, timerTurn>>
    BY <1>12 DEF TimerLoses, Flushed, poll
  <2> QED
    BY <1>t, <2>1
<1>11. CASE Raises \/ TimerRaises \/ Crashes
  <2>1. /\ UNCHANGED <<told, buffer>>
        /\ turn' \in {turn, <<>>} /\ timerTurn' \in {timerTurn, <<>>}
    BY <1>11 DEF Raises, TimerRaises, Crashes, thread, poll
  <2> QED
    BY <1>t, <2>1
<1> QED
  BY <1>1, <1>2, <1>3, <1>4, <1>5, <1>6, <1>7, <1>8, <1>9, <1>10, <1>11, <1>12
  DEF Next, MessageStep, CommandStep, Timer

\* Only Collects adds a message to the minutes.
LEMMA MinutesGrow ==
    ASSUME HandInv, [Next]_vars, NEW m, Collected(m)'
    PROVE  Collected(m) \/ (Collects /\ m = hand.id)
<1> USE DEF Collected
<1>t. FieldsOK /\ WrittenWhole
  BY DEF HandInv, TypeOK
<1>0. CASE UNCHANGED <<session, artifacts>>
  BY <1>0
<1>1. CASE Collects
  <2>1. /\ session # Closed /\ session' = [session EXCEPT !.msgs = Append(@, hand.id)]
        /\ hand.id \in Seen /\ UNCHANGED artifacts
    BY <1>1, <1>t, ListsHaveArrived DEF Collects, Fresh, New, files
  <2>2. session \in [name : Names, msgs : Seq(Seen)]
    BY <1>t, <2>1 DEF FieldsOK
  <2>3. session'.msgs = Append(session.msgs, hand.id)
    BY <2>1, <2>2
  <2>4. In(session'.msgs) = In(session.msgs) \cup {hand.id}
    BY <2>1, <2>2, <2>3, OneMore
  <2> QED
    BY <1>1, <2>1, <2>4
<1>2. CASE Opens
  <2>1. session'.msgs = <<>> /\ UNCHANGED artifacts
    BY <1>2 DEF Opens, files
  <2> QED
    BY <2>1, NothingIn
<1>3. CASE CloseSaves
  BY <1>3 DEF CloseSaves, files
<1>4. CASE CloseWrites \/ CloseFails
  <2>1. /\ session # Closed /\ UNCHANGED session
        /\ \E msgs \in {session.msgs, artifacts[session.name], <<>>} : Writes(msgs)
    BY <1>4 DEF CloseWrites, CloseFails, thread
  <2>2. PICK msgs \in {session.msgs, artifacts[session.name], <<>>} : Writes(msgs)
    BY <2>1
  <2>3. session.name \in Names
    BY <1>t, <2>1 DEF FieldsOK
  <2>4. \A n \in Names : artifacts'[n] = IF n = session.name THEN msgs ELSE artifacts[n]
    BY <1>t, <2>2, <2>3 DEF Writes, FieldsOK
  <2>5. In(msgs) \subseteq In(session.msgs) \cup In(artifacts[session.name])
    BY <2>2, NothingIn
  <2> QED
    BY <2>1, <2>3, <2>4, <2>5
<1>5. CASE \/ Tick \/ UNCHANGED vars
           \/ \E k \in Kinds : Arrives(k)
           \/ \E c \in CommandItems : Commanded(c)
  <2>1. UNCHANGED <<session, artifacts>>
    BY <1>5 DEF Tick, Arrives, Commanded, vars, thread, files
  <2> QED
    BY <1>0, <2>1
<1>6. CASE \/ Duplicate \/ Drops \/ Buffers \/ Flushes \/ Notes \/ Passes \/ Unlinks
           \/ Skips \/ Records \/ HandsOver
  <2>1. UNCHANGED <<session, artifacts>>
    BY <1>6 DEF Duplicate, Drops, Buffers, Flushes, Notes, Passes, Unlinks, Skips, Records,
                HandsOver, thread, files
  <2> QED
    BY <1>0, <2>1
<1>7. CASE SetsMode \/ Leaves \/ Joins \/ CloseRefused \/ Timer \/ TimerRaises \/ Raises \/ Crashes
  <2>1. UNCHANGED <<session, artifacts>>
    BY <1>7 DEF SetsMode, Leaves, Joins, CloseRefused, Timer, TimerFlushes, TimerLoses, TimerHandsOver, TimerRaises,
                Raises, Crashes, thread, files
  <2> QED
    BY <1>0, <2>1
<1> QED
  BY <1>1, <1>2, <1>3, <1>4, <1>5, <1>6, <1>7 DEF Next, MessageStep, CommandStep

\* A message that waits does so from its arrival, and while it waits no command
\* changes the mode or the session.
LEMMA WaitingOn ==
    ASSUME HandInv, [Next]_vars, NEW m \in Seen, Waiting(m)'
    PROVE  Waiting(m) /\ (Minuting' <=> Minuting)
<1>t. FieldsOK
  BY DEF HandInv, TypeOK
<1>1. ~Free
  BY NoMessageWaits DEF Free, Waiting
<1>2. CASE \E k \in Kinds : Arrives(k)
  <2>1. hand'.id = Len(kinds) + 1 /\ Len(kinds) \in Nat /\ m \in 1..Len(kinds)
    BY <1>t, <1>2, SeenType DEF Arrives, Seen
  <2>2. hand'.id = m
    BY DEF Waiting
  <2> QED
    BY <2>1, <2>2
<1>3. CASE \E c \in CommandItems : Commanded(c)
  BY <1>3 DEF Commanded, CommandItems, Waiting
<1>4. CASE Collects
  <2>1. /\ session # Closed /\ session' = [session EXCEPT !.msgs = Append(@, hand.id)]
        /\ UNCHANGED <<hand, mode>>
    BY <1>4 DEF Collects
  <2>2. session \in [name : Names, msgs : Seq(Seen)]
    BY <1>t, <2>1 DEF FieldsOK
  <2>3. session' # Closed
    BY <2>1, <2>2 DEF Closed
  <2> QED
    BY <2>1, <2>3 DEF Waiting, Minuting
<1>5. CASE CloseWrites
  BY <1>5 DEF CloseWrites, Waiting
<1>6. CASE UNCHANGED <<hand, mode, session>>
  BY <1>6 DEF Waiting, Minuting
<1>7. CASE \/ Tick \/ UNCHANGED vars \/ Buffers \/ Flushes \/ Notes \/ Passes \/ Records
           \/ Timer \/ TimerRaises \/ Raises \/ Crashes
  <2>1. UNCHANGED <<hand, mode, session>>
    BY <1>7 DEF Tick, vars, Buffers, Flushes, Notes, Passes, Records, Timer, TimerFlushes, TimerLoses,
                TimerHandsOver, TimerRaises, Raises, Crashes, thread, poll
  <2> QED
    BY <1>6, <2>1
<1>8. ~(\/ Duplicate \/ Drops \/ Unlinks \/ Skips \/ HandsOver \/ SetsMode \/ Leaves \/ Joins \/ Opens
        \/ CloseRefused \/ CloseFails \/ CloseSaves)
  BY <1>1 DEF Duplicate, Drops, Unlinks, Skips, HandsOver, SetsMode, Leaves, Joins, Opens, CloseRefused,
              CloseFails, CloseSaves
<1> QED
  BY <1>2, <1>3, <1>4, <1>5, <1>7, <1>8 DEF Next, MessageStep, CommandStep

LEMMA MinutesStep ==
    ASSUME HandInv, MinutesApart, [Next]_vars, NEW m \in Seen
    PROVE  /\ Collected(m)' => Untold(m)'
           /\ Waiting(m)' => IF Minuting' THEN Untold(m)' ELSE ~Collected(m)'
<1>t. FieldsOK
  BY DEF HandInv, TypeOK
<1>1. /\ Collected(m) => Untold(m)
      /\ Waiting(m) /\ Minuting => Untold(m)
      /\ Waiting(m) /\ ~Minuting => ~Collected(m)
  BY DEF MinutesApart
<1>2. Takes => ~Minuting /\ hand.cmd = "say"
  BY DEF Takes, Buffers, Flushes, Notes, Passes, Fresh, New, Minuting
<1>3. Collects => Minuting /\ hand.cmd = "say"
  BY DEF Collects, Fresh, New, Minuting
<1>4. hand.cmd = "say" => (Waiting(m) <=> m = hand.id)
  BY <1>t, SayInHand
<1>5. ASSUME Collected(m)'
      PROVE  Untold(m)'
  <2>1. Untold(m) /\ ~(Takes /\ m = hand.id)
    <3>1. CASE Collected(m)
      BY <1>1, <1>2, <1>4, <3>1
    <3>2. CASE Collects /\ m = hand.id
      BY <1>1, <1>2, <1>3, <1>4, <3>2
    <3> QED
      BY <1>5, <3>1, <3>2, MinutesGrow
  <2> QED
    BY <2>1, StaysUntold
<1>6. ASSUME Waiting(m)', Minuting'
      PROVE  Untold(m)'
  <2>1. Waiting(m) /\ Minuting
    BY <1>6, WaitingOn
  <2>2. Untold(m) /\ ~(Takes /\ m = hand.id)
    BY <1>1, <1>2, <2>1
  <2> QED
    BY <2>2, StaysUntold
<1>7. ASSUME Waiting(m)', ~Minuting'
      PROVE  ~Collected(m)'
  <2>1. Waiting(m) /\ ~Minuting
    BY <1>7, WaitingOn
  <2>2. ~Collected(m) /\ ~Collects
    BY <1>1, <1>3, <2>1
  <2> QED
    BY <2>2, MinutesGrow
<1> QED
  BY <1>5, <1>6, <1>7

\* A message that has just arrived is nowhere but in hand.
LEMMA NewMessage ==
    ASSUME HandInv, NotYet, NEW k \in Kinds, Arrives(k), NEW m, m = Len(kinds) + 1
    PROVE  /\ Turns(m)' + Allowed(m)' <= 2 + crashes'
           /\ Untold(m)' /\ ~Collected(m)'
<1>t. /\ FieldsOK /\ m \notin Seen /\ m \in Messages
      /\ turn \in Seq(Seen) /\ timerTurn \in Seq(Seen) /\ Ids(buffer) \in Seq(Seen)
  <2>1. FieldsOK /\ Len(kinds) \in Nat /\ Len(kinds) < MaxMessages
    BY SeenType DEF HandInv, TypeOK, Arrives
  <2> QED
    BY <2>1, DigestAssumption, BufferIds, SMTT(30) DEF FieldsOK, Seen, Messages
<1>1. UNCHANGED <<buffer, session, artifacts, turn, timerTurn, told, crashes>>
  BY DEF Arrives, thread, files, counts, history
<1>2. m \notin In(turn) /\ m \notin In(timerTurn) /\ m \notin In(Ids(buffer))
  BY <1>t, InSeen
<1>3. told[m] = 0
  BY <1>t DEF NotYet
<1>4. ~Collected(m)
  BY <1>t, InSeen DEF Collected, FieldsOK
<1>5. Times(turn, m) = 0 /\ Times(timerTurn, m) = 0 /\ Times(Ids(buffer), m) = 0
  BY <1>t, <1>2, CountsWhatIsIn
<1>6. Turns(m)' = 0
  BY <1>1, <1>3, <1>5 DEF Turns
<1>7. Allowed(m)' \in 0..2 /\ crashes' \in Nat
  BY <1>t, <1>1 DEF Allowed, FieldsOK
<1>8. Turns(m)' + Allowed(m)' <= 2 + crashes'
  BY <1>6, <1>7
<1> QED
  BY <1>1, <1>2, <1>3, <1>4, <1>8 DEF Untold, Bundled, Buffered, Collected

LEMMA ToldStep == ToldInv /\ [Next]_vars => ToldInv'
<1> SUFFICES ASSUME ToldInv, [Next]_vars
             PROVE  TurnsBounded' /\ MinutesApart'
  BY AccountStep DEF ToldInv
<1>t. /\ HandInv /\ NotYet /\ FieldsOK /\ MinutesApart
      /\ \A m \in Seen : Turns(m) + Allowed(m) <= 2 + crashes
  BY DEF ToldInv, AccountInv, HandInv, TypeOK, TurnsBounded
<1> SUFFICES ASSUME NEW m \in Seen'
             PROVE  /\ Turns(m)' + Allowed(m)' <= 2 + crashes'
                    /\ Collected(m)' => Untold(m)'
                    /\ Waiting(m)' => IF Minuting' THEN Untold(m)' ELSE ~Collected(m)'
  BY DEF TurnsBounded, MinutesApart
<1>1. CASE m \in Seen
  BY <1>1, <1>t, TurnsStep, MinutesStep
<1>2. CASE m \notin Seen
  <2>1. PICK k \in Kinds : Arrives(k)
    BY <1>2, <1>t, SeenGrows
  <2>2. m = Len(kinds) + 1
    BY <1>2, <1>t, <2>1, SeenGrows
  <2> QED
    BY <1>t, <2>1, <2>2, NewMessage
<1> QED
  BY <1>1, <1>2

LEMMA InitTold == Init => ToldInv
<1> SUFFICES ASSUME Init PROVE TurnsBounded /\ MinutesApart
  BY InitAccount DEF ToldInv
<1>1. Seen = {}
  BY EmptySeq DEF Init, Seen
<1> QED
  BY <1>1 DEF TurnsBounded, MinutesApart

\* The agent reads a message at most once by itself and once in a digest, and once
\* more for each kill; what is in the minutes was not, and is not going to be, a turn.
THEOREM ToldCounted == Spec => []ToldAsMeant
<1>1. ASSUME ToldInv, NEW m \in Seen
      PROVE  /\ told[m] <= 2 + crashes
             /\ Collected(m) => told[m] = 0 /\ ~Bundled(m) /\ ~Buffered(m)
  <2>1. FieldsOK /\ m \in Messages
    BY <1>1, SeenType DEF ToldInv, AccountInv, HandInv, TypeOK
  <2>2. Turns(m) + Allowed(m) <= 2 + crashes
    BY <1>1 DEF ToldInv, TurnsBounded
  <2>3. told[m] <= 2 + crashes
    BY <2>1, <2>2, TurnParts DEF Turns
  <2> QED
    BY <1>1, <2>3 DEF ToldInv, MinutesApart, Untold
<1>2. ToldInv => ToldAsMeant
  BY <1>1 DEF ToldAsMeant
<1>3. Spec => []ToldInv
  BY InitTold, ToldStep, PTL DEF Spec
<1> QED
  BY <1>2, <1>3, PTL

=============================================================================
