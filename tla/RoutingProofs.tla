--------------------------- MODULE RoutingProofs ---------------------------
(***************************************************************************)
(* Proofs about where messages go, in both directions.  The unified        *)
(* threads (UnifiedRouting), for any seats, threads and inbox files and    *)
(* any number of kills and confirmed claims: one member per person, saved  *)
(* maps, relayed copies, and that the routing of a sender's messages is    *)
(* changed by nobody else and keeps to what the sender has chosen.  The    *)
(* answers (OutboundRouting), for every number of messages, every cap and  *)
(* lifetime and any number of faults and restarts: an answer quotes the    *)
(* message it answers unless the reply map has a reason to have forgotten  *)
(* it.                                                                     *)
(***************************************************************************)
EXTENDS UnifiedRouting, OutboundRouting, FiniteSetTheorems, SequenceTheorems,
        WellFoundedInduction, TLAPS

----------------------------------------------------------------------------
(* The first of some places, persons, and the thread of a chat. *)

LEMMA FirstPlace ==
    ASSUME NEW S, S \subseteq Nat, S # {}
    PROVE  First(S) \in S /\ \A j \in S : First(S) <= j
<1> DEFINE Less == {ss \in Nat \X Nat : ss[1] < ss[2]}
<1>1. IsWellFoundedOn(Less, Nat)
  BY NatLessThanWellFounded DEF OpToRel
<1> HIDE DEF Less
<1>2. \E x \in S : \A y \in S : ~ (<<y, x>> \in Less)
  BY <1>1, WFMin
<1>3. \A x, y \in S : <<y, x>> \notin Less => x <= y
  BY DEF Less
<1>4. \E x \in S : \A y \in S : x <= y
  BY <1>2, <1>3
<1> QED
  BY <1>4 DEF First

Wrappers == {a.bridge : a \in Accounts}

EntryType ==
    [person : Users, aliases : SUBSET Users,
     wrappers : UNION {[bs -> Users] : bs \in SUBSET Wrappers}]

LEMMA AccountParts ==
    ASSUME NEW a \in Accounts
    PROVE  a.user \in Users /\ a.bridge \in Wrappers
BY DEF Users, Wrappers

LEMMA SeatParts ==
    ASSUME NEW s \in Seats
    PROVE  s.account \in Accounts /\ s.chat \in Chats /\ s.account.user \in Users
BY DEF Accounts, Chats, Users

LEMMA ResolveType ==
    ASSUME NEW known \in Seq(EntryType), NEW a \in Accounts
    PROVE  Resolve(known, a) \in Users
<1> DEFINE found == {i \in DOMAIN known : Matches(known[i], a)}
<1>1. DOMAIN known = 1..Len(known) /\ Len(known) \in Nat /\ \A i \in DOMAIN known : known[i] \in EntryType
  BY LenProperties, ElementOfSeq
<1>2. CASE found = {}
  BY <1>2, AccountParts DEF Resolve
<1>3. CASE found # {}
  <2>1. found \subseteq Nat
    BY <1>1
  <2> HIDE DEF found
  <2>2. First(found) \in found
    BY <1>3, <2>1, FirstPlace
  <2>3. First(found) \in DOMAIN known
    BY <2>2 DEF found
  <2>4. known[First(found)].person \in Users
    BY <1>1, <2>3 DEF EntryType
  <2> QED
    BY <1>3, <2>4 DEF Resolve, found
<1> QED
  BY <1>2, <1>3

LEMMA DeclaringType ==
    ASSUME NEW bs \in SUBSET Wrappers, NEW w \in [bs -> Users], NEW a \in Accounts
    PROVE  Declaring(w, a) \in UNION {[ds -> Users] : ds \in SUBSET Wrappers}
<1>1. DOMAIN w \cup {a.bridge} \in SUBSET Wrappers
  BY AccountParts
<1>2. Declaring(w, a) \in [DOMAIN w \cup {a.bridge} -> Users]
  BY AccountParts DEF Declaring
<1> QED
  BY <1>1, <1>2

LEMMA MergedType ==
    ASSUME NEW known \in Seq(EntryType), NEW a \in Accounts, NEW b \in Accounts
    PROVE  Merged(known, a, b) \in Seq(EntryType)
<1> DEFINE p == Resolve(known, a)
           new == Entry(p, {a.user, b.user},
                        Declaring([x \in {a.bridge} |-> a.user], b))
           grown(i) == [known[i] EXCEPT !.aliases = @ \cup {b.user},
                                      !.wrappers = Declaring(@, b)]
<1>1. p \in Users
  BY ResolveType
<1>2. a.user \in Users /\ b.user \in Users /\ a.bridge \in Wrappers
  BY AccountParts
<1>3. DOMAIN known = 1..Len(known) /\ Len(known) \in Nat /\ \A i \in DOMAIN known : known[i] \in EntryType
  BY LenProperties, ElementOfSeq
<1>4. new \in EntryType
  <2> DEFINE w == [x \in {a.bridge} |-> a.user]
  <2>1. {a.bridge} \in SUBSET Wrappers /\ w \in [{a.bridge} -> Users]
    BY <1>2
  <2> HIDE DEF w
  <2>2. Declaring(w, b) \in UNION {[ds -> Users] : ds \in SUBSET Wrappers}
    BY <2>1, DeclaringType
  <2> HIDE DEF p
  <2> QED
    BY <1>1, <1>2, <2>2 DEF Entry, EntryType, w
<1>5. ASSUME NEW i \in DOMAIN known
      PROVE  grown(i) \in EntryType
  <2>1. known[i] \in EntryType
    BY <1>3
  <2>2. PICK bs \in SUBSET Wrappers : known[i].wrappers \in [bs -> Users]
    BY <2>1 DEF EntryType
  <2>3. Declaring(known[i].wrappers, b) \in UNION {[ds -> Users] : ds \in SUBSET Wrappers}
    BY <2>2, DeclaringType
  <2> QED
    BY <1>2, <2>1, <2>3 DEF EntryType
<1> HIDE DEF p, new, grown
<1>6. CASE \E i \in DOMAIN known : known[i].person = p
  <2>1. Merged(known, a, b)
           = [i \in DOMAIN known |-> IF known[i].person = p THEN grown(i) ELSE known[i]]
    BY <1>6 DEF Merged, p, grown
  <2>2. Merged(known, a, b) \in [1..Len(known) -> EntryType]
    BY <1>3, <1>5, <2>1
  <2> QED
    BY <1>3, <2>2, SeqDef
<1>7. CASE ~ \E i \in DOMAIN known : known[i].person = p
  <2>1. Merged(known, a, b) = Append(known, new)
    BY <1>7 DEF Merged, p, new
  <2> QED
    BY <1>4, <2>1, AppendProperties
<1> QED
  BY <1>6, <1>7

\* The thread of a chat is one that has it.
LEMMA ThreadOfChat ==
    ASSUME NEW T, NEW ts \in Seq(T), NEW c
    PROVE  \/ ThreadOf(ts, c) = NoThread
           \/ \E i \in DOMAIN ts : ThreadOf(ts, c) = ts[i].name /\ c \in Addresses(ts[i])
<1> DEFINE found == {i \in DOMAIN ts : c \in Addresses(ts[i])}
<1>1. found \subseteq Nat
  BY LenProperties
<1>2. found # {} => First(found) \in found
  BY <1>1, FirstPlace
<1> QED
  BY <1>2 DEF ThreadOf

\* It depends on the threads that have the chat only.
LEMMA ThreadOfSame ==
    ASSUME NEW T, NEW U, NEW ts \in Seq(T), NEW us \in Seq(U), NEW c,
           \A i \in Nat : /\ i \in DOMAIN ts /\ c \in Addresses(ts[i])
                             <=> i \in DOMAIN us /\ c \in Addresses(us[i])
                          /\ i \in DOMAIN ts /\ c \in Addresses(ts[i])
                             => ts[i].name = us[i].name
    PROVE  ThreadOf(us, c) = ThreadOf(ts, c)
<1> DEFINE found == {i \in DOMAIN ts : c \in Addresses(ts[i])}
<1>1. DOMAIN ts \subseteq Nat /\ DOMAIN us \subseteq Nat
  BY LenProperties
<1>2. found = {i \in DOMAIN us : c \in Addresses(us[i])} /\ found \subseteq Nat
  BY <1>1
<1>3. CASE found = {}
  BY <1>2, <1>3 DEF ThreadOf
<1>4. CASE found # {}
  <2>1. First(found) \in found
    BY <1>2, <1>4, FirstPlace
  <2>2. ts[First(found)].name = us[First(found)].name
    BY <1>1, <2>1
  <2> QED
    BY <1>2, <1>4, <2>2 DEF ThreadOf
<1> QED
  BY <1>3, <1>4

----------------------------------------------------------------------------
(* The maps. *)

Maps == {"threads", "active", "paused"}

LEMMA MapsParts ==
    ASSUME NEW m \in MapsType
    PROVE  /\ m.threads \in Seq(ThreadType) /\ m.active \in [Users -> Threads \cup {NoThread}]
           /\ m.paused \in [Users -> SUBSET Threads]
           /\ DOMAIN m = Maps
           /\ DOMAIN m.threads \subseteq Nat /\ DOMAIN m.threads = 1..Len(m.threads)
           /\ \A i \in DOMAIN m.threads : m.threads[i] \in ThreadType
<1>1. /\ m.threads \in Seq(ThreadType) /\ m.active \in [Users -> Threads \cup {NoThread}]
      /\ m.paused \in [Users -> SUBSET Threads]
      /\ DOMAIN m = Maps
  BY DEF MapsType, Maps
<1>2. /\ DOMAIN m.threads \subseteq Nat /\ DOMAIN m.threads = 1..Len(m.threads)
      /\ \A i \in DOMAIN m.threads : m.threads[i] \in ThreadType
  BY <1>1, LenProperties, ElementOfSeq
<1> QED
  BY <1>1, <1>2

LEMMA ThreadParts ==
    ASSUME NEW t \in ThreadType
    PROVE  /\ t.name \in Threads /\ t.name # NoThread
           /\ DOMAIN t.members \subseteq Chats
           /\ t.members \in [DOMAIN t.members -> MemberType]
           /\ DOMAIN t = {"name", "members"}
BY RoutingAssumption DEF ThreadType

LEMMA ThreadMade ==
    ASSUME NEW n \in Threads, NEW ks \in SUBSET Chats, NEW ms \in [ks -> MemberType]
    PROVE  [name |-> n, members |-> ms] \in ThreadType
BY DEF ThreadType

\* The members of one thread of a list are changed.
LEMMA MembersChanged ==
    ASSUME NEW ts \in Seq(ThreadType), NEW i \in DOMAIN ts,
           NEW ks \in SUBSET Chats, NEW ms \in [ks -> MemberType]
    PROVE  LET us == [ts EXCEPT ![i].members = ms]
           IN  /\ us \in Seq(ThreadType) /\ DOMAIN us = DOMAIN ts
               /\ us[i].members = ms /\ us[i].name = ts[i].name
               /\ \A j \in DOMAIN ts \ {i} : us[j] = ts[j]
<1> DEFINE us == [ts EXCEPT ![i].members = ms]
<1>1. /\ Len(ts) \in Nat /\ DOMAIN ts = 1..Len(ts)
      /\ \A j \in DOMAIN ts : ts[j] \in ThreadType
  BY LenProperties, ElementOfSeq
<1>2. us[i] = [ts[i] EXCEPT !.members = ms] /\ DOMAIN us = DOMAIN ts
  OBVIOUS
<1>3. /\ us[i].members = ms /\ us[i].name = ts[i].name
      /\ us[i] = [name |-> ts[i].name, members |-> ms]
  BY <1>1, <1>2 DEF ThreadType
<1>4. \A j \in DOMAIN ts \ {i} : us[j] = ts[j]
  OBVIOUS
<1>5. us[i] \in ThreadType
  BY <1>1, <1>3, ThreadParts, ThreadMade
<1>6. us \in [1..Len(ts) -> ThreadType]
  <2> HIDE DEF us
  <2>1. \A j \in 1..Len(ts) : us[j] \in ThreadType
    BY <1>1, <1>4, <1>5
  <2>2. us = [j \in DOMAIN us |-> us[j]]
    BY DEF us
  <2> QED
    BY <1>1, <1>2, <2>1, <2>2
<1>7. us \in Seq(ThreadType)
  BY <1>1, <1>6, SeqDef
<1> QED
  BY <1>2, <1>3, <1>4, <1>7

----------------------------------------------------------------------------
(* Members. *)

LEMMA MemberOf ==
    ASSUME NEW s \in Seats, Person(s.account) \in Users
    PROVE  /\ Member(s) \in MemberType /\ Member(s).person = Person(s.account)
           /\ ChatsOf(Member(s)) = {s.chat}
BY SeatParts DEF Member, MemberType, ChatsOf

\* What a join makes of the members.
LEMMA JoinedMembers ==
    ASSUME NEW ks \in SUBSET Chats, NEW ms \in [ks -> MemberType], NEW s \in Seats,
           Person(s.account) \in Users, s.chat \notin ks
    PROVE  /\ DOMAIN Joined(ms, s) \in SUBSET Chats
           /\ Joined(ms, s) \in [DOMAIN Joined(ms, s) -> MemberType]
           /\ \A c : c # s.chat =>
                 ((\E k \in DOMAIN Joined(ms, s) : c \in ChatsOf(Joined(ms, s)[k]))
                     <=> \E k \in ks : c \in ChatsOf(ms[k]))
           /\ (\A j, k \in ks : ms[j].person = ms[k].person => j = k)
              => \A j, k \in DOMAIN Joined(ms, s) :
                    Joined(ms, s)[j].person = Joined(ms, s)[k].person => j = k
<1> DEFINE js == Joined(ms, s)
           p == Person(s.account)
           wide(k) == [ms[k] EXCEPT !.seats = @ \cup {s}]
<1>0. DOMAIN ms = ks /\ \A k \in ks : ms[k] \in MemberType
  OBVIOUS
<1>m. /\ Member(s) \in MemberType /\ Member(s).person = p /\ ChatsOf(Member(s)) = {s.chat}
      /\ s.chat \in Chats
  BY MemberOf, SeatParts
<1>w. ASSUME NEW k \in ks
      PROVE  /\ wide(k) \in MemberType /\ wide(k).person = ms[k].person
             /\ ChatsOf(wide(k)) = ChatsOf(ms[k]) \cup {s.chat}
  BY <1>0 DEF MemberType, ChatsOf
<1> HIDE DEF p, wide
<1>1. CASE \E k \in ks : ms[k].person = p
  <2>1. js = [k \in ks |-> IF ms[k].person = p THEN wide(k) ELSE ms[k]]
    BY <1>0, <1>1 DEF Joined, p, wide
  <2>2. /\ DOMAIN js = ks
        /\ \A k \in ks : js[k] = IF ms[k].person = p THEN wide(k) ELSE ms[k]
    BY <2>1
  <2>3. js \in [ks -> MemberType]
    BY <1>0, <1>w, <2>1
  <2>4. \A k \in ks : js[k].person = ms[k].person
    BY <1>w, <2>2
  <2>5. \A k \in ks : \A c : c # s.chat => (c \in ChatsOf(js[k]) <=> c \in ChatsOf(ms[k]))
    BY <1>w, <2>2
  <2> HIDE DEF js
  <2> QED
    BY <2>2, <2>3, <2>4, <2>5 DEF js
<1>2. CASE ~ \E k \in ks : ms[k].person = p
  <2>1. js = [k \in ks \cup {s.chat} |-> IF k = s.chat THEN Member(s) ELSE ms[k]]
    BY <1>0, <1>2 DEF Joined, p
  <2>2. /\ DOMAIN js = ks \cup {s.chat} /\ js[s.chat] = Member(s)
        /\ \A k \in ks : js[k] = ms[k]
    BY <2>1
  <2>3. js \in [ks \cup {s.chat} -> MemberType]
    BY <1>0, <1>m, <2>1
  <2>4. ks \cup {s.chat} \in SUBSET Chats
    BY <1>m
  <2>5. \A c : c # s.chat => c \notin ChatsOf(js[s.chat])
    BY <1>m, <2>2
  <2>6. \A k \in ks : js[k].person # js[s.chat].person
    BY <1>2, <1>m, <2>2
  <2> HIDE DEF js
  <2>7. \A c : c # s.chat =>
            ((\E k \in DOMAIN js : c \in ChatsOf(js[k])) <=> \E k \in ks : c \in ChatsOf(ms[k]))
    BY <2>2, <2>5
  <2>8. ASSUME \A j, k \in ks : ms[j].person = ms[k].person => j = k,
               NEW j \in DOMAIN js, NEW k \in DOMAIN js, js[j].person = js[k].person
        PROVE  j = k
    BY <2>2, <2>6, <2>8
  <2> QED
    BY <2>2, <2>3, <2>4, <2>7, <2>8 DEF js
<1> QED
  BY <1>1, <1>2

----------------------------------------------------------------------------
(* Types, and what is in hand. *)

ItemType ==
    {i \in [cmd : Commands, seat : Seats, name : Threads \cup {NoThread}] :
        i.name = NoThread <=> i.cmd \in {"exit", "say"}}

\* The identity map, the file in hand, and what each stage of it has left to do.
HandOK ==
    /\ identity \in Seq(EntryType)
    /\ item = NoItem \/ item \in ItemType
    /\ toSave \in Seq(Maps)
    /\ step # "done" => toSave = <<>> /\ toRelay = {}
    /\ step = "refused" => item.cmd \in {"create", "join", "leave", "switch"}

\* A chat got the message once for each kill, and once more when it is through;
\* between files none has got anything.
Copied ==
    \A c \in Chats :
        /\ item = NoItem => copies[c] = 0
        /\ copies[c] \in Nat /\ copies[c] <= crashes + 1
        /\ item # NoItem /\ (step = "new" \/ c \in toRelay) => copies[c] <= crashes

Core == TypeOK /\ HandOK /\ Copied

LEMMA PersonType == HandOK => \A a \in Accounts : Person(a) \in Users
BY ResolveType DEF HandOK, Person

LEMMA NothingInHand == NoItem.cmd = "none"
BY DEF NoItem

\* The command in hand.
LEMMA ItemParts ==
    ASSUME HandOK, item # NoItem
    PROVE  /\ item \in ItemType /\ item.cmd \in Commands /\ item.seat \in Seats
           /\ item.cmd \notin {"exit", "say"} => item.name \in Threads
           /\ item.seat.account \in Accounts /\ item.seat.chat \in Chats
           /\ Person(item.seat.account) \in Users
BY SeatParts, PersonType DEF HandOK, ItemType

LEMMA InHand ==
    ASSUME NEW cmd \in Commands, item.cmd = cmd
    PROVE  item # NoItem
BY NothingInHand DEF Commands

\* What each command does to the maps.
LEMMA CreatesMaps ==
    ASSUME Core, Creates
    PROVE  LET t == [name |-> item.name,
                     members |-> [k \in {item.seat.chat} |-> Member(item.seat)]]
           IN  /\ t \in ThreadType /\ mem' \in MapsType
               /\ mem'.threads = Append(mem.threads, t)
               /\ mem'.active = mem.active /\ mem'.paused = mem.paused
               /\ Addresses(t) = {item.seat.chat} /\ item # NoItem
<1> DEFINE c == item.seat.chat
           ms == [k \in {c} |-> Member(item.seat)]
           t == [name |-> item.name, members |-> ms]
<1>1. item # NoItem /\ item.cmd = "create"
  BY InHand DEF Creates, Runs, Commands
<1>2. item.seat \in Seats /\ item.name \in Threads /\ c \in Chats
      /\ Person(item.seat.account) \in Users
  BY <1>1, ItemParts DEF Core
<1>3. Member(item.seat) \in MemberType /\ ChatsOf(Member(item.seat)) = {c}
  BY <1>2, MemberOf
<1>4. ms \in [{c} -> MemberType] /\ {c} \in SUBSET Chats /\ DOMAIN ms = {c} /\ ms[c] = Member(item.seat)
  BY <1>2, <1>3
<1>5. t \in ThreadType
  <2> HIDE DEF ms, c
  <2> QED
    BY <1>2, <1>4, ThreadMade
<1>6. Addresses(t) = {c}
  BY <1>3, <1>4 DEF Addresses
<1>7. mem' = [mem EXCEPT !.threads = Append(@, t)] /\ mem \in MapsType
  BY DEF Creates, Core, TypeOK
<1> HIDE DEF t
<1>8. /\ mem'.threads = Append(mem.threads, t)
      /\ mem'.active = mem.active /\ mem'.paused = mem.paused
  BY <1>7 DEF MapsType
<1>9. Append(mem.threads, t) \in Seq(ThreadType)
  BY <1>5, <1>7, MapsParts, AppendProperties
<1>10. mem' \in MapsType
  BY <1>7, <1>9 DEF MapsType
<1> QED
  BY <1>1, <1>5, <1>6, <1>8, <1>10 DEF t

LEMMA JoinsMaps ==
    ASSUME Core, Joins
    PROVE  /\ mem' \in MapsType /\ item # NoItem
           /\ \E i \in Index(item.name) :
                 /\ item.seat.chat \notin DOMAIN mem.threads[i].members
                 /\ mem'.threads
                       = [mem.threads EXCEPT ![i].members = Joined(@, item.seat)]
           /\ mem'.active = mem.active
           /\ mem'.paused
                 = [mem.paused EXCEPT ![Person(item.seat.account)] = @ \ {item.name}]
<1> DEFINE p == Person(item.seat.account)
<1>1. item # NoItem /\ item.cmd = "join"
  BY InHand DEF Joins, Runs, Commands
<1>2. item.seat \in Seats /\ p \in Users
  BY <1>1, ItemParts DEF Core
<1>3. mem \in MapsType
  BY DEF Core, TypeOK
<1>4. PICK i \in Index(item.name) :
          /\ item.seat.chat \notin DOMAIN mem.threads[i].members
          /\ mem' = [mem EXCEPT !.threads[i].members = Joined(@, item.seat),
                                !.paused[p] = @ \ {item.name}]
  BY DEF Joins
<1> HIDE DEF p
<1>5. i \in DOMAIN mem.threads
  BY DEF Index
<1>6. /\ mem'.threads = [mem.threads EXCEPT ![i].members = Joined(@, item.seat)]
      /\ mem'.active = mem.active
      /\ mem'.paused = [mem.paused EXCEPT ![p] = @ \ {item.name}]
      /\ mem' = [threads |-> mem'.threads, active |-> mem'.active, paused |-> mem'.paused]
  BY <1>3, <1>4 DEF MapsType
<1> DEFINE ms == mem.threads[i].members
<1>7. mem.threads \in Seq(ThreadType) /\ mem.threads[i] \in ThreadType
  BY <1>3, <1>5, MapsParts
<1>8. DOMAIN ms \in SUBSET Chats /\ ms \in [DOMAIN ms -> MemberType]
  BY <1>7, ThreadParts
<1> HIDE DEF ms
<1>9. /\ DOMAIN Joined(ms, item.seat) \in SUBSET Chats
      /\ Joined(ms, item.seat) \in [DOMAIN Joined(ms, item.seat) -> MemberType]
  <2> DEFINE ks == DOMAIN ms
             s == item.seat
  <2>1. /\ ks \in SUBSET Chats /\ ms \in [ks -> MemberType] /\ s.chat \notin ks
        /\ s \in Seats /\ Person(s.account) \in Users
    BY <1>2, <1>4, <1>8 DEF ms, p
  <2> HIDE DEF ks, s
  <2>2. /\ DOMAIN Joined(ms, s) \in SUBSET Chats
        /\ Joined(ms, s) \in [DOMAIN Joined(ms, s) -> MemberType]
    BY <2>1, JoinedMembers
  <2> QED
    BY <2>2 DEF s
<1>10. mem'.threads \in Seq(ThreadType)
  <2>1. [mem.threads EXCEPT ![i].members = Joined(ms, item.seat)] \in Seq(ThreadType)
    BY <1>5, <1>7, <1>9, MembersChanged
  <2>2. mem'.threads = [mem.threads EXCEPT ![i].members = Joined(ms, item.seat)]
    BY <1>6 DEF ms
  <2> QED
    BY <2>1, <2>2
<1>11. mem'.paused \in [Users -> SUBSET Threads]
  BY <1>2, <1>3, <1>6 DEF MapsType
<1>12. mem' \in MapsType
  BY <1>3, <1>6, <1>10, <1>11 DEF MapsType
<1> QED
  BY <1>1, <1>4, <1>6, <1>12 DEF p

LEMMA LeavesMaps ==
    ASSUME Core, Leaves
    PROVE  /\ mem' \in MapsType /\ item # NoItem
           /\ \E i \in Index(item.name) :
                 /\ item.seat.chat \in DOMAIN mem.threads[i].members
                 /\ mem'.threads
                       = [mem.threads EXCEPT ![i].members =
                             [k \in DOMAIN @ \ {item.seat.chat} |-> @[k]]]
           /\ mem'.active = mem.active /\ mem'.paused = mem.paused
<1>1. item # NoItem /\ item.cmd = "leave"
  BY InHand DEF Leaves, Runs, Commands
<1>2. mem \in MapsType
  BY DEF Core, TypeOK
<1>3. PICK i \in Index(item.name) :
          /\ item.seat.chat \in DOMAIN mem.threads[i].members
          /\ mem' = [mem EXCEPT !.threads[i].members =
                        [k \in DOMAIN @ \ {item.seat.chat} |-> @[k]]]
  BY DEF Leaves
<1>4. i \in DOMAIN mem.threads
  BY DEF Index
<1>5. /\ mem'.threads = [mem.threads EXCEPT ![i].members =
                            [k \in DOMAIN @ \ {item.seat.chat} |-> @[k]]]
      /\ mem'.active = mem.active /\ mem'.paused = mem.paused
      /\ mem' = [threads |-> mem'.threads, active |-> mem'.active, paused |-> mem'.paused]
  BY <1>2, <1>3 DEF MapsType
<1> DEFINE ms == mem.threads[i].members
           ks == DOMAIN ms \ {item.seat.chat}
           ls == [k \in ks |-> ms[k]]
<1>6. mem.threads \in Seq(ThreadType) /\ mem.threads[i] \in ThreadType
  BY <1>2, <1>4, MapsParts
<1>7. DOMAIN ms \in SUBSET Chats /\ ms \in [DOMAIN ms -> MemberType]
  BY <1>6, ThreadParts
<1>8. ks \in SUBSET Chats /\ ls \in [ks -> MemberType]
  BY <1>7
<1>9. mem'.threads = [mem.threads EXCEPT ![i].members = ls]
  BY <1>5
<1> HIDE DEF ls, ks
<1>10. mem'.threads \in Seq(ThreadType)
  <2>1. [mem.threads EXCEPT ![i].members = ls] \in Seq(ThreadType)
    BY <1>4, <1>6, <1>8, MembersChanged
  <2> QED
    BY <1>9, <2>1
<1>11. mem' \in MapsType
  BY <1>2, <1>5, <1>10 DEF MapsType
<1> QED
  BY <1>1, <1>3, <1>5, <1>11

LEMMA ExitsMaps ==
    ASSUME Core, Exits
    PROVE  /\ mem' \in MapsType /\ item # NoItem
           /\ mem'.threads = mem.threads /\ mem'.active = mem.active
           /\ mem'.paused = [mem.paused EXCEPT ![Person(item.seat.account)] =
                                @ \cup PausedBy(Person(item.seat.account))]
<1> DEFINE p == Person(item.seat.account)
<1>1. item # NoItem /\ item.cmd = "exit"
  BY InHand DEF Exits, Runs, Commands
<1>2. p \in Users /\ mem \in MapsType /\ PausedBy(p) \subseteq Threads
  BY <1>1, ItemParts DEF Core, TypeOK, PausedBy
<1>3. mem' = [mem EXCEPT !.paused[p] = @ \cup PausedBy(p)]
  BY DEF Exits
<1> HIDE DEF p
<1>4. /\ mem'.threads = mem.threads /\ mem'.active = mem.active
      /\ mem'.paused = [mem.paused EXCEPT ![p] = @ \cup PausedBy(p)]
      /\ mem' = [threads |-> mem'.threads, active |-> mem'.active, paused |-> mem'.paused]
  BY <1>2, <1>3 DEF MapsType
<1>5. mem'.paused \in [Users -> SUBSET Threads]
  BY <1>2, <1>4 DEF MapsType
<1>6. mem' \in MapsType
  BY <1>2, <1>4, <1>5 DEF MapsType
<1> QED
  BY <1>1, <1>4, <1>6 DEF p

LEMMA SwitchesMaps ==
    ASSUME Core, Switches
    PROVE  /\ mem' \in MapsType /\ item # NoItem
           /\ mem'.threads = mem.threads
           /\ mem'.active = [mem.active EXCEPT ![Person(item.seat.account)] = item.name]
           /\ mem'.paused
                 = [mem.paused EXCEPT ![Person(item.seat.account)] = @ \ {item.name}]
<1> DEFINE p == Person(item.seat.account)
<1>1. item # NoItem /\ item.cmd = "switch"
  BY InHand DEF Switches, Runs, Commands
<1>2. p \in Users /\ mem \in MapsType /\ item.name \in Threads
  BY <1>1, ItemParts DEF Core, TypeOK
<1>3. mem' = [mem EXCEPT !.active[p] = item.name, !.paused[p] = @ \ {item.name}]
  BY DEF Switches
<1> HIDE DEF p
<1>4. /\ mem'.threads = mem.threads
      /\ mem'.active = [mem.active EXCEPT ![p] = item.name]
      /\ mem'.paused = [mem.paused EXCEPT ![p] = @ \ {item.name}]
      /\ mem' = [threads |-> mem'.threads, active |-> mem'.active, paused |-> mem'.paused]
  BY <1>2, <1>3 DEF MapsType
<1>5. /\ mem'.paused \in [Users -> SUBSET Threads]
      /\ mem'.active \in [Users -> Threads \cup {NoThread}]
  BY <1>2, <1>4 DEF MapsType
<1>6. mem' \in MapsType
  BY <1>2, <1>4, <1>5 DEF MapsType
<1> QED
  BY <1>1, <1>4, <1>6 DEF p

LEMMA SaveLists ==
    /\ <<>> \in Seq(Maps) /\ <<"threads">> \in Seq(Maps) /\ <<"paused">> \in Seq(Maps)
    /\ <<"threads", "paused">> \in Seq(Maps) /\ <<"active", "paused">> \in Seq(Maps)
<1>1. "threads" \in Maps /\ "active" \in Maps /\ "paused" \in Maps
  BY DEF Maps
<1> QED
  BY <1>1, EmptySeq

\* A command, or a message, that was taken.
LEMMA RunsCore ==
    ASSUME Core, NEW cmd \in Commands, NEW saves \in Seq(Maps), Runs(cmd, saves),
           mem' \in MapsType, toRelay' \in SUBSET Chats
    PROVE  Core'
<1>1. /\ step = "new" /\ step' = "done" /\ toSave' = saves
      /\ UNCHANGED <<disk, identity, item, copies, failed, items, crashes, merges, exited, chosen, outdated>>
  BY DEF Runs, counters, promises, relayed
<1>2. item # NoItem
  BY InHand DEF Runs
<1>3. TypeOK'
  BY <1>1, <1>2 DEF Core, TypeOK
<1>4. HandOK'
  BY <1>1, <1>2 DEF Core, HandOK
<1>5. Copied'
  BY <1>1, <1>2 DEF Core, Copied
<1> QED
  BY <1>3, <1>4, <1>5 DEF Core

LEMMA CommandCore ==
    ASSUME Core, Creates \/ Joins \/ Leaves \/ Exits \/ Switches \/ Says
    PROVE  Core'
<1>0. toRelay \in SUBSET Chats /\ mem \in MapsType
  BY DEF Core, TypeOK
<1>1. CASE Creates
  BY <1>0, <1>1, CreatesMaps, RunsCore, SaveLists DEF Creates, Commands
<1>2. CASE Joins
  BY <1>0, <1>2, JoinsMaps, RunsCore, SaveLists DEF Joins, Commands
<1>3. CASE Leaves
  BY <1>0, <1>3, LeavesMaps, RunsCore, SaveLists DEF Leaves, Commands
<1>4. CASE Exits
  BY <1>0, <1>4, ExitsMaps, RunsCore, SaveLists DEF Exits, Commands
<1>5. CASE Switches
  BY <1>0, <1>5, SwitchesMaps, RunsCore, SaveLists DEF Switches, Commands
<1>6. CASE Says
  <2>1. RelayTargets(item.seat, Route(item.seat)) \subseteq Chats
    BY SeatParts DEF RelayTargets
  <2>2. toRelay' \in SUBSET Chats /\ mem' = mem
    BY <1>6, <2>1 DEF Says
  <2> QED
    BY <1>0, <1>6, <2>2, RunsCore, SaveLists DEF Says, Commands
<1> QED
  BY <1>1, <1>2, <1>3, <1>4, <1>5, <1>6

LEMMA ArrivalCore ==
    ASSUME Core, NEW s \in Seats, Arrives(s)
    PROVE  Core'
<1>1. /\ item = NoItem /\ items < MaxItems /\ items' = items + 1
      /\ UNCHANGED <<mem, disk, identity, step, toSave, toRelay, copies, failed, crashes,
                     merges, exited, chosen, outdated>>
  BY DEF Arrives, promises, relayed
<1>2. item' \in ItemType
  <2>1. PICK c \in Commands, n \in Threads \cup {NoThread} :
            /\ n = NoThread <=> c \in {"exit", "say"}
            /\ item' = [cmd |-> c, seat |-> s, name |-> n]
    BY DEF Arrives
  <2> QED
    BY <2>1 DEF ItemType
<1>3. item' # NoItem /\ item'.cmd \in Commands /\ item'.seat \in Seats
  BY <1>2, NothingInHand DEF ItemType, Commands
<1>4. items' \in 0..MaxItems /\ 0 \in 0..(MaxCrashes + 1) /\ crashes \in Nat
  BY <1>1, RoutingAssumption DEF Core, TypeOK
<1>5. TypeOK'
  BY <1>1, <1>3, <1>4 DEF Core, TypeOK
<1>6. HandOK'
  BY <1>1, <1>2 DEF Core, HandOK, TypeOK
<1>7. Copied'
  BY <1>1, <1>4 DEF Core, Copied
<1> QED
  BY <1>5, <1>6, <1>7 DEF Core

LEMMA RefusesCore == Core /\ Refuses => Core'
<1> SUFFICES ASSUME Core, Refuses PROVE Core'
  OBVIOUS
<1>1. /\ item # NoItem /\ step = "new" /\ Refused /\ step' = "refused"
      /\ UNCHANGED <<mem, disk, identity, item, toSave, toRelay, copies, failed, items, crashes,
                     merges, exited, chosen, outdated>>
  BY DEF Refuses, counters, promises, relayed
<1>2. toSave = <<>> /\ toRelay = {} /\ item.cmd \in {"create", "join", "leave", "switch"}
  BY <1>1 DEF Core, HandOK, Refused
<1>3. TypeOK'
  BY <1>1 DEF Core, TypeOK
<1>4. HandOK'
  BY <1>1, <1>2 DEF Core, HandOK
<1>5. Copied'
  BY <1>1, <1>2 DEF Core, Copied
<1> QED
  BY <1>3, <1>4, <1>5 DEF Core

LEMMA SavesCore == Core /\ Saves => Core'
<1> SUFFICES ASSUME Core, Saves PROVE Core'
  OBVIOUS
<1>1. /\ toSave # <<>> /\ disk' = [disk EXCEPT ![Head(toSave)] = mem[Head(toSave)]]
      /\ toSave' = Tail(toSave)
      /\ UNCHANGED <<mem, identity, item, step, toRelay, copies, failed, items, crashes, merges,
                     exited, chosen, outdated>>
  BY DEF Saves, counters, promises, relayed
<1>2. Head(toSave) \in Maps /\ Tail(toSave) \in Seq(Maps)
  BY <1>1, HeadTailProperties DEF Core, HandOK
<1>3. mem \in MapsType /\ disk \in MapsType
  BY DEF Core, TypeOK
<1>4. disk' \in MapsType
  <2> DEFINE f == Head(toSave)
  <2>1. f \in {"threads", "active", "paused"} /\ disk' = [disk EXCEPT ![f] = mem[f]]
    BY <1>1, <1>2 DEF Maps
  <2> HIDE DEF f
  <2> QED
    BY <1>3, <2>1 DEF MapsType
<1>5. item # NoItem /\ step = "done"
  BY <1>1 DEF Core, TypeOK, HandOK
<1>6. TypeOK'
  BY <1>1, <1>4, <1>5 DEF Core, TypeOK
<1>7. HandOK'
  BY <1>1, <1>2, <1>5 DEF Core, HandOK
<1>8. Copied'
  BY <1>1 DEF Core, Copied
<1> QED
  BY <1>6, <1>7, <1>8 DEF Core

LEMMA RelaysCore ==
    ASSUME Core, NEW c \in Chats, Relays(c)
    PROVE  Core'
<1>1. /\ c \in toRelay /\ toRelay' = toRelay \ {c}
      /\ \/ copies' = [copies EXCEPT ![c] = @ + 1] /\ failed' = failed
         \/ copies' = copies /\ failed' = failed \cup {c}
      /\ UNCHANGED <<mem, disk, identity, item, step, toSave, items, crashes, merges,
                     exited, chosen, outdated>>
  BY DEF Relays, counters, promises
<1>2. /\ copies \in [Chats -> 0..(MaxCrashes + 1)] /\ crashes \in 0..MaxCrashes
      /\ MaxCrashes \in Nat /\ item # NoItem /\ step = "done" /\ failed \subseteq Chats
  BY <1>1, RoutingAssumption DEF Core, TypeOK, HandOK
<1>3. copies[c] \in Nat /\ copies[c] <= crashes
  BY <1>1, <1>2 DEF Core, Copied
<1>4. /\ copies' \in [Chats -> 0..(MaxCrashes + 1)]
      /\ copies'[c] \in {copies[c], copies[c] + 1}
      /\ \A d \in Chats \ {c} : copies'[d] = copies[d]
  BY <1>1, <1>2, <1>3
<1>5. TypeOK'
  BY <1>1, <1>2, <1>4 DEF Core, TypeOK
<1>6. HandOK'
  BY <1>1, <1>2 DEF Core, HandOK
<1>7. Copied'
  <2> SUFFICES ASSUME NEW d \in Chats
               PROVE  /\ copies'[d] \in Nat /\ copies'[d] <= crashes + 1
                      /\ d \in toRelay' => copies'[d] <= crashes
    BY <1>1, <1>2 DEF Copied
  <2>1. /\ copies[d] \in Nat /\ copies[d] <= crashes + 1
        /\ d \in toRelay => copies[d] <= crashes
    BY <1>2 DEF Core, Copied
  <2> QED
    BY <1>1, <1>2, <1>3, <1>4, <2>1
<1> QED
  BY <1>5, <1>6, <1>7 DEF Core

\* What the sender may rely on has its type, whether it was answered or not.
LEMMA PromisesType ==
    ASSUME Core, item # NoItem, NEW answered \in BOOLEAN, Promises(answered)
    PROVE  /\ exited' \in [Accounts -> SUBSET Threads]
           /\ chosen' \in [Accounts -> Threads \cup {NoThread}]
           /\ outdated' = outdated
<1>1. item.cmd \in {"join", "switch"} => item.name \in Threads
  BY ItemParts DEF Core
<1>2. exited' \in [Accounts -> SUBSET Threads]
  <2>1. SeatedIn(item.seat.account) \subseteq Threads /\ exited \in [Accounts -> SUBSET Threads]
    BY DEF SeatedIn, Core, TypeOK
  <2> QED
    BY <2>1 DEF Promises
<1>3. chosen' \in [Accounts -> Threads \cup {NoThread}]
  <2>1. chosen \in [Accounts -> Threads \cup {NoThread}]
    BY DEF Core, TypeOK
  <2> QED
    BY <1>1, <2>1 DEF Promises
<1> QED
  BY <1>2, <1>3 DEF Promises

LEMMA FinishesCore == Core /\ (Finishes \/ Raises) => Core'
<1> SUFFICES ASSUME Core, Finishes \/ Raises PROVE Core'
  OBVIOUS
<1>1. /\ step # "new" /\ toSave = <<>> /\ toRelay' = {} /\ item' = NoItem /\ step' = "new"
      /\ copies' = [c \in Chats |-> 0] /\ failed' = {}
      /\ UNCHANGED <<mem, disk, identity, toSave, items, crashes, merges>>
      /\ \E answered \in BOOLEAN : Promises(answered)
  BY DEF Finishes, Raises, NoneInHand, counters
<1>2. item # NoItem
  BY <1>1 DEF Core, TypeOK
<1>3. /\ exited' \in [Accounts -> SUBSET Threads]
      /\ chosen' \in [Accounts -> Threads \cup {NoThread}]
      /\ outdated' = outdated
  BY <1>1, <1>2, PromisesType
<1>4. 0 \in 0..(MaxCrashes + 1) /\ crashes \in Nat
  BY RoutingAssumption DEF Core, TypeOK
<1>5. TypeOK'
  BY <1>1, <1>3, <1>4 DEF Core, TypeOK
<1>6. HandOK'
  BY <1>1 DEF Core, HandOK
<1>7. Copied'
  BY <1>1, <1>4 DEF Copied
<1> QED
  BY <1>5, <1>6, <1>7 DEF Core

LEMMA CrashesCore == Core /\ Crashes => Core'
<1> SUFFICES ASSUME Core, Crashes PROVE Core'
  OBVIOUS
<1>1. /\ crashes < MaxCrashes /\ item # NoItem /\ crashes' = crashes + 1 /\ mem' = disk
      /\ step' = "new" /\ toSave' = <<>> /\ toRelay' = {}
      /\ UNCHANGED <<disk, identity, item, copies, failed, items, merges, exited, chosen,
                     outdated>>
  BY DEF Crashes, promises, relayed
<1>2. crashes \in Nat /\ crashes' \in 0..MaxCrashes
  BY <1>1, RoutingAssumption DEF Core, TypeOK
<1>3. TypeOK'
  BY <1>1, <1>2 DEF Core, TypeOK
<1>4. HandOK'
  BY <1>1, SaveLists DEF Core, HandOK
<1>5. Copied'
  BY <1>1, <1>2 DEF Core, Copied
<1> QED
  BY <1>3, <1>4, <1>5 DEF Core

LEMMA ConfirmsCore ==
    ASSUME Core, NEW a \in Accounts, NEW b \in Accounts, Confirms(a, b)
    PROVE  Core'
<1>1. /\ item = NoItem /\ merges < MaxMerges /\ merges' = merges + 1
      /\ identity' = Merged(identity, a, b)
      /\ UNCHANGED <<mem, disk, item, step, toSave, toRelay, copies, failed, items, crashes,
                     exited, chosen>>
  BY DEF Confirms, relayed
<1>2. merges' \in 0..MaxMerges
  BY <1>1, RoutingAssumption DEF Core, TypeOK
<1>3. identity' \in Seq(EntryType)
  BY <1>1, MergedType DEF Core, HandOK
<1>4. \A i \in DOMAIN identity' : identity'[i].person \in Users
  <2> DEFINE known == identity'
  <2>1. known \in Seq(EntryType)
    BY <1>3
  <2> HIDE DEF known
  <2>2. \A i \in DOMAIN known : known[i] \in EntryType
    BY <2>1, LenProperties, ElementOfSeq
  <2>3. \A i \in DOMAIN known : known[i].person \in Users
    BY <2>2 DEF EntryType
  <2> QED
    BY <2>3 DEF known
<1>5. outdated' \subseteq Accounts
  BY DEF Confirms
<1>6. TypeOK'
  BY <1>1, <1>2, <1>4, <1>5 DEF Core, TypeOK
<1>7. HandOK'
  BY <1>1, <1>3 DEF Core, HandOK, TypeOK
<1>8. Copied'
  BY <1>1 DEF Core, Copied
<1> QED
  BY <1>6, <1>7, <1>8 DEF Core

LEMMA CoreStep == Core /\ [Next]_vars => Core'
<1> SUFFICES ASSUME Core, [Next]_vars PROVE Core'
  OBVIOUS
<1>1. CASE UNCHANGED vars
  BY <1>1 DEF vars, Core, TypeOK, HandOK, Copied
<1>2. CASE Next
  BY <1>2, ArrivalCore, CommandCore, RefusesCore, SavesCore, FinishesCore, CrashesCore,
     RelaysCore, ConfirmsCore DEF Next
<1> QED
  BY <1>1, <1>2

LEMMA InitCore == Init => Core
<1> SUFFICES ASSUME Init PROVE Core
  OBVIOUS
<1> USE DEF Init
<1>1. mem \in MapsType
  BY EmptySeq DEF MapsType
<1>2. identity \in Seq(EntryType) /\ toSave \in Seq(Maps)
  BY EmptySeq
<1>3. 0 \in 0..MaxItems /\ 0 \in 0..MaxCrashes /\ 0 \in 0..MaxMerges
      /\ 0 \in 0..(MaxCrashes + 1)
  BY RoutingAssumption
<1>4. TypeOK
  BY <1>1, <1>3 DEF TypeOK
<1>5. HandOK /\ Copied
  BY <1>2 DEF HandOK, Copied
<1> QED
  BY <1>4, <1>5 DEF Core

LEMMA CoreInvariant == Spec => []Core
BY InitCore, CoreStep, PTL DEF Spec

\* Type correctness: the maps in memory and on disk, the identity map, the file in
\* hand, and how often a chat may get a message.
THEOREM TypeCorrect == Spec => []TypeOK
<1>1. Core => TypeOK
  BY DEF Core
<1> QED
  BY <1>1, CoreInvariant, PTL

----------------------------------------------------------------------------
(* What was answered is saved. *)

Files(q) == {q[i] : i \in DOMAIN q}

Left == Files(toSave)

\* A map that differs from its file is still to be saved.
Saved == \A f \in Maps : f \in Left \/ mem[f] = disk[f]

LEMMA FilesOf ==
    ASSUME NEW q
    PROVE  /\ q = <<>> => Files(q) = {}
           /\ q = <<"threads">> => "threads" \in Files(q)
           /\ q = <<"paused">> => "paused" \in Files(q)
           /\ q = <<"threads", "paused">> => "threads" \in Files(q) /\ "paused" \in Files(q)
           /\ q = <<"active", "paused">> => "active" \in Files(q) /\ "paused" \in Files(q)
<1>1. q = <<>> => Files(q) = {}
  BY DEF Files
<1>2. ASSUME NEW f, q = <<f>>
      PROVE  f \in Files(q)
  <2>1. 1 \in DOMAIN q /\ q[1] = f
    BY <1>2
  <2> QED
    BY <2>1 DEF Files
<1>3. ASSUME NEW f, NEW g, q = <<f, g>>
      PROVE  f \in Files(q) /\ g \in Files(q)
  <2>1. 1 \in DOMAIN q /\ q[1] = f /\ 2 \in DOMAIN q /\ q[2] = g
    BY <1>3
  <2> QED
    BY <2>1 DEF Files
<1> QED
  BY <1>1, <1>2, <1>3

\* Before a command, and between files, nothing is left to save.
LEMMA NothingLeft ==
    ASSUME Core, Saved, toSave = <<>> \/ step # "done"
    PROVE  /\ mem.threads = disk.threads /\ mem.active = disk.active
           /\ mem.paused = disk.paused /\ mem = disk
<1>1. toSave = <<>>
  BY DEF Core, HandOK
<1>2. mem["threads"] = disk["threads"] /\ mem["active"] = disk["active"]
      /\ mem["paused"] = disk["paused"]
  BY <1>1, FilesOf DEF Saved, Maps, Left
<1>3. mem \in MapsType /\ disk \in MapsType
  BY DEF Core, TypeOK
<1> QED
  BY <1>2, <1>3 DEF MapsType

\* A command changes only maps that it will save.
LEMMA CommandSaved ==
    ASSUME Core, Saved, Creates \/ Joins \/ Leaves \/ Exits \/ Switches \/ Says
    PROVE  Saved'
<1>1. /\ step = "new" /\ disk' = disk
      /\ \/ Creates /\ toSave' = <<"threads">>
         \/ Joins /\ toSave' = <<"threads", "paused">>
         \/ Leaves /\ toSave' = <<"threads">>
         \/ Exits /\ toSave' = <<"paused">>
         \/ Switches /\ toSave' = <<"active", "paused">>
         \/ Says
  <2>1. Creates => step = "new" /\ disk' = disk /\ toSave' = <<"threads">>
    BY DEF Creates, Runs
  <2>2. Joins => step = "new" /\ disk' = disk /\ toSave' = <<"threads", "paused">>
    BY DEF Joins, Runs
  <2>3. Leaves => step = "new" /\ disk' = disk /\ toSave' = <<"threads">>
    BY DEF Leaves, Runs
  <2>4. Exits => step = "new" /\ disk' = disk /\ toSave' = <<"paused">>
    BY DEF Exits, Runs
  <2>5. Switches => step = "new" /\ disk' = disk /\ toSave' = <<"active", "paused">>
    BY DEF Switches, Runs
  <2>6. Says => step = "new" /\ disk' = disk /\ toSave' = <<>>
    BY DEF Says, Runs
  <2> QED
    BY <2>1, <2>2, <2>3, <2>4, <2>5, <2>6
<1>2. /\ mem.threads = disk.threads /\ mem.active = disk.active /\ mem.paused = disk.paused
  BY <1>1, NothingLeft
<1>3. \/ "threads" \in Left' /\ mem'.active = mem.active /\ mem'.paused = mem.paused
      \/ "threads" \in Left' /\ "paused" \in Left' /\ mem'.active = mem.active
      \/ "paused" \in Left' /\ mem'.threads = mem.threads /\ mem'.active = mem.active
      \/ "active" \in Left' /\ "paused" \in Left' /\ mem'.threads = mem.threads
      \/ mem' = mem
  <2>1. /\ toSave' = <<"threads">> => "threads" \in Left'
        /\ toSave' = <<"paused">> => "paused" \in Left'
        /\ toSave' = <<"threads", "paused">> => "threads" \in Left' /\ "paused" \in Left'
        /\ toSave' = <<"active", "paused">> => "active" \in Left' /\ "paused" \in Left'
    BY FilesOf DEF Left
  <2>2. CASE Creates /\ toSave' = <<"threads">>
    BY <2>1, <2>2, CreatesMaps
  <2>3. CASE Joins /\ toSave' = <<"threads", "paused">>
    BY <2>1, <2>3, JoinsMaps
  <2>4. CASE Leaves /\ toSave' = <<"threads">>
    BY <2>1, <2>4, LeavesMaps
  <2>5. CASE Exits /\ toSave' = <<"paused">>
    BY <2>1, <2>5, ExitsMaps
  <2>6. CASE Switches /\ toSave' = <<"active", "paused">>
    BY <2>1, <2>6, SwitchesMaps
  <2>7. CASE Says
    BY <2>7 DEF Says
  <2> QED
    BY <1>1, <2>2, <2>3, <2>4, <2>5, <2>6, <2>7
<1>4. \A f \in Maps : f = "threads" \/ f = "active" \/ f = "paused"
  BY DEF Maps
<1> QED
  BY <1>1, <1>2, <1>3, <1>4 DEF Saved

LEMMA SavesSaved ==
    ASSUME Core, Saved, Saves
    PROVE  /\ Saved'
           /\ disk'.threads \in {mem.threads, disk.threads}
<1>1. /\ toSave # <<>> /\ disk' = [disk EXCEPT ![Head(toSave)] = mem[Head(toSave)]]
      /\ toSave' = Tail(toSave) /\ mem' = mem
  BY DEF Saves
<1>2. toSave \in Seq(Maps) /\ disk \in MapsType /\ mem \in MapsType
  BY DEF Core, HandOK, TypeOK
<1>3. /\ Head(toSave) \in Maps
      /\ \A i \in DOMAIN toSave \ {1} :
            i - 1 \in DOMAIN Tail(toSave) /\ toSave[i] = Tail(toSave)[i - 1]
      /\ Head(toSave) = toSave[1]
  <2> DEFINE r == Tail(toSave)
  <2>1. Len(toSave) \in Nat /\ DOMAIN toSave = 1..Len(toSave)
    BY <1>2, LenProperties
  <2>2. Head(toSave) \in Maps /\ r \in Seq(Maps) /\ Len(r) = Len(toSave) - 1
    BY <1>1, <1>2, HeadTailProperties
  <2>3. \A i \in 1..Len(r) : r[i] = toSave[i + 1]
    BY <1>1, <1>2, HeadTailProperties
  <2>4. DOMAIN r = 1..Len(r)
    BY <2>2, LenProperties
  <2>5. Head(toSave) = toSave[1]
    BY <1>1, <1>2
  <2> HIDE DEF r
  <2>6. ASSUME NEW i \in DOMAIN toSave, i # 1
        PROVE  i - 1 \in DOMAIN r /\ toSave[i] = r[i - 1]
    <3>1. i \in Int /\ i - 1 \in 1..Len(r)
      BY <2>1, <2>2, <2>6
    <3>2. r[i - 1] = toSave[(i - 1) + 1] /\ (i - 1) + 1 = i
      BY <2>3, <3>1
    <3> QED
      BY <2>4, <3>1, <3>2
  <2> QED
    BY <2>2, <2>5, <2>6 DEF r
<1>4. \A f \in Left : f = Head(toSave) \/ f \in Left'
  BY <1>1, <1>3 DEF Left, Files
<1> DEFINE h == Head(toSave)
<1>5. h \in Maps /\ disk' = [disk EXCEPT ![h] = mem[h]] /\ DOMAIN disk = Maps
  BY <1>1, <1>2, <1>3, MapsParts
<1>6. \A f \in Left : f = h \/ f \in Left'
  BY <1>4
<1> HIDE DEF h
<1>7. disk'[h] = mem[h] /\ \A f \in Maps \ {h} : disk'[f] = disk[f]
  BY <1>5
<1>8. Saved'
  BY <1>1, <1>6, <1>7 DEF Saved
<1>9. disk'["threads"] = mem["threads"] \/ disk'["threads"] = disk["threads"]
  BY <1>7 DEF Maps
<1> QED
  BY <1>8, <1>9

LEMMA SavedStep == Core /\ Saved /\ [Next]_vars => Saved'
<1> SUFFICES ASSUME Core, Saved, [Next]_vars PROVE Saved'
  OBVIOUS
<1>1. CASE UNCHANGED <<mem, disk, toSave>>
  BY <1>1 DEF Saved, Left, Files
<1>2. CASE Creates \/ Joins \/ Leaves \/ Exits \/ Switches \/ Says
  BY <1>2, CommandSaved
<1>3. CASE Saves
  BY <1>3, SavesSaved
<1>4. CASE Crashes
  BY <1>4 DEF Crashes, Saved
<1>5. CASE (\E s \in Seats : Arrives(s)) \/ Refuses \/ Finishes \/ Raises
            \/ (\E c \in Chats : Relays(c))
  BY <1>1, <1>5 DEF Arrives, Refuses, Finishes, Raises, NoneInHand, Relays
<1>6. CASE \E a, b \in Accounts : Confirms(a, b)
  BY <1>1, <1>6 DEF Confirms
<1>7. CASE UNCHANGED vars
  BY <1>1, <1>7 DEF vars
<1> QED
  BY <1>2, <1>3, <1>4, <1>5, <1>6, <1>7 DEF Next

LEMMA SavedInvariant == Spec => []Saved
<1>1. Init => Saved
  BY DEF Init, Saved
<1> QED
  BY <1>1, SavedStep, CoreInvariant, PTL DEF Spec

\* A command that was answered survives a kill: when no file is in hand the three
\* files say together what the maps in memory say.
THEOREM MapsAreSaved == Spec => []SavedWhenIdle
<1>1. Core /\ Saved => SavedWhenIdle
  BY NothingLeft DEF SavedWhenIdle, Core, TypeOK
<1> QED
  BY <1>1, SavedInvariant, CoreInvariant, PTL

----------------------------------------------------------------------------
(* One member per person. *)

Distinct(ms) == \A j, k \in DOMAIN ms : ms[j].person = ms[k].person => j = k

\* A member has the name that its accounts have now.
RightNames(ms) ==
    \A k \in DOMAIN ms : \A s \in ms[k].seats :
        s.account \notin outdated => ms[k].person = Person(s.account)

OneEach(threads) ==
    \A i \in DOMAIN threads : Distinct(threads[i].members) /\ RightNames(threads[i].members)

\* All accounts of a person are outdated, or none.
AllOrNone == \A a, b \in Accounts : Same(a, b) /\ b \in outdated => a \in outdated

OneEachBoth == OneEach(mem.threads) /\ OneEach(disk.threads) /\ AllOrNone

\* Only a confirmed claim changes names.
LEMMA NamesStay ==
    ASSUME [Next]_vars, ~ \E a, b \in Accounts : Confirms(a, b)
    PROVE  UNCHANGED <<identity, outdated>>
<1>1. CASE Creates \/ Joins \/ Leaves \/ Exits \/ Switches \/ Says
  BY <1>1 DEF Creates, Joins, Leaves, Exits, Switches, Says, Runs, promises
<1>2. CASE (\E s \in Seats : Arrives(s)) \/ Refuses \/ Saves \/ (\E c \in Chats : Relays(c))
  BY <1>2 DEF Arrives, Refuses, Saves, Relays, promises
<1>3. CASE Finishes \/ Raises \/ Crashes \/ UNCHANGED vars
  BY <1>3 DEF Finishes, Raises, NoneInHand, Promises, Crashes, promises, vars
<1> QED
  BY <1>1, <1>2, <1>3 DEF Next

LEMMA OneEachStays ==
    ASSUME UNCHANGED <<identity, outdated>>, OneEach(mem'.threads), OneEach(disk'.threads),
           AllOrNone
    PROVE  OneEachBoth'
<1>2. AllOrNone'
  BY DEF AllOrNone, Same, Person
<1>3. OneEach(mem.threads)' /\ OneEach(disk.threads)'
  BY DEF OneEach, Distinct, RightNames, Person
<1> QED
  BY <1>2, <1>3 DEF OneEachBoth

LEMMA JoinedNames ==
    ASSUME NEW ks \in SUBSET Chats, NEW ms \in [ks -> MemberType], NEW s \in Seats,
           RightNames(ms)
    PROVE  RightNames(Joined(ms, s))
<1> DEFINE js == Joined(ms, s)
           p == Person(s.account)
           wide(k) == [ms[k] EXCEPT !.seats = @ \cup {s}]
<1>0. DOMAIN ms = ks /\ \A k \in ks : ms[k] \in MemberType
  OBVIOUS
<1>1. \A k \in ks : wide(k).person = ms[k].person /\ wide(k).seats = ms[k].seats \cup {s}
  BY <1>0 DEF MemberType
<1>2. Member(s).person = p /\ Member(s).seats = {s}
  BY DEF Member
<1> HIDE DEF wide
<1>3. CASE \E k \in ks : ms[k].person = p
  <2>1. js = [k \in ks |-> IF ms[k].person = p THEN wide(k) ELSE ms[k]]
    BY <1>0, <1>3 DEF Joined, wide
  <2>2. /\ DOMAIN js = ks
        /\ \A k \in ks : js[k] = IF ms[k].person = p THEN wide(k) ELSE ms[k]
    BY <2>1
  <2> HIDE DEF js
  <2> SUFFICES ASSUME NEW k \in ks, NEW r \in js[k].seats, r.account \notin outdated
               PROVE  js[k].person = Person(r.account)
    BY <2>2 DEF RightNames, js
  <2>3. CASE ms[k].person = p
    BY <1>0, <1>1, <2>2, <2>3 DEF RightNames
  <2>4. CASE ms[k].person # p
    BY <1>0, <2>2, <2>4 DEF RightNames
  <2> QED
    BY <2>3, <2>4
<1>4. CASE ~ \E k \in ks : ms[k].person = p
  <2>1. js = [k \in ks \cup {s.chat} |-> IF k = s.chat THEN Member(s) ELSE ms[k]]
    BY <1>0, <1>4 DEF Joined
  <2>2. /\ DOMAIN js = ks \cup {s.chat}
        /\ \A k \in ks \cup {s.chat} : js[k] = IF k = s.chat THEN Member(s) ELSE ms[k]
    BY <2>1
  <2> HIDE DEF js
  <2> SUFFICES ASSUME NEW k \in ks \cup {s.chat}, NEW r \in js[k].seats,
                      r.account \notin outdated
               PROVE  js[k].person = Person(r.account)
    BY <2>2 DEF RightNames, js
  <2> QED
    BY <1>0, <1>2, <2>2 DEF RightNames
<1> QED
  BY <1>3, <1>4

LEMMA CreatesOne ==
    ASSUME Core, OneEach(mem.threads), Creates
    PROVE  OneEach(mem'.threads)
<1> DEFINE t == [name |-> item.name,
                 members |-> [k \in {item.seat.chat} |-> Member(item.seat)]]
           ts == mem.threads
<1>1. t \in ThreadType /\ mem'.threads = Append(ts, t)
  BY CreatesMaps
<1>2. ts \in Seq(ThreadType) /\ DOMAIN ts = 1..Len(ts)
  BY MapsParts DEF Core, TypeOK
<1>3. Distinct(t.members) /\ RightNames(t.members)
  BY DEF Distinct, RightNames, Member
<1> HIDE DEF t
<1>4. \A i \in DOMAIN Append(ts, t) :
         (i \in DOMAIN ts /\ Append(ts, t)[i] = ts[i]) \/ Append(ts, t)[i] = t
  BY <1>1, <1>2, AppendProperties
<1> QED
  BY <1>1, <1>3, <1>4 DEF OneEach

LEMMA JoinsOne ==
    ASSUME Core, OneEach(mem.threads), Joins
    PROVE  OneEach(mem'.threads)
<1> DEFINE ts == mem.threads
           s == item.seat
<1>1. PICK i \in Index(item.name) :
          /\ s.chat \notin DOMAIN ts[i].members
          /\ mem'.threads = [ts EXCEPT ![i].members = Joined(@, s)]
  BY JoinsMaps
<1>2. /\ i \in DOMAIN ts /\ ts \in Seq(ThreadType)
      /\ \A j \in DOMAIN ts : ts[j] \in ThreadType
  BY <1>1, MapsParts DEF Core, TypeOK, Index
<1>3. s \in Seats /\ Person(s.account) \in Users
  BY JoinsMaps, ItemParts DEF Core
<1> DEFINE ms == ts[i].members
           ks == DOMAIN ms
           js == Joined(ms, s)
<1>4. ks \in SUBSET Chats /\ ms \in [ks -> MemberType] /\ s.chat \notin ks
  BY <1>1, <1>2, ThreadParts
<1>5. Distinct(ms) /\ RightNames(ms)
  BY <1>2 DEF OneEach
<1>6. mem'.threads = [ts EXCEPT ![i].members = js]
  BY <1>1
<1> HIDE DEF s, ks
<1>7. /\ DOMAIN js \in SUBSET Chats /\ js \in [DOMAIN js -> MemberType]
      /\ Distinct(js) /\ RightNames(js)
  <2> HIDE DEF ms
  <2>1. \A j, k \in ks : ms[j].person = ms[k].person => j = k
    BY <1>4, <1>5 DEF Distinct
  <2>2. RightNames(js)
    BY <1>3, <1>4, <1>5, JoinedNames
  <2> QED
    BY <1>3, <1>4, <2>1, <2>2, JoinedMembers DEF Distinct
<1> HIDE DEF js
<1>8. [ts EXCEPT ![i].members = js][i].members = js
      /\ \A j \in DOMAIN ts \ {i} : [ts EXCEPT ![i].members = js][j] = ts[j]
  BY <1>2, <1>7, MembersChanged
<1>9. DOMAIN [ts EXCEPT ![i].members = js] = DOMAIN ts
  OBVIOUS
<1> DEFINE us == mem'.threads
<1>10. us[i].members = js /\ DOMAIN us = DOMAIN ts /\ \A j \in DOMAIN ts \ {i} : us[j] = ts[j]
  BY <1>6, <1>8, <1>9
<1> HIDE DEF us
<1>11. OneEach(us)
  BY <1>7, <1>10 DEF OneEach
<1> QED
  BY <1>11 DEF us

LEMMA LeavesOne ==
    ASSUME Core, OneEach(mem.threads), Leaves
    PROVE  OneEach(mem'.threads)
<1> DEFINE ts == mem.threads
           us == mem'.threads
<1>1. PICK i \in Index(item.name) :
          us = [ts EXCEPT ![i].members =
                             [k \in DOMAIN @ \ {item.seat.chat} |-> @[k]]]
  BY LeavesMaps
<1>2. /\ i \in DOMAIN ts /\ \A j \in DOMAIN ts : ts[j] \in ThreadType
  BY <1>1, MapsParts DEF Core, TypeOK, Index
<1> DEFINE ks == DOMAIN ts[i].members \ {item.seat.chat}
           ls == [k \in ks |-> ts[i].members[k]]
<1>3. us = [ts EXCEPT ![i].members = ls]
  BY <1>1
<1>4. us[i].members = ls /\ DOMAIN us = DOMAIN ts /\ \A j \in DOMAIN ts \ {i} : us[j] = ts[j]
  BY <1>2, <1>3 DEF ThreadType
<1>5. DOMAIN ls = ks /\ \A k \in ks : ls[k] = ts[i].members[k] /\ k \in DOMAIN ts[i].members
  OBVIOUS
<1> HIDE DEF us, ls, ks
<1>6. Distinct(ls) /\ RightNames(ls)
  BY <1>2, <1>5 DEF OneEach, Distinct, RightNames
<1>7. OneEach(us)
  BY <1>4, <1>6 DEF OneEach
<1> QED
  BY <1>7 DEF us

LEMMA ConfirmsOne ==
    ASSUME Core, Saved, OneEachBoth, NEW a \in Accounts, NEW b \in Accounts, Confirms(a, b)
    PROVE  OneEachBoth'
<1> DEFINE left == {d \in Accounts : OnRecord(d) /\ Resolve(identity', d) # Person(d)}
<1>1. /\ item = NoItem /\ UNCHANGED <<mem, disk>>
      /\ outdated' = {d \in Accounts : \E c \in outdated \cup left :
                          Resolve(identity', d) = Resolve(identity', c)}
  BY DEF Confirms
<1>2. mem.threads = disk.threads
  BY <1>1, NothingLeft DEF Core, TypeOK
<1>3. outdated \subseteq outdated' /\ left \subseteq outdated'
  <2>1. outdated \subseteq Accounts
    BY DEF Core, TypeOK
  <2> HIDE DEF left
  <2>2. \A d \in Accounts : d \in outdated \cup left => d \in outdated'
    BY <1>1
  <2> QED
    BY <2>1, <2>2 DEF left
<1>4. AllOrNone'
  <2> HIDE DEF left
  <2> SUFFICES ASSUME NEW c \in Accounts, NEW d \in Accounts, Same(c, d)', d \in outdated'
               PROVE  c \in outdated'
    BY DEF AllOrNone
  <2>1. Resolve(identity', c) = Resolve(identity', d)
    BY DEF Same, Person
  <2> QED
    BY <1>1, <2>1
<1>5. ASSUME NEW i \in DOMAIN mem.threads, NEW k \in DOMAIN mem.threads[i].members,
             NEW s \in mem.threads[i].members[k].seats, s.account \notin outdated'
      PROVE  mem.threads[i].members[k].person = Resolve(identity', s.account)
  <2>1. mem.threads[i] \in ThreadType
    BY MapsParts DEF Core, TypeOK
  <2>2. mem.threads[i].members[k] \in MemberType
    BY <2>1, ThreadParts
  <2>3. s.account \in Accounts
    BY <2>2, SeatParts DEF MemberType
  <2>4. OnRecord(s.account)
    BY DEF OnRecord
  <2>5. Resolve(identity', s.account) = Person(s.account)
    BY <1>3, <1>5, <2>3, <2>4
  <2>6. mem.threads[i].members[k].person = Person(s.account)
    BY <1>3, <1>5 DEF OneEachBoth, OneEach, RightNames
  <2> QED
    BY <2>5, <2>6
<1>6. OneEach(mem.threads)'
  <2>1. \A i \in DOMAIN mem.threads : Distinct(mem.threads[i].members)
    BY DEF OneEachBoth, OneEach
  <2>2. \A i \in DOMAIN mem.threads : RightNames(mem.threads[i].members)'
    BY <1>1, <1>5 DEF RightNames, Person
  <2> QED
    BY <1>1, <2>1, <2>2 DEF OneEach, Distinct
<1>7. OneEach(disk.threads)'
  BY <1>1, <1>2, <1>6 DEF OneEach, Distinct, RightNames
<1> QED
  BY <1>4, <1>6, <1>7 DEF OneEachBoth

LEMMA OneEachStep == Core /\ Saved /\ OneEachBoth /\ [Next]_vars => OneEachBoth'
<1> SUFFICES ASSUME Core, Saved, OneEachBoth, [Next]_vars PROVE OneEachBoth'
  OBVIOUS
<1>0. OneEach(mem.threads) /\ OneEach(disk.threads) /\ AllOrNone
  BY DEF OneEachBoth
<1>7. CASE \E a, b \in Accounts : Confirms(a, b)
  BY <1>7, ConfirmsOne
<1>n. CASE ~ \E a, b \in Accounts : Confirms(a, b)
  <2>0. UNCHANGED <<identity, outdated>>
    BY <1>n, NamesStay
  <2>1. CASE UNCHANGED <<mem, disk>>
    BY <1>0, <2>0, <2>1, OneEachStays
  <2>2. CASE Creates \/ Joins \/ Leaves
    <3>1. OneEach(mem'.threads)
      BY <1>0, <2>2, CreatesOne, JoinsOne, LeavesOne
    <3>2. disk' = disk
      BY <2>2 DEF Creates, Joins, Leaves, Runs
    <3> QED
      BY <1>0, <2>0, <3>1, <3>2, OneEachStays
  <2>3. CASE Exits \/ Switches \/ Says
    <3>1. mem'.threads = mem.threads
      BY <2>3, ExitsMaps, SwitchesMaps DEF Says
    <3>2. disk' = disk
      BY <2>3 DEF Exits, Switches, Says, Runs
    <3> QED
      BY <1>0, <2>0, <3>1, <3>2, OneEachStays
  <2>4. CASE Saves
    <3>1. mem' = mem /\ disk'.threads \in {mem.threads, disk.threads}
      BY <2>4, SavesSaved DEF Saves
    <3> QED
      BY <1>0, <2>0, <3>1, OneEachStays
  <2>5. CASE Crashes
    BY <1>0, <2>0, <2>5, OneEachStays DEF Crashes
  <2>6. CASE (\E s \in Seats : Arrives(s)) \/ Refuses \/ Finishes \/ Raises
             \/ (\E c \in Chats : Relays(c))
    BY <2>1, <2>6 DEF Arrives, Refuses, Finishes, Raises, NoneInHand, Relays
  <2>8. CASE UNCHANGED vars
    BY <2>1, <2>8 DEF vars
  <2> QED
    BY <1>n, <2>2, <2>3, <2>4, <2>5, <2>6, <2>8 DEF Next
<1> QED
  BY <1>7, <1>n

LEMMA OneEachInvariant == Spec => []OneEachBoth
<1>1. Init => OneEachBoth
  BY DEF Init, OneEachBoth, OneEach, AllOrNone
<1> QED
  BY <1>1, OneEachStep, SavedInvariant, CoreInvariant, PTL DEF Spec

\* T-062: a thread has one member per person by the names the identity map gives now,
\* with whichever claims confirmed between the joins and wherever a join was
\* interrupted, but for who was recorded under a name a claim has changed.
THEOREM OneMember == Spec => []OneMemberPerPerson
<1>1. Core /\ OneEachBoth => OneMemberPerPerson
  <2> SUFFICES ASSUME Core, OneEachBoth, NEW i \in DOMAIN mem.threads,
                      NEW j \in DOMAIN mem.threads[i].members,
                      NEW k \in DOMAIN mem.threads[i].members,
                      NEW s \in mem.threads[i].members[j].seats,
                      NEW r \in mem.threads[i].members[k].seats,
                      Same(s.account, r.account), s.account \notin outdated
               PROVE  j = k
    BY DEF OneMemberPerPerson
  <2> DEFINE ms == mem.threads[i].members
  <2>1. mem.threads[i] \in ThreadType
    BY MapsParts DEF Core, TypeOK
  <2>2. ms[j] \in MemberType /\ ms[k] \in MemberType
    BY <2>1, ThreadParts
  <2>3. s.account \in Accounts /\ r.account \in Accounts
    BY <2>2, SeatParts DEF MemberType
  <2>4. r.account \notin outdated
    BY <2>3 DEF OneEachBoth, AllOrNone
  <2>5. Distinct(ms) /\ RightNames(ms)
    BY DEF OneEachBoth, OneEach
  <2>6. ms[j].person = Person(s.account) /\ ms[k].person = Person(r.account)
    BY <2>4, <2>5 DEF RightNames
  <2>7. ms[j].person = ms[k].person
    BY <2>6 DEF Same
  <2> HIDE DEF ms
  <2> QED
    BY <2>5, <2>7 DEF Distinct, ms
<1> QED
  BY <1>1, OneEachInvariant, CoreInvariant, PTL

----------------------------------------------------------------------------
(* A message reaches the other bridges. *)

\* A chat the message in hand is for has got it, or its copy could not be written, or
\* it is still to get it.
Relayed ==
    item.cmd = "say" /\ step = "done" /\ Route(item.seat) # NoThread =>
        \A c \in RelayTargets(item.seat, Route(item.seat)) :
            c \in toRelay \/ c \in failed \/ copies[c] >= 1

LEMMA RelayedStep == Core /\ Relayed /\ [Next]_vars => Relayed'
<1> SUFFICES ASSUME Core, Relayed, [Next]_vars, item'.cmd = "say", step' = "done",
                    Route(item.seat)' # NoThread,
                    NEW c \in RelayTargets(item.seat, Route(item.seat))'
             PROVE  c \in toRelay' \/ c \in failed' \/ copies'[c] >= 1
  BY DEF Relayed
<1> DEFINE Target == c \in RelayTargets(item.seat, Route(item.seat))
<1>0. ASSUME UNCHANGED <<mem, identity, item>>
      PROVE  Route(item.seat) # NoThread /\ Target
  <2>1. Route(item.seat)' = Route(item.seat)
    BY <1>0 DEF Route, RouteBy, Person
  <2>2. RelayTargets(item.seat, Route(item.seat))'
           = RelayTargets(item.seat, Route(item.seat))
    BY <1>0, <2>1 DEF RelayTargets
  <2> QED
    BY <2>1, <2>2
<1>1. CASE UNCHANGED <<mem, identity, item, step, toRelay, copies, failed>>
  BY <1>0, <1>1 DEF Relayed
<1>2. CASE Creates \/ Joins \/ Leaves \/ Exits \/ Switches
  BY <1>2 DEF Creates, Joins, Leaves, Exits, Switches, Runs
<1>3. CASE Says
  <2>1. UNCHANGED <<mem, identity, item>>
    BY <1>3 DEF Says, Runs
  <2>2. Route(item.seat) # NoThread /\ Target
    BY <1>0, <2>1
  <2> QED
    BY <1>3, <2>2 DEF Says
<1>4. CASE Refuses \/ Finishes \/ Raises \/ Crashes
  BY <1>4 DEF Refuses, Finishes, Raises, NoneInHand, Crashes
<1>5. CASE (\E s \in Seats : Arrives(s)) \/ (\E a, b \in Accounts : Confirms(a, b))
  <2>1. item = NoItem /\ step' = step
    BY <1>5 DEF Arrives, Confirms
  <2> QED
    BY <2>1 DEF Core, TypeOK
<1>6. CASE Saves
  BY <1>1, <1>6 DEF Saves, relayed
<1>7. ASSUME NEW d \in Chats, Relays(d)
      PROVE  c \in toRelay' \/ c \in failed' \/ copies'[c] >= 1
  <2>1. /\ d \in toRelay /\ toRelay' = toRelay \ {d}
        /\ \/ copies' = [copies EXCEPT ![d] = @ + 1] /\ failed' = failed
           \/ copies' = copies /\ failed' = failed \cup {d}
        /\ UNCHANGED <<mem, identity, item, step>>
    BY <1>7 DEF Relays
  <2>2. c \in toRelay \/ c \in failed \/ copies[c] >= 1
    BY <1>0, <2>1 DEF Relayed
  <2>3. /\ copies \in [Chats -> 0..(MaxCrashes + 1)] /\ \A x \in Chats : copies[x] \in Nat
        /\ c \in Chats
    BY <2>1, SeatParts DEF Core, TypeOK, Copied, RelayTargets
  <2>4. CASE copies' = [copies EXCEPT ![d] = @ + 1] /\ failed' = failed
    <3>1. copies'[d] = copies[d] + 1 /\ (c # d => copies'[c] = copies[c])
      BY <2>3, <2>4
    <3> QED
      BY <2>1, <2>2, <2>3, <2>4, <3>1
  <2>5. CASE copies' = copies /\ failed' = failed \cup {d}
    BY <2>1, <2>2, <2>5
  <2> QED
    BY <2>1, <2>4, <2>5
<1>8. CASE UNCHANGED vars
  BY <1>1, <1>8 DEF vars
<1> QED
  BY <1>2, <1>3, <1>4, <1>5, <1>6, <1>7, <1>8 DEF Next

LEMMA RelayedInvariant == Spec => []Relayed
<1>1. Init => Relayed
  BY NothingInHand DEF Init, Relayed
<1> QED
  BY <1>1, RelayedStep, CoreInvariant, PTL DEF Spec

\* T-063: when a message of a thread is done, each chat of the thread on another
\* bridge has got it, or its own copy could not be written; and no chat gets more
\* than one copy and one more for each kill.
THEOREM MessagesAreRelayed == Spec => RelayReachesOthers
<1> DEFINE Reaches ==
        Finishes /\ item.cmd = "say" /\ Route(item.seat) # NoThread
        => \A i \in Index(Route(item.seat)) :
              \A s \in Seats :
                 /\ s.chat \in Addresses(mem.threads[i])
                 /\ s.account.bridge # item.seat.account.bridge
                 => /\ copies[s.chat] <= 1 + crashes
                    /\ copies[s.chat] = 0 => s.chat \in failed
<1>1. Core /\ Relayed => Reaches
  <2> SUFFICES ASSUME Core, Relayed, Finishes, item.cmd = "say", Route(item.seat) # NoThread,
                      NEW i \in Index(Route(item.seat)), NEW s \in Seats,
                      s.chat \in Addresses(mem.threads[i]),
                      s.account.bridge # item.seat.account.bridge
               PROVE  /\ copies[s.chat] <= 1 + crashes
                      /\ copies[s.chat] = 0 => s.chat \in failed
    OBVIOUS
  <2>1. step = "done" /\ toRelay = {}
    BY DEF Finishes, Core, TypeOK, HandOK
  <2>2. s.chat \in RelayTargets(item.seat, Route(item.seat))
    BY DEF RelayTargets, Index
  <2>3. s.chat \in failed \/ copies[s.chat] >= 1
    BY <2>1, <2>2 DEF Relayed
  <2>4. /\ copies[s.chat] \in Nat /\ copies[s.chat] <= crashes + 1 /\ crashes \in Nat
    BY SeatParts, RoutingAssumption DEF Core, TypeOK, Copied
  <2> QED
    BY <2>3, <2>4
<1>2. [][Reaches]_vars => RelayReachesOthers
  BY DEF RelayReachesOthers
<1> HIDE DEF Reaches
<1> QED
  BY <1>1, <1>2, RelayedInvariant, CoreInvariant, PTL

----------------------------------------------------------------------------
(* Where a sender's messages go is changed by nobody else. *)

\* A leave takes the member with it of which c is an address.
TakesAddress(threads, c) ==
    /\ item.cmd = "leave"
    /\ \E i \in DOMAIN threads :
          /\ item.seat.chat \in DOMAIN threads[i].members
          /\ c \in ChatsOf(threads[i].members[item.seat.chat])

\* Two versions of the maps differ in what is the sender's own, in the chat it
\* wrote in, and in the addresses a leave takes.
Alike(m, n) ==
    /\ \A p \in Users :
          \/ m.paused[p] = n.paused[p] /\ m.active[p] = n.active[p]
          \/ item # NoItem /\ p = Person(item.seat.account)
    /\ \A s \in Seats :
          \/ ThreadOf(m.threads, s.chat) = ThreadOf(n.threads, s.chat)
          \/ item # NoItem /\ item.seat.chat = s.chat
          \/ TakesAddress(m.threads, s.chat) \/ TakesAddress(n.threads, s.chat)

DiskDiffers == Alike(mem, disk)

LEMMA ThreadsMoved ==
    ASSUME Core, Creates \/ Joins \/ Leaves, NEW c, c # item.seat.chat,
           ~ TakesAddress(mem.threads, c)
    PROVE  ThreadOf(mem'.threads, c) = ThreadOf(mem.threads, c)
<1> DEFINE ts == mem.threads
           us == mem'.threads
<1>0. /\ ts \in Seq(ThreadType) /\ DOMAIN ts = 1..Len(ts) /\ Len(ts) \in Nat
      /\ \A j \in DOMAIN ts : ts[j] \in ThreadType
  BY MapsParts, LenProperties DEF Core, TypeOK
<1>1. us \in Seq(ThreadType)
  BY CreatesMaps, JoinsMaps, LeavesMaps, MapsParts
<1>2. CASE Creates
  <2> DEFINE t == [name |-> item.name,
                   members |-> [k \in {item.seat.chat} |-> Member(item.seat)]]
  <2>1. us = Append(ts, t) /\ Addresses(t) = {item.seat.chat} /\ t \in ThreadType
    BY <1>2, CreatesMaps
  <2> HIDE DEF t
  <2>2. /\ DOMAIN us = 1..(Len(ts) + 1) /\ us[Len(ts) + 1] = t
        /\ \A i \in 1..Len(ts) : us[i] = ts[i]
    <3>1. Append(ts, t) \in Seq(ThreadType) /\ Len(Append(ts, t)) = Len(ts) + 1
          /\ Append(ts, t)[Len(ts) + 1] = t /\ \A i \in 1..Len(ts) : Append(ts, t)[i] = ts[i]
      BY <1>0, <2>1, AppendProperties
    <3>2. DOMAIN us = 1..Len(us)
      BY <1>1, LenProperties
    <3> QED
      BY <2>1, <3>1, <3>2
  <2> HIDE DEF us, ts
  <2>3. ASSUME NEW i \in Nat
        PROVE  /\ i \in DOMAIN ts /\ c \in Addresses(ts[i])
                     <=> i \in DOMAIN us /\ c \in Addresses(us[i])
               /\ i \in DOMAIN ts /\ c \in Addresses(ts[i]) => ts[i].name = us[i].name
    <3>1. CASE i \in DOMAIN ts
      BY <1>0, <2>2, <3>1
    <3>2. CASE i \notin DOMAIN ts /\ i \in DOMAIN us
      <4>1. i = Len(ts) + 1
        BY <1>0, <2>2, <3>2
      <4> QED
        BY <2>1, <2>2, <3>2, <4>1
    <3> QED
      BY <3>1, <3>2
  <2>4. ThreadOf(us, c) = ThreadOf(ts, c)
    BY <1>0, <1>1, <2>3, ThreadOfSame
  <2> QED
    BY <2>4 DEF us, ts
\* One thread i gets other members, with the same addresses but for the sender's.
<1>3. ASSUME NEW i \in DOMAIN ts, DOMAIN us = DOMAIN ts, us[i].name = ts[i].name,
             \A j \in DOMAIN ts \ {i} : us[j] = ts[j],
             c \in Addresses(us[i]) <=> c \in Addresses(ts[i])
      PROVE  ThreadOf(us, c) = ThreadOf(ts, c)
  <2> HIDE DEF us, ts
  <2>1. ASSUME NEW j \in Nat
        PROVE  /\ j \in DOMAIN ts /\ c \in Addresses(ts[j])
                     <=> j \in DOMAIN us /\ c \in Addresses(us[j])
               /\ j \in DOMAIN ts /\ c \in Addresses(ts[j]) => ts[j].name = us[j].name
    <3>1. CASE j = i
      BY <1>3, <3>1
    <3>2. CASE j # i
      BY <1>3, <3>2
    <3> QED
      BY <3>1, <3>2
  <2> QED
    BY <1>0, <1>1, <2>1, ThreadOfSame
<1>4. CASE Joins
  <2> DEFINE s == item.seat
  <2>1. PICK i \in Index(item.name) :
            /\ s.chat \notin DOMAIN ts[i].members
            /\ us = [ts EXCEPT ![i].members = Joined(@, s)]
    BY <1>4, JoinsMaps
  <2>2. i \in DOMAIN ts /\ s \in Seats /\ Person(s.account) \in Users
    BY <1>4, <2>1, JoinsMaps, ItemParts DEF Core, Index
  <2> DEFINE ms == ts[i].members
             ks == DOMAIN ms
             js == Joined(ms, s)
  <2>3. ks \in SUBSET Chats /\ ms \in [ks -> MemberType] /\ s.chat \notin ks
    BY <1>0, <2>1, <2>2, ThreadParts
  <2>4. /\ us[i].members = js /\ us[i].name = ts[i].name /\ DOMAIN us = DOMAIN ts
        /\ \A j \in DOMAIN ts \ {i} : us[j] = ts[j]
    BY <1>0, <2>1, <2>2 DEF ThreadType
  <2>5. c # s.chat
    OBVIOUS
  <2> HIDE DEF s, ks
  <2>6. (\E k \in DOMAIN js : c \in ChatsOf(js[k])) <=> \E k \in ks : c \in ChatsOf(ms[k])
    <3> HIDE DEF ms
    <3> QED
      BY <2>2, <2>3, <2>5, JoinedMembers
  <2> HIDE DEF js, us
  <2>7. c \in Addresses(us[i]) <=> c \in Addresses(ts[i])
    BY <2>4, <2>6 DEF Addresses, ks
  <2> QED
    BY <1>3, <2>2, <2>4, <2>7 DEF us
<1>5. CASE Leaves
  <2> DEFINE d == item.seat.chat
  <2>1. item.cmd = "leave"
    BY <1>5 DEF Leaves, Runs
  <2>2. PICK i \in Index(item.name) :
            /\ d \in DOMAIN ts[i].members
            /\ us = [ts EXCEPT ![i].members = [k \in DOMAIN @ \ {d} |-> @[k]]]
    BY <1>5, LeavesMaps
  <2>3. i \in DOMAIN ts
    BY <2>2 DEF Index
  <2> DEFINE ms == ts[i].members
             ls == [k \in DOMAIN ms \ {d} |-> ms[k]]
  <2>4. /\ us[i].members = ls /\ us[i].name = ts[i].name /\ DOMAIN us = DOMAIN ts
        /\ \A j \in DOMAIN ts \ {i} : us[j] = ts[j]
    BY <1>0, <2>2, <2>3 DEF ThreadType
  <2>5. c \notin ChatsOf(ms[d])
    BY <2>1, <2>2, <2>3 DEF TakesAddress
  <2>6. DOMAIN ls = DOMAIN ms \ {d} /\ \A k \in DOMAIN ls : ls[k] = ms[k]
    OBVIOUS
  <2> HIDE DEF us, ls, d
  <2>7. c \in Addresses(us[i]) <=> c \in Addresses(ts[i])
    BY <2>4, <2>5, <2>6 DEF Addresses
  <2> QED
    BY <1>3, <2>3, <2>4, <2>7 DEF us
<1> QED
  BY <1>2, <1>4, <1>5

LEMMA CommandMoves ==
    ASSUME Core, Creates \/ Joins \/ Leaves \/ Exits \/ Switches \/ Says
    PROVE  Alike(mem', mem)
<1>1. mem \in MapsType /\ mem' \in MapsType
  BY CreatesMaps, JoinsMaps, LeavesMaps, ExitsMaps, SwitchesMaps DEF Says, Core, TypeOK
<1>2. ASSUME NEW p \in Users
      PROVE  \/ mem'.paused[p] = mem.paused[p] /\ mem'.active[p] = mem.active[p]
             \/ item # NoItem /\ p = Person(item.seat.account)
  <2>0. mem.paused \in [Users -> SUBSET Threads] /\ mem.active \in [Users -> Threads \cup {NoThread}]
    BY <1>1, MapsParts
  <2>1. CASE Creates \/ Leaves \/ Says
    BY <2>1, CreatesMaps, LeavesMaps DEF Says
  <2>2. CASE Joins
    BY <2>0, <2>2, JoinsMaps
  <2>3. CASE Exits
    BY <2>0, <2>3, ExitsMaps
  <2>4. CASE Switches
    BY <2>0, <2>4, SwitchesMaps
  <2> QED
    BY <2>1, <2>2, <2>3, <2>4
<1>3. ASSUME NEW s \in Seats
      PROVE  \/ ThreadOf(mem'.threads, s.chat) = ThreadOf(mem.threads, s.chat)
             \/ item # NoItem /\ item.seat.chat = s.chat
             \/ TakesAddress(mem'.threads, s.chat) \/ TakesAddress(mem.threads, s.chat)
  <2>1. CASE Creates \/ Joins \/ Leaves
    <3>1. item # NoItem
      BY <2>1, CreatesMaps, JoinsMaps, LeavesMaps
    <3> QED
      BY <2>1, <3>1, ThreadsMoved
  <2>2. CASE Exits \/ Switches \/ Says
    BY <2>2, ExitsMaps, SwitchesMaps DEF Says
  <2> QED
    BY <2>1, <2>2
<1> QED
  BY <1>2, <1>3 DEF Alike

----------------------------------------------------------------------------
(* Active threads exist. *)

\* Threads are never removed, and switching looks the thread up: a name in the map
\* of active threads is the name of a saved thread.
ActivesExist ==
    /\ Names(disk.threads) \subseteq Names(mem.threads)
    /\ \A p \in Users : /\ mem.active[p] \in Names(disk.threads) \cup {NoThread}
                        /\ disk.active[p] \in Names(disk.threads) \cup {NoThread}

LEMMA ActiveIsThere ==
    ASSUME Core, ActivesExist, NEW p \in Users
    PROVE  Active(mem, p) = mem.active[p] /\ Active(disk, p) = disk.active[p]
BY DEF ActivesExist, Active

\* A command keeps the names, or adds one.
LEMMA NamesGrow ==
    ASSUME Core, Creates \/ Joins \/ Leaves \/ Exits \/ Switches \/ Says
    PROVE  Names(mem.threads) \subseteq Names(mem'.threads)
<1> DEFINE ts == mem.threads
           us == mem'.threads
<1>0. /\ ts \in Seq(ThreadType) /\ DOMAIN ts = 1..Len(ts) /\ Len(ts) \in Nat
      /\ \A j \in DOMAIN ts : ts[j] \in ThreadType
  BY MapsParts, LenProperties DEF Core, TypeOK
<1>1. CASE Exits \/ Switches \/ Says
  BY <1>1, ExitsMaps, SwitchesMaps DEF Says
<1>2. ASSUME NEW i \in DOMAIN ts, NEW ms, us = [ts EXCEPT ![i].members = ms]
      PROVE  Names(ts) \subseteq Names(us)
  <2>1. DOMAIN us = DOMAIN ts /\ \A j \in DOMAIN ts : us[j].name = ts[j].name
    BY <1>0, <1>2 DEF ThreadType
  <2> HIDE DEF us, ts
  <2> QED
    BY <2>1 DEF Names
<1>3. CASE Joins
  BY <1>2, <1>3, JoinsMaps DEF Index
<1>4. CASE Leaves
  BY <1>2, <1>4, LeavesMaps DEF Index
<1>5. CASE Creates
  <2>1. PICK t \in ThreadType : us = Append(ts, t)
    BY <1>5, CreatesMaps
  <2>2. DOMAIN Append(ts, t) = 1..(Len(ts) + 1) /\ \A i \in 1..Len(ts) : Append(ts, t)[i] = ts[i]
    BY <1>0, <2>1, AppendProperties, LenProperties
  <2> QED
    BY <1>0, <2>1, <2>2 DEF Names
<1> QED
  BY <1>1, <1>3, <1>4, <1>5

LEMMA CommandActives ==
    ASSUME Core, Saved, ActivesExist,
           Creates \/ Joins \/ Leaves \/ Exits \/ Switches \/ Says
    PROVE  ActivesExist'
<1>1. step = "new" /\ disk' = disk
  BY DEF Creates, Joins, Leaves, Exits, Switches, Says, Runs
<1>2. mem = disk
  BY <1>1, NothingLeft
<1>3. Names(disk'.threads) \subseteq Names(mem'.threads)
  BY <1>1, <1>2, NamesGrow
<1>4. ASSUME NEW p \in Users
      PROVE  mem'.active[p] \in Names(disk.threads) \cup {NoThread}
  <2>1. CASE Creates \/ Joins \/ Leaves \/ Exits \/ Says
    <3>1. mem'.active = mem.active
      BY <2>1, CreatesMaps, JoinsMaps, LeavesMaps, ExitsMaps DEF Says
    <3> QED
      BY <3>1 DEF ActivesExist
  <2>2. CASE Switches
    <3>1. item.name \in Names(mem.threads)
      BY <2>2 DEF Switches, Index, Names
    <3>2. /\ mem'.active = [mem.active EXCEPT ![Person(item.seat.account)] = item.name]
          /\ mem.active \in [Users -> Threads \cup {NoThread}]
      BY <2>2, SwitchesMaps, MapsParts DEF Core, TypeOK
    <3>3. mem'.active[p] \in {mem.active[p], item.name}
      BY <3>2
    <3> QED
      BY <1>2, <3>1, <3>3 DEF ActivesExist
  <2> QED
    BY <2>1, <2>2
<1> QED
  BY <1>1, <1>3, <1>4 DEF ActivesExist

LEMMA ActivesStep == Core /\ Saved /\ ActivesExist /\ [Next]_vars => ActivesExist'
<1> SUFFICES ASSUME Core, Saved, ActivesExist, [Next]_vars PROVE ActivesExist'
  OBVIOUS
<1>1. CASE UNCHANGED <<mem, disk>>
  BY <1>1 DEF ActivesExist
<1>2. CASE Creates \/ Joins \/ Leaves \/ Exits \/ Switches \/ Says
  BY <1>2, CommandActives
<1>3. CASE Saves
  <2>1. /\ toSave # <<>> /\ disk' = [disk EXCEPT ![Head(toSave)] = mem[Head(toSave)]]
        /\ mem' = mem
    BY <1>3 DEF Saves
  <2>2. Head(toSave) \in Maps /\ mem \in MapsType /\ disk \in MapsType
    BY <2>1, HeadTailProperties DEF Core, HandOK, TypeOK
  <2>3. /\ disk'.threads \in {mem.threads, disk.threads}
        /\ disk'.active \in {mem.active, disk.active}
    <3> DEFINE f == Head(toSave)
    <3>1. f \in {"threads", "active", "paused"} /\ disk' = [disk EXCEPT ![f] = mem[f]]
      BY <2>1, <2>2 DEF Maps
    <3> HIDE DEF f
    <3> QED
      BY <2>2, <3>1 DEF MapsType
  <2> QED
    BY <2>1, <2>3 DEF ActivesExist
<1>4. CASE Crashes
  BY <1>4 DEF Crashes, ActivesExist
<1>5. CASE (\E s \in Seats : Arrives(s)) \/ Refuses \/ Finishes \/ Raises
            \/ (\E c \in Chats : Relays(c))
  BY <1>1, <1>5 DEF Arrives, Refuses, Finishes, Raises, NoneInHand, Relays
<1>6. CASE \E a, b \in Accounts : Confirms(a, b)
  BY <1>1, <1>6 DEF Confirms
<1>7. CASE UNCHANGED vars
  BY <1>1, <1>7 DEF vars
<1> QED
  BY <1>2, <1>3, <1>4, <1>5, <1>6, <1>7 DEF Next

LEMMA ActivesInvariant == Spec => []ActivesExist
<1>1. Init => ActivesExist
  BY DEF Init, ActivesExist
<1> QED
  BY <1>1, ActivesStep, SavedInvariant, CoreInvariant, PTL DEF Spec

LEMMA DiskDiffersStep == Core /\ Saved /\ DiskDiffers /\ [Next]_vars => DiskDiffers'
<1> SUFFICES ASSUME Core, Saved, DiskDiffers, [Next]_vars PROVE DiskDiffers'
  OBVIOUS
<1>0. ASSUME mem' = disk' PROVE DiskDiffers'
  BY <1>0 DEF DiskDiffers, Alike
<1>1. CASE UNCHANGED <<mem, disk, identity, item>>
  BY <1>1 DEF DiskDiffers, Alike, TakesAddress, Person
<1>2. CASE Creates \/ Joins \/ Leaves \/ Exits \/ Switches \/ Says
  <2>1. step = "new" /\ UNCHANGED <<disk, identity, item>>
    BY <1>2 DEF Creates, Joins, Leaves, Exits, Switches, Says, Runs
  <2>2. disk' = mem
    BY <2>1, NothingLeft
  <2>3. Alike(mem', disk')
    BY <1>2, <2>2, CommandMoves
  <2> QED
    BY <2>1, <2>3 DEF DiskDiffers, Alike, TakesAddress, Person
<1>3. CASE Saves
  <2>1. /\ toSave # <<>> /\ disk' = [disk EXCEPT ![Head(toSave)] = mem[Head(toSave)]]
        /\ UNCHANGED <<mem, identity, item>>
    BY <1>3 DEF Saves
  <2>2. Head(toSave) \in Maps /\ mem \in MapsType /\ disk \in MapsType
    BY <2>1, HeadTailProperties DEF Core, HandOK, TypeOK
  <2>3. /\ disk'.threads \in {mem.threads, disk.threads}
        /\ disk'.active \in {mem.active, disk.active}
        /\ disk'.paused \in {mem.paused, disk.paused}
    <3> DEFINE f == Head(toSave)
    <3>1. f \in {"threads", "active", "paused"} /\ disk' = [disk EXCEPT ![f] = mem[f]]
      BY <2>1, <2>2 DEF Maps
    <3> HIDE DEF f
    <3> QED
      BY <2>2, <3>1 DEF MapsType
  <2>4. Alike(mem, disk')
    <3>1. ASSUME NEW p \in Users
          PROVE  \/ mem.paused[p] = disk'.paused[p] /\ mem.active[p] = disk'.active[p]
                 \/ item # NoItem /\ p = Person(item.seat.account)
      BY <2>3, <3>1 DEF DiskDiffers, Alike
    <3>2. ASSUME NEW s \in Seats
          PROVE  \/ ThreadOf(mem.threads, s.chat) = ThreadOf(disk'.threads, s.chat)
                 \/ item # NoItem /\ item.seat.chat = s.chat
                 \/ TakesAddress(mem.threads, s.chat)
                 \/ TakesAddress(disk'.threads, s.chat)
      BY <2>3, <3>2 DEF DiskDiffers, Alike
    <3> QED
      BY <3>1, <3>2 DEF Alike
  <2> QED
    BY <2>1, <2>4 DEF DiskDiffers, Alike, TakesAddress, Person
<1>4. CASE Finishes \/ Raises \/ Crashes
  <2>1. CASE Finishes \/ Raises
    BY <1>0, <2>1, NothingLeft DEF Finishes, Raises, NoneInHand
  <2>2. CASE Crashes
    BY <1>0, <2>2 DEF Crashes
  <2> QED
    BY <1>4, <2>1, <2>2
<1>5. CASE (\E s \in Seats : Arrives(s)) \/ (\E a, b \in Accounts : Confirms(a, b))
  <2>1. item = NoItem /\ UNCHANGED <<mem, disk>>
    BY <1>5 DEF Arrives, Confirms
  <2>2. mem = disk
    BY <2>1, NothingLeft DEF Core, TypeOK
  <2> QED
    BY <1>0, <2>1, <2>2
<1>6. CASE Refuses \/ (\E c \in Chats : Relays(c))
  BY <1>1, <1>6 DEF Refuses, Relays
<1>7. CASE UNCHANGED vars
  BY <1>1, <1>7 DEF vars
<1> QED
  BY <1>2, <1>3, <1>4, <1>5, <1>6, <1>7 DEF Next

LEMMA DiskInvariant == Spec => []DiskDiffers
<1>1. Init => DiskDiffers
  BY DEF Init, DiskDiffers, Alike
<1> QED
  BY <1>1, DiskDiffersStep, SavedInvariant, CoreInvariant, PTL DEF Spec

\* Where the messages of one sender in one chat go is not changed by others, also when
\* a kill takes the maps back to their files.
THEOREM OthersDoNotMoveMe == Spec => NobodyElseMovesMe
<1> DEFINE Mine(s) ==
        \/ Person(s.account)' # Person(s.account)
        \/ /\ item # NoItem
           /\ \/ Same(item.seat.account, s.account)
              \/ item.seat.chat = s.chat
              \/ /\ item.cmd = "leave"
                 /\ \E t \in {mem.threads[i] : i \in DOMAIN mem.threads}
                           \cup {mem'.threads[i] : i \in DOMAIN mem'.threads} :
                       /\ item.seat.chat \in DOMAIN t.members
                       /\ s.chat \in ChatsOf(t.members[item.seat.chat])
           Moves == \A s \in Seats : Route(s)' # Route(s) => Mine(s)
<1>1. Core /\ Core' /\ Saved /\ DiskDiffers /\ ActivesExist /\ ActivesExist' /\ [Next]_vars => Moves
  <2> SUFFICES ASSUME Core, Core', Saved, DiskDiffers, ActivesExist, ActivesExist', [Next]_vars,
                      NEW s \in Seats, Route(s)' # Route(s),
                      Person(s.account)' = Person(s.account)
               PROVE  Mine(s)
    OBVIOUS
  <2> DEFINE p == Person(s.account)
  <2>0. p \in Users
    BY SeatParts, PersonType DEF Core
  <2>1. mem' # mem
    BY DEF Route, RouteBy, Person
  <2>2. Alike(mem', mem) /\ item # NoItem
    <3>1. CASE Creates \/ Joins \/ Leaves \/ Exits \/ Switches
      BY <3>1, CommandMoves, CreatesMaps, JoinsMaps, LeavesMaps, ExitsMaps, SwitchesMaps
    <3>2. CASE Crashes
      BY <3>2 DEF Crashes, DiskDiffers, Alike
    <3>3. CASE \/ Refuses \/ Saves \/ Finishes \/ Raises \/ Says \/ UNCHANGED vars
               \/ (\E r \in Seats : Arrives(r)) \/ (\E c \in Chats : Relays(c))
               \/ (\E a, b \in Accounts : Confirms(a, b))
      BY <2>1, <3>3 DEF Refuses, Saves, Finishes, Raises, NoneInHand, Says, Arrives, Relays, Confirms, vars
    <3> QED
      BY <3>1, <3>2, <3>3 DEF Next
  <2>3. CASE p = Person(item.seat.account)
    BY <2>2, <2>3 DEF Same
  <2>4. CASE item.seat.chat = s.chat
    BY <2>2, <2>4
  <2>5. CASE p # Person(item.seat.account) /\ item.seat.chat # s.chat
    <3>1. mem'.paused[p] = mem.paused[p] /\ mem'.active[p] = mem.active[p]
      BY <2>0, <2>2, <2>5 DEF Alike
    <3>2. ThreadOf(mem'.threads, s.chat) # ThreadOf(mem.threads, s.chat)
      <4> SUFFICES ASSUME ThreadOf(mem'.threads, s.chat) = ThreadOf(mem.threads, s.chat)
                   PROVE  FALSE
        OBVIOUS
      <4>1. Person(s.account)' = p
        OBVIOUS
      <4>2. Active(mem, p) = mem.active[p] /\ Active(mem', p) = mem'.active[p]
        BY <2>0 DEF ActivesExist, Active
      <4> HIDE DEF p
      <4>3. Route(s)' = RouteBy(mem, s)
        BY <3>1, <4>1, <4>2 DEF Route, RouteBy, p
      <4> QED
        BY <4>3 DEF Route
    <3>3. TakesAddress(mem'.threads, s.chat) \/ TakesAddress(mem.threads, s.chat)
      BY <2>2, <2>5, <3>2 DEF Alike
    <3> QED
      BY <2>2, <3>3 DEF TakesAddress
  <2> QED
    BY <2>3, <2>4, <2>5
<1>2. [][Moves]_vars => NobodyElseMovesMe
  BY DEF NobodyElseMovesMe
<1> HIDE DEF Moves
<1> QED
  BY <1>1, <1>2, DiskInvariant, ActivesInvariant, SavedInvariant, CoreInvariant, PTL DEF Spec

----------------------------------------------------------------------------
(* Messages go where their sender has chosen. *)

\* The file in hand takes the account back into the thread.
Reenters(a, t) ==
    /\ item.cmd \in {"join", "switch"} /\ item.name = t
    /\ Same(item.seat.account, a)

\* A thread an account has left is paused for it, unless it is just re-entered.
StillOut(maps) ==
    \A a \in Accounts \ outdated : \A t \in exited[a] :
        t \in maps.paused[Person(a)] \/ Reenters(a, t)

Allowed == \E i \in Index(item.name) : MaySwitch(mem.threads[i], item.seat)

\* The thread an account has switched to is the active one of its person, unless it
\* is just switching to another one, which is not refused.
StillChosen(maps) ==
    \A a \in Accounts \ outdated :
        \/ chosen[a] \in {NoThread, maps.active[Person(a)]}
        \/ /\ item.cmd = "switch" /\ Same(item.seat.account, a)
           /\ maps.active[Person(a)] = item.name /\ step # "refused" /\ Allowed

\* What a command that is done has changed.
Done ==
    /\ item.cmd = "exit" /\ step = "done" =>
          PausedBy(Person(item.seat.account)) \subseteq mem.paused[Person(item.seat.account)]
    /\ item.cmd = "switch" /\ step = "done" =>
          mem.active[Person(item.seat.account)] = item.name
    /\ item.cmd = "switch" => mem.threads = disk.threads

ChoiceInv == Done /\ StillOut(mem) /\ StillOut(disk) /\ StillChosen(mem) /\ StillChosen(disk)

\* The parts of ChoiceInv for one account.
LEMMA ChoicesOf ==
    ASSUME ChoiceInv, NEW a \in Accounts \ outdated
    PROVE  /\ \A t \in exited[a] : t \in mem.paused[Person(a)] \/ Reenters(a, t)
           /\ \A t \in exited[a] : t \in disk.paused[Person(a)] \/ Reenters(a, t)
           /\ item.cmd # "switch" =>
                 /\ chosen[a] \in {NoThread, mem.active[Person(a)]}
                 /\ chosen[a] \in {NoThread, disk.active[Person(a)]}
BY DEF ChoiceInv, StillOut, StillChosen

LEMMA NoneReenter ==
    ASSUME NEW a, NEW t, item.cmd \notin {"join", "switch"}
    PROVE  ~ Reenters(a, t)
BY DEF Reenters

\* The step leaves what ChoiceInv reads alone.
LEMMA ChoicesUnchanged ==
    ASSUME ChoiceInv, UNCHANGED <<mem, disk, identity, item, exited, chosen, outdated>>,
           step' = step \/ item.cmd \notin {"exit", "switch"}
    PROVE  ChoiceInv'
<1>1. StillOut(mem)' /\ StillOut(disk)'
  BY DEF ChoiceInv, StillOut, Reenters, Same, Person
<1>2. Done'
  BY DEF ChoiceInv, Done, PausedBy, Index, PersonIn, Person
<1>3. StillChosen(mem)' /\ StillChosen(disk)'
  BY DEF ChoiceInv, StillChosen, Same, Person, Allowed, Index, MaySwitch
<1> QED
  BY <1>1, <1>2, <1>3 DEF ChoiceInv

\* The file in hand neither pauses, resumes nor switches.
LEMMA OtherChoices ==
    ASSUME ChoiceInv, item.cmd \notin {"exit", "join", "switch"},
           UNCHANGED <<disk, identity, item, exited, chosen, outdated>>,
           mem'.active = mem.active, mem'.paused = mem.paused
    PROVE  ChoiceInv'
<1>1. StillOut(mem)' /\ StillOut(disk)'
  BY DEF ChoiceInv, StillOut, Reenters, Person
<1>2. Done'
  BY DEF Done
<1>3. StillChosen(mem)' /\ StillChosen(disk)'
  BY DEF ChoiceInv, StillChosen, Person
<1> QED
  BY <1>1, <1>2, <1>3 DEF ChoiceInv

LEMMA JoinsChoices ==
    ASSUME Core, ChoiceInv, Joins
    PROVE  ChoiceInv'
<1> DEFINE p == Person(item.seat.account)
<1>1. item.cmd = "join" /\ UNCHANGED <<disk, identity, item, exited, chosen, outdated>>
  BY DEF Joins, Runs, promises
<1>2. /\ mem'.active = mem.active /\ mem'.paused = [mem.paused EXCEPT ![p] = @ \ {item.name}]
      /\ mem.paused \in [Users -> SUBSET Threads]
  BY JoinsMaps, MapsParts DEF Core, TypeOK
<1>3. p \in Users /\ \A a \in Accounts : Person(a) \in Users
  BY JoinsMaps, ItemParts, PersonType DEF Core
<1>4. StillOut(mem)'
  <2> SUFFICES ASSUME NEW a \in Accounts \ outdated, NEW t \in exited[a], ~ Reenters(a, t)
               PROVE  t \in mem'.paused[Person(a)]
    BY <1>1 DEF StillOut, Reenters, Same, Person
  <2>1. t \in mem.paused[Person(a)]
    BY ChoicesOf
  <2>2. Person(a) = p => t # item.name
    BY <1>1 DEF Reenters, Same
  <2> HIDE DEF p
  <2> QED
    BY <1>2, <1>3, <2>1, <2>2
<1>5. StillOut(disk)'
  BY <1>1 DEF ChoiceInv, StillOut, Reenters, Same, Person
<1>6. Done'
  BY <1>1 DEF Done
<1>7. StillChosen(mem)' /\ StillChosen(disk)'
  BY <1>1, <1>2 DEF ChoiceInv, StillChosen, Person
<1> QED
  BY <1>4, <1>5, <1>6, <1>7 DEF ChoiceInv

LEMMA ExitsChoices ==
    ASSUME Core, ChoiceInv, Exits
    PROVE  ChoiceInv'
<1> DEFINE p == Person(item.seat.account)
<1>1. item.cmd = "exit" /\ UNCHANGED <<disk, identity, item, exited, chosen, outdated>>
  BY DEF Exits, Runs, promises
<1>2. /\ mem'.active = mem.active /\ mem'.threads = mem.threads
      /\ mem'.paused = [mem.paused EXCEPT ![p] = @ \cup PausedBy(p)]
      /\ mem.paused \in [Users -> SUBSET Threads]
  BY ExitsMaps, MapsParts DEF Core, TypeOK
<1>3. p \in Users /\ \A a \in Accounts : Person(a) \in Users
  BY ExitsMaps, ItemParts, PersonType DEF Core
<1>4. StillOut(mem)'
  <2> SUFFICES ASSUME NEW a \in Accounts \ outdated, NEW t \in exited[a]
               PROVE  t \in mem'.paused[Person(a)]
    BY <1>1 DEF StillOut, Person
  <2>1. t \in mem.paused[Person(a)]
    BY <1>1, ChoicesOf, NoneReenter
  <2> HIDE DEF p
  <2> QED
    BY <1>2, <1>3, <2>1
<1>5. StillOut(disk)'
  BY <1>1 DEF ChoiceInv, StillOut, Reenters, Same, Person
<1>6. Done'
  <2>1. p' = p /\ PausedBy(p)' = PausedBy(p)
    BY <1>1, <1>2 DEF PausedBy, Index, PersonIn, Person
  <2>2. PausedBy(p) \subseteq mem'.paused[p]
    <3> HIDE DEF p
    <3> QED
      BY <1>2, <1>3
  <2>3. PausedBy(Person(item.seat.account))' \subseteq mem'.paused[Person(item.seat.account)']
    BY <2>1, <2>2
  <2> QED
    BY <1>1, <2>3 DEF Done
<1>7. StillChosen(mem)' /\ StillChosen(disk)'
  BY <1>1, <1>2 DEF ChoiceInv, StillChosen, Person
<1> QED
  BY <1>4, <1>5, <1>6, <1>7 DEF ChoiceInv

LEMMA SwitchesChoices ==
    ASSUME Core, ChoiceInv, Switches
    PROVE  ChoiceInv'
<1> DEFINE p == Person(item.seat.account)
<1>1. /\ item.cmd = "switch" /\ UNCHANGED <<disk, identity, item, exited, chosen, outdated>>
      /\ step' = "done"
  BY DEF Switches, Runs, promises
<1>2. /\ mem'.active = [mem.active EXCEPT ![p] = item.name] /\ mem'.threads = mem.threads
      /\ mem'.paused = [mem.paused EXCEPT ![p] = @ \ {item.name}]
      /\ mem.paused \in [Users -> SUBSET Threads]
      /\ mem.active \in [Users -> Threads \cup {NoThread}]
  BY SwitchesMaps, MapsParts DEF Core, TypeOK
<1>3. p \in Users /\ \A a \in Accounts : Person(a) \in Users
  BY SwitchesMaps, ItemParts, PersonType DEF Core
<1>4. StillOut(mem)'
  <2> SUFFICES ASSUME NEW a \in Accounts \ outdated, NEW t \in exited[a], ~ Reenters(a, t)
               PROVE  t \in mem'.paused[Person(a)]
    BY <1>1 DEF StillOut, Reenters, Same, Person
  <2>1. t \in mem.paused[Person(a)]
    BY ChoicesOf
  <2>2. Person(a) = p => t # item.name
    BY <1>1 DEF Reenters, Same
  <2> HIDE DEF p
  <2> QED
    BY <1>2, <1>3, <2>1, <2>2
<1>5. StillOut(disk)'
  BY <1>1 DEF ChoiceInv, StillOut, Reenters, Same, Person
<1>6. mem'.active[p] = item.name /\ \A q \in Users \ {p} : mem'.active[q] = mem.active[q]
  <2> HIDE DEF p
  <2> QED
    BY <1>2, <1>3
<1>7. Done'
  BY <1>1, <1>2, <1>6 DEF Done, ChoiceInv, Person
<1>8. Allowed /\ Allowed'
  BY <1>1, <1>2 DEF Switches, Allowed, Index, MaySwitch, Person
<1>9. StillChosen(mem)'
  <2> SUFFICES ASSUME NEW a \in Accounts \ outdated
               PROVE  \/ chosen[a] \in {NoThread, mem'.active[Person(a)]}
                      \/ Same(item.seat.account, a) /\ mem'.active[Person(a)] = item.name
    BY <1>1, <1>8 DEF StillChosen, Same, Person
  <2>1. CASE Person(a) = p
    BY <1>6, <2>1 DEF Same
  <2>2. CASE Person(a) # p
    <3>1. chosen[a] \in {NoThread, mem.active[Person(a)]}
      BY <2>2 DEF ChoiceInv, StillChosen, Same
    <3> QED
      BY <1>3, <1>6, <2>2, <3>1
  <2> QED
    BY <2>1, <2>2
<1>10. StillChosen(disk)'
  BY <1>1, <1>8 DEF ChoiceInv, StillChosen, Same, Person
<1> QED
  BY <1>4, <1>5, <1>7, <1>9, <1>10 DEF ChoiceInv

LEMMA RefusesChoices ==
    ASSUME Core, ChoiceInv, Refuses
    PROVE  ChoiceInv'
<1>1. /\ Refused /\ step = "new" /\ step' = "refused"
      /\ UNCHANGED <<mem, disk, identity, item, exited, chosen, outdated>>
  BY DEF Refuses, promises
<1>2. item.cmd = "switch" => ~ Allowed
  BY <1>1 DEF Refused, Allowed
<1>3. StillOut(mem)' /\ StillOut(disk)'
  BY <1>1 DEF ChoiceInv, StillOut, Reenters, Same, Person
<1>4. Done'
  BY <1>1 DEF ChoiceInv, Done
<1>5. StillChosen(mem)' /\ StillChosen(disk)'
  BY <1>1, <1>2 DEF ChoiceInv, StillChosen, Person
<1> QED
  BY <1>3, <1>4, <1>5 DEF ChoiceInv

LEMMA SavesChoices ==
    ASSUME Core, ChoiceInv, Saves
    PROVE  ChoiceInv'
<1>1. /\ toSave # <<>> /\ disk' = [disk EXCEPT ![Head(toSave)] = mem[Head(toSave)]]
      /\ UNCHANGED <<mem, identity, item, step, exited, chosen, outdated>>
  BY DEF Saves, promises
<1>2. Head(toSave) \in Maps /\ mem \in MapsType /\ disk \in MapsType
  BY <1>1, HeadTailProperties DEF Core, HandOK, TypeOK
<1>3. /\ disk'.threads \in {mem.threads, disk.threads}
      /\ disk'.active \in {mem.active, disk.active}
      /\ disk'.paused \in {mem.paused, disk.paused}
  <2> DEFINE f == Head(toSave)
  <2>1. f \in {"threads", "active", "paused"} /\ disk' = [disk EXCEPT ![f] = mem[f]]
    BY <1>1, <1>2 DEF Maps
  <2> HIDE DEF f
  <2> QED
    BY <1>2, <2>1 DEF MapsType
<1>4. StillOut(mem)' /\ StillOut(disk)'
  BY <1>1, <1>3 DEF ChoiceInv, StillOut, Reenters, Same, Person
<1>5. Done'
  BY <1>1, <1>3 DEF ChoiceInv, Done, PausedBy, Index, PersonIn, Person
<1>6. StillChosen(mem)' /\ StillChosen(disk)'
  BY <1>1, <1>3 DEF ChoiceInv, StillChosen, Same, Person, Allowed, Index, MaySwitch
<1> QED
  BY <1>4, <1>5, <1>6 DEF ChoiceInv

LEMMA CrashesChoices ==
    ASSUME Core, ChoiceInv, Crashes
    PROVE  ChoiceInv'
<1>1. mem' = disk /\ step' = "new" /\ UNCHANGED <<disk, identity, item, exited, chosen, outdated>>
  BY DEF Crashes, promises
<1>2. StillOut(mem)' /\ StillOut(disk)'
  BY <1>1 DEF ChoiceInv, StillOut, Reenters, Same, Person
<1>3. Done'
  BY <1>1 DEF Done
<1>4. item.cmd = "switch" => Allowed' = Allowed
  BY <1>1 DEF ChoiceInv, Done, Allowed, Index, MaySwitch, Person
<1>5. StillChosen(mem)' /\ StillChosen(disk)'
  BY <1>1, <1>4 DEF ChoiceInv, StillChosen, Same, Person
<1> QED
  BY <1>2, <1>3, <1>5 DEF ChoiceInv

\* Between files the promises are kept by the maps alone.
LEMMA IdleChoices ==
    ASSUME item' = NoItem, mem' = disk',
           \A a \in Accounts \ outdated' :
                               /\ exited'[a] \subseteq mem'.paused[Person(a)']
                               /\ chosen'[a] \in {NoThread, mem'.active[Person(a)']}
    PROVE  ChoiceInv'
BY NothingInHand DEF ChoiceInv, Done, StillOut, StillChosen

\* The threads a person has a seat in are paused by its exit.
LEMMA SeatedPaused ==
    ASSUME Core, OneEachBoth, NEW a \in Accounts \ outdated
    PROVE  SeatedIn(a) \subseteq PausedBy(Person(a))
<1> SUFFICES ASSUME NEW t \in SeatedIn(a) PROVE t \in PausedBy(Person(a))
  OBVIOUS
<1>1. PICK i \in Index(t) : \E k \in DOMAIN mem.threads[i].members :
          \E s \in mem.threads[i].members[k].seats : Same(s.account, a)
  BY DEF SeatedIn
<1>2. PICK k \in DOMAIN mem.threads[i].members :
          \E s \in mem.threads[i].members[k].seats : Same(s.account, a)
  BY <1>1
<1>3. PICK s \in mem.threads[i].members[k].seats : Same(s.account, a)
  BY <1>2
<1>4. i \in DOMAIN mem.threads /\ t \in Threads
  BY DEF Index, SeatedIn
<1>5. s.account \in Accounts
  <2>1. mem.threads[i] \in ThreadType
    BY <1>4, MapsParts DEF Core, TypeOK
  <2>2. mem.threads[i].members[k] \in MemberType
    BY <2>1, ThreadParts
  <2> QED
    BY <2>2, SeatParts DEF MemberType
<1>6. s.account \notin outdated
  BY <1>3, <1>5 DEF OneEachBoth, AllOrNone, Same
<1>7. mem.threads[i].members[k].person = Person(a)
  BY <1>3, <1>4, <1>6 DEF OneEachBoth, OneEach, RightNames, Same
<1> QED
  BY <1>1, <1>4, <1>7 DEF PausedBy, PersonIn

LEMMA FinishesChoices ==
    ASSUME Core, Saved, OneEachBoth, ChoiceInv, NEW answered \in BOOLEAN,
           step # "new", toSave = <<>>, NoneInHand, Promises(answered)
    PROVE  ChoiceInv'
<1> DEFINE a == item.seat.account
           p == Person(a)
<1>1. /\ step # "new" /\ toSave = <<>> /\ item' = NoItem
      /\ UNCHANGED <<mem, disk, identity, outdated>>
  BY DEF NoneInHand, Promises
<1>2. mem' = disk'
  BY <1>1, NothingLeft
<1>3. \A b \in Accounts : Person(b)' = Person(b)
  BY <1>1 DEF Person
<1>4. item # NoItem /\ a \in Accounts
  BY <1>1, ItemParts DEF Core, TypeOK
<1>5. step = "done" \/ (step = "refused" /\ item.cmd # "exit")
  BY <1>1 DEF Core, TypeOK, HandOK
<1>6. ASSUME NEW b \in Accounts \ outdated
      PROVE  exited'[b] \subseteq mem.paused[Person(b)]
  <2>1. exited'[b] =
            CASE Same(a, b) /\ item.cmd = "exit" /\ answered -> exited[b] \cup SeatedIn(a)
              [] Same(a, b) /\ item.cmd \in {"join", "switch"} -> exited[b] \ {item.name}
              [] OTHER -> exited[b]
    BY DEF Promises
  <2>2. \A t \in exited[b] : t \in mem.paused[Person(b)] \/ Reenters(b, t)
    BY ChoicesOf
  <2>3. CASE ~ Same(a, b)
    <3>1. exited'[b] = exited[b]
      BY <2>1, <2>3
    <3> QED
      BY <2>2, <2>3, <3>1 DEF Reenters
  <2>4. CASE Same(a, b) /\ item.cmd = "exit" /\ answered
    <3>1. a \notin outdated
      BY <1>4, <2>4 DEF OneEachBoth, AllOrNone, Same
    <3>2. SeatedIn(a) \subseteq PausedBy(p)
      BY <1>4, <3>1, SeatedPaused
    <3>3. PausedBy(p) \subseteq mem.paused[p]
      BY <1>1, <1>5, <2>4 DEF ChoiceInv, Done
    <3>4. Person(b) = p
      BY <2>4 DEF Same
    <3>5. exited'[b] = exited[b] \cup SeatedIn(a)
      BY <2>1, <2>4
    <3> QED
      BY <2>2, <2>4, <3>2, <3>3, <3>4, <3>5, NoneReenter
  <2>5. CASE Same(a, b) /\ item.cmd \in {"join", "switch"}
    <3>1. exited'[b] = exited[b] \ {item.name}
      BY <2>1, <2>5
    <3> QED
      BY <2>2, <3>1 DEF Reenters
  <2>6. CASE ~ (item.cmd = "exit" /\ answered) /\ item.cmd \notin {"join", "switch"}
    <3>1. exited'[b] = exited[b]
      BY <2>1, <2>6
    <3> QED
      BY <2>2, <2>6, <3>1, NoneReenter
  <2> QED
    BY <2>3, <2>4, <2>5, <2>6
<1>7. ASSUME NEW b \in Accounts \ outdated
      PROVE  chosen'[b] \in {NoThread, mem.active[Person(b)]}
  <2> DEFINE now == IF item.cmd = "switch" /\ answered THEN item.name ELSE NoThread
  <2>1. chosen'[b] =
            IF Same(a, b) /\ step = "done" /\ item.cmd \in {"exit", "leave", "switch"}
            THEN now
            ELSE chosen[b]
    BY DEF Promises
  <2>2. \/ chosen[b] \in {NoThread, mem.active[Person(b)]}
        \/ item.cmd = "switch" /\ Same(a, b) /\ step # "refused"
    BY DEF ChoiceInv, StillChosen
  <2>3. CASE ~ (Same(a, b) /\ step = "done" /\ item.cmd \in {"exit", "leave", "switch"})
    <3>1. chosen'[b] = chosen[b]
      BY <2>1, <2>3
    <3>2. chosen[b] \in {NoThread, mem.active[Person(b)]}
      BY <1>5, <2>2, <2>3
    <3> QED
      BY <3>1, <3>2
  <2>4. CASE Same(a, b) /\ step = "done" /\ item.cmd \in {"exit", "leave", "switch"}
    <3>1. chosen'[b] = now
      BY <2>1, <2>4
    <3>2. item.cmd = "switch" => mem.active[p] = item.name /\ Person(b) = p
      BY <2>4 DEF ChoiceInv, Done, Same
    <3> QED
      BY <3>1, <3>2
  <2> QED
    BY <2>3, <2>4
<1> QED
  BY <1>1, <1>2, <1>3, <1>6, <1>7, IdleChoices

LEMMA ConfirmsChoices ==
    ASSUME Core, Saved, ChoiceInv, NEW a \in Accounts, NEW b \in Accounts, Confirms(a, b)
    PROVE  ChoiceInv'
<1> DEFINE left == {d \in Accounts : OnRecord(d) /\ Resolve(identity', d) # Person(d)}
<1>1. /\ item = NoItem /\ item' = item /\ UNCHANGED <<mem, disk, exited, chosen>>
      /\ outdated' = {d \in Accounts : \E c \in outdated \cup left :
                          Resolve(identity', d) = Resolve(identity', c)}
  BY DEF Confirms
<1>2. mem = disk
  BY <1>1, NothingLeft DEF Core, TypeOK
<1>3. ASSUME NEW c \in Accounts \ outdated'
      PROVE  /\ exited'[c] \subseteq mem'.paused[Person(c)']
             /\ chosen'[c] \in {NoThread, mem'.active[Person(c)']}
  <2>1. c \in Accounts /\ c \notin outdated /\ c \notin left
    <3> HIDE DEF left
    <3> QED
      BY <1>1, <1>3
  <2>2. item.cmd = "none"
    BY <1>1, NothingInHand
  <2>3. /\ exited[c] \subseteq mem.paused[Person(c)]
        /\ chosen[c] \in {NoThread, mem.active[Person(c)]}
    BY <2>1, <2>2, ChoicesOf, NoneReenter
  <2>4. CASE Person(c)' = Person(c)
    BY <1>1, <2>3, <2>4
  <2>5. CASE Person(c)' # Person(c)
    <3>1. ~ OnRecord(c)
      BY <2>1, <2>5 DEF Person
    <3>2. mem.active[Person(c)] = NoThread /\ mem.paused[Person(c)] = {}
      BY <3>1 DEF OnRecord
    <3> QED
      BY <1>1, <2>3, <3>2
  <2> QED
    BY <2>4, <2>5
<1> QED
  BY <1>1, <1>2, <1>3, IdleChoices

LEMMA ArrivalChoices ==
    ASSUME Core, Saved, ChoiceInv, NEW s \in Seats, Arrives(s)
    PROVE  ChoiceInv'
<1>1. /\ item = NoItem /\ step = "new" /\ step' = step
      /\ UNCHANGED <<mem, disk, identity, exited, chosen, outdated>>
  BY DEF Arrives, promises, Core, TypeOK
<1>2. mem = disk
  BY <1>1, NothingLeft
<1>3. ASSUME NEW c \in Accounts \ outdated
      PROVE  /\ \A t \in exited[c] : t \in mem.paused[Person(c)]
             /\ chosen[c] \in {NoThread, mem.active[Person(c)]}
  <2>1. item.cmd = "none"
    BY <1>1, NothingInHand
  <2> QED
    BY <2>1, ChoicesOf, NoneReenter
<1>4. StillOut(mem)' /\ StillOut(disk)'
  BY <1>1, <1>2, <1>3 DEF StillOut, Person
<1>5. StillChosen(mem)' /\ StillChosen(disk)'
  BY <1>1, <1>2, <1>3 DEF StillChosen, Person
<1>6. Done'
  BY <1>1, <1>2 DEF Done
<1> QED
  BY <1>4, <1>5, <1>6 DEF ChoiceInv

LEMMA ChoicesStep == Core /\ Saved /\ OneEachBoth /\ ChoiceInv /\ [Next]_vars => ChoiceInv'
<1> SUFFICES ASSUME Core, Saved, OneEachBoth, ChoiceInv, [Next]_vars PROVE ChoiceInv'
  OBVIOUS
<1>1. CASE Creates \/ Leaves \/ Says
  <2>1. /\ UNCHANGED <<disk, identity, item, exited, chosen, outdated>>
        /\ item.cmd \notin {"exit", "join", "switch"}
    BY <1>1 DEF Creates, Leaves, Says, Runs, promises
  <2>2. mem'.active = mem.active /\ mem'.paused = mem.paused
    BY <1>1, CreatesMaps, LeavesMaps DEF Says
  <2> QED
    BY <2>1, <2>2, OtherChoices
<1>2. CASE \E c \in Chats : Relays(c)
  BY <1>2, ChoicesUnchanged DEF Relays, promises
<1>3. CASE UNCHANGED vars
  BY <1>3, ChoicesUnchanged DEF vars
<1>4. CASE Finishes \/ Raises
  BY <1>4, FinishesChoices DEF Finishes, Raises
<1> QED
  BY <1>1, <1>2, <1>3, <1>4, ArrivalChoices, JoinsChoices, ExitsChoices, SwitchesChoices,
     RefusesChoices, SavesChoices, CrashesChoices, ConfirmsChoices DEF Next

LEMMA ChoicesInvariant == Spec => []ChoiceInv
<1>1. Init => ChoiceInv
  BY NothingInHand DEF Init, ChoiceInv, Done, StillOut, StillChosen
<1> QED
  BY <1>1, ChoicesStep, OneEachInvariant, SavedInvariant, CoreInvariant, PTL DEF Spec

\* T-068: after an exit no message of the person is routed into a thread it was in,
\* except into the one it has switched to; T-064: after a switch its messages go to
\* that thread from every chat that is not an address of another one; across
\* kills, errors and confirmed claims, but for who has something kept under an old
\* name.
THEOREM ChoicesAreKept == Spec => ChoicesHold
<1> DEFINE KeptFor(a, t) ==
        Routes(a, t) =>
           /\ t # NoThread /\ t \in exited[a] => mem.active[Person(a)] = t
           /\ chosen[a] \notin {t, NoThread}
              => \E i \in Index(t) : item.seat.chat \in Addresses(mem.threads[i])
           Follows == \A a \in Accounts \ outdated, t \in Threads \cup {NoThread} : KeptFor(a, t)
<1>1. Core /\ ActivesExist /\ ChoiceInv => Follows
  <2> SUFFICES ASSUME Core, ActivesExist, ChoiceInv, NEW a \in Accounts \ outdated,
                      NEW t \in Threads \cup {NoThread},
                      Routes(a, t)
               PROVE  /\ t # NoThread /\ t \in exited[a] => mem.active[Person(a)] = t
                      /\ chosen[a] \notin {t, NoThread}
                         => \E i \in Index(t) : item.seat.chat \in Addresses(mem.threads[i])
    OBVIOUS
  <2> DEFINE p == Person(a)
             c == item.seat.chat
             u == ThreadOf(mem.threads, c)
  <2>1. item.cmd = "say" /\ item.seat.account = a /\ Route(item.seat) = t
    BY DEF Routes, Says, Runs
  <2>2. t = IF u # NoThread /\ u \notin mem.paused[p] THEN u ELSE mem.active[p]
    BY <2>1, PersonType, ActiveIsThere DEF Route, RouteBy, Core
  <2>3. t \in exited[a] => t \in mem.paused[p]
    BY <2>1, ChoicesOf, NoneReenter
  <2>4. chosen[a] \in {NoThread, mem.active[p]}
    BY <2>1, ChoicesOf
  <2>5. u = NoThread \/ \E i \in Index(u) : c \in Addresses(mem.threads[i])
    <3>1. mem.threads \in Seq(ThreadType)
      BY MapsParts DEF Core, TypeOK
    <3> QED
      BY <3>1, ThreadOfChat DEF Index
  <2> HIDE DEF u, p
  <2> QED
    BY <2>2, <2>3, <2>4, <2>5 DEF p
<1>2. [][Follows]_vars => ChoicesHold
  BY DEF ChoicesHold
<1> HIDE DEF Follows
<1> QED
  BY <1>1, <1>2, ChoicesInvariant, ActivesInvariant, CoreInvariant, PTL

----------------------------------------------------------------------------
(* Sequences and sets of numbers. *)

\* A function on an initial interval is a sequence of that length.
LEMMA FunctionAsSeq ==
    ASSUME NEW S, NEW n \in Nat, NEW f \in [1..n -> S]
    PROVE  f \in Seq(S) /\ Len(f) = n
<1>1. f \in Seq(S)
  BY SeqDef
<1>2. 1..Len(f) = 1..n /\ Len(f) \in Nat
  BY <1>1, LenProperties
<1>3. CASE Len(f) < n
  <2>1. n \in 1..n /\ n \notin 1..Len(f)
    BY <1>2, <1>3
  <2> QED
    BY <1>2, <2>1
<1>4. CASE Len(f) > n
  <2>1. Len(f) \in 1..Len(f) /\ Len(f) \notin 1..n
    BY <1>2, <1>4
  <2> QED
    BY <1>2, <2>1
<1> QED
  BY <1>1, <1>2, <1>3, <1>4

\* A sequence without one of its places.
LEMMA Removed ==
    ASSUME NEW S, NEW s \in Seq(S), NEW i \in DOMAIN s
    PROVE  RemoveAt(s, i) \in Seq(S)
<1>1. Len(s) \in Nat /\ i \in 1..Len(s) /\ \A k \in 1..Len(s) : s[k] \in S
  BY LenProperties, ElementOfSeq
<1>2. SubSeq(s, 1, i - 1) \in Seq(S) /\ SubSeq(s, i + 1, Len(s)) \in Seq(S)
  BY <1>1, SubSeqProperties
<1> QED
  BY <1>2, ConcatProperties DEF RemoveAt

\* A set of numbers up to n is finite.
LEMMA FiniteUpTo ==
    ASSUME NEW n \in Nat, NEW S, S \subseteq 1..n
    PROVE  IsFiniteSet(S) /\ Cardinality(S) \in Nat
<1>1. IsFiniteSet(1..n)
  BY FS_Interval
<1> QED
  BY <1>1, FS_Subset, FS_CardinalityType

----------------------------------------------------------------------------
(* Types. *)

LEMMA InitType == OutboundInit => OutboundTypeOK
<1> SUFFICES ASSUME OutboundInit PROVE OutboundTypeOK
  OBVIOUS
<1>1. Keys = {}
  BY DEF OutboundInit, Keys
<1>2. age \in [Keys -> 0..Lifetime]
  BY <1>1 DEF OutboundInit
<1> QED
  BY <1>1, <1>2, OutboundAssumption DEF OutboundInit, OutboundTypeOK

\* What minting one more id does to the ids.
LEMMA Minting ==
    ASSUME OutboundTypeOK, NEW n, Registers(n)
    PROVE  /\ Len(minted) \in Nat /\ n \in Messages
           /\ minted' \in Seq(Messages)
           /\ Keys' = Keys \cup {Len(minted) + 1}
           /\ \A k \in Keys : minted'[k] = minted[k] /\ age'[k] = age[k]
           /\ minted'[Len(minted) + 1] = n /\ age'[Len(minted) + 1] = 0
           /\ age' \in [Keys' -> 0..Lifetime]
<1>1. /\ Len(minted) \in Nat /\ n \in Messages
      /\ minted \in Seq(Messages) /\ Keys = 1..Len(minted)
  BY LenProperties DEF OutboundTypeOK, Registers, Keys
<1>2. /\ minted' \in Seq(Messages) /\ Len(minted') = Len(minted) + 1
      /\ \A k \in 1..Len(minted) : minted'[k] = minted[k]
      /\ minted'[Len(minted) + 1] = n
  BY <1>1, AppendProperties DEF Registers
<1>3. Keys' = Keys \cup {Len(minted) + 1}
  BY <1>1, <1>2 DEF Keys
<1>4. age \in Seq(0..Lifetime) /\ Len(age) = Len(minted)
  <2>1. age \in [1..Len(minted) -> 0..Lifetime]
    BY <1>1 DEF OutboundTypeOK
  <2> QED
    BY <1>1, <2>1, FunctionAsSeq
<1>5. 0 \in 0..Lifetime
  BY OutboundAssumption
<1>6. /\ age' \in Seq(0..Lifetime) /\ Len(age') = Len(minted) + 1
      /\ \A k \in 1..Len(minted) : age'[k] = age[k]
      /\ age'[Len(minted) + 1] = 0
  BY <1>4, <1>5, AppendProperties DEF Registers
<1>7. age' \in [Keys' -> 0..Lifetime]
  BY <1>2, <1>6, LenProperties DEF Keys
<1> QED
  BY <1>1, <1>2, <1>3, <1>6, <1>7

LEMMA RegistersType ==
    ASSUME OutboundTypeOK, NEW n, Registers(n)
    PROVE  OutboundTypeOK'
<1> DEFINE new == Len(minted) + 1
<1>1. /\ Len(minted) \in Nat /\ n \in Messages
      /\ minted' \in Seq(Messages) /\ Keys' = Keys \cup {new}
      /\ \A k \in Keys : minted'[k] = minted[k]
      /\ minted'[new] = n
      /\ age' \in [Keys' -> 0..Lifetime]
  BY Minting
<1>2. \A k \in Keys : HasId(k)' <=> HasId(k)
  BY <1>1 DEF HasId
<1>3. ASSUME n \notin NoId, NEW k, k = new PROVE HasId(k)'
  BY <1>1, <1>3 DEF HasId
<1>4. Kept(map \cup {new}, age') \subseteq map \cup {new}
  BY DEF Kept
<1>5. hand' = new /\ new \in Keys'
  BY <1>1 DEF Registers
<1>6. CASE n \in NoId
  BY <1>1, <1>2, <1>5, <1>6 DEF Registers, OutboundTypeOK
<1>7. CASE n \notin NoId
  <2>1. map' \subseteq {k \in Keys' : HasId(k)'}
    <3>1. map' = Kept(map \cup {new}, age')
      BY <1>7 DEF Registers
    <3>2. \A k \in map : k \in Keys' /\ HasId(k)'
      BY <1>1, <1>2 DEF OutboundTypeOK
    <3>3. \A k : k = new => k \in Keys' /\ HasId(k)'
      BY <1>1, <1>3, <1>7
    <3> QED
      BY <1>4, <3>1, <3>2, <3>3
  <2>2. saved' = map' \/ saved' = saved
    BY <1>7 DEF Registers
  <2>3. saved' \subseteq {k \in Keys' : HasId(k)'}
    BY <1>1, <1>2, <2>1, <2>2 DEF OutboundTypeOK
  <2>4. unsaved' \subseteq Keys'
    BY <1>1, <1>7 DEF Registers, OutboundTypeOK
  <2>5. faults' \in 0..MaxFaults
    BY <1>7, OutboundAssumption DEF Registers, OutboundTypeOK
  <2> QED
    BY <1>1, <1>5, <2>1, <2>3, <2>4, <2>5 DEF Registers, OutboundTypeOK
<1> QED
  BY <1>6, <1>7

LEMMA TicksType == ASSUME OutboundTypeOK, Ticks PROVE OutboundTypeOK'
<1>1. Keys' = Keys /\ \A k : HasId(k)' <=> HasId(k)
  BY DEF Ticks, Keys, HasId
<1>2. age' \in [Keys -> 0..Lifetime]
  BY OutboundAssumption DEF Ticks, OutboundTypeOK
<1> QED
  BY <1>1, <1>2 DEF Ticks, OutboundTypeOK

LEMMA RestartsType == ASSUME OutboundTypeOK, Restarts PROVE OutboundTypeOK'
<1>1. Keys' = Keys /\ \A k : HasId(k)' <=> HasId(k)
  BY DEF Restarts, Keys, HasId
<1>2. faults' \in 0..MaxFaults /\ restarts' \in 0..MaxRestarts
  BY OutboundAssumption DEF Restarts, OutboundTypeOK
<1>3. map' \subseteq {k \in Keys : HasId(k)} /\ lost' \subseteq Keys
  BY DEF Restarts, OutboundTypeOK
<1>4. bridges' \in Seq(Bridges)
  BY DEF Restarts
<1> QED
  BY <1>1, <1>2, <1>3, <1>4 DEF Restarts, OutboundTypeOK

\* The steps that leave the ids and the map alone.
Idle == /\ UNCHANGED <<minted, age, map, saved, unsaved, lost>>

LEMMA IdleType ==
    ASSUME OutboundTypeOK, Idle,
           bridges' \in Seq(Bridges), todo' \subseteq Messages,
           hand' \in Keys \cup {0}, handed' \subseteq Keys,
           faults' \in 0..MaxFaults, restarts' = restarts
    PROVE  OutboundTypeOK'
<1>1. Keys' = Keys /\ \A k : HasId(k)' <=> HasId(k)
  BY DEF Idle, Keys, HasId
<1> QED
  BY <1>1 DEF OutboundTypeOK, Idle

LEMMA SendsIdle ==
    ASSUME OutboundTypeOK, NEW kind, NEW t, NEW k, Sends(kind, t, k)
    PROVE  OutboundTypeOK' /\ Idle
<1>1. faults' \in 0..MaxFaults
  BY OutboundAssumption DEF Sends, OutboundTypeOK
<1>2. Idle /\ UNCHANGED <<bridges, todo, hand, handed, restarts>>
  BY DEF Sends, Idle
<1>3. OutboundTypeOK'
  BY <1>1, <1>2, IdleType DEF OutboundTypeOK
<1> QED
  BY <1>2, <1>3

LEMMA BridgesIdle ==
    ASSUME OutboundTypeOK, NEW b \in Bridges, BridgeJoins(b) \/ BridgeLeaves(b)
    PROVE  OutboundTypeOK' /\ Idle
<1>1. Idle /\ UNCHANGED <<todo, hand, handed, faults, restarts>>
  BY DEF BridgeJoins, BridgeLeaves, Idle
<1>2. bridges' \in Seq(Bridges)
  <2>1. CASE BridgeJoins(b)
    BY <2>1, AppendProperties DEF BridgeJoins, OutboundTypeOK
  <2>2. CASE BridgeLeaves(b)
    BY <2>2, Removed DEF BridgeLeaves, OutboundTypeOK
  <2> QED
    BY <2>1, <2>2
<1>3. OutboundTypeOK'
  BY <1>1, <1>2, IdleType DEF OutboundTypeOK
<1> QED
  BY <1>1, <1>3

LEMMA HandIdle ==
    ASSUME OutboundTypeOK, Drops \/ Hands
    PROVE  OutboundTypeOK' /\ Idle
<1>1. Idle /\ UNCHANGED <<bridges, faults, restarts>>
  BY DEF Drops, Hands, Idle
<1>2. todo' \subseteq Messages /\ hand' \in Keys \cup {0} /\ handed' \subseteq Keys
  BY DEF Drops, Hands, OutboundTypeOK
<1>3. OutboundTypeOK'
  BY <1>1, <1>2, IdleType DEF OutboundTypeOK
<1> QED
  BY <1>1, <1>3

LEMMA NextType == ASSUME OutboundTypeOK, [OutboundNext]_outboundVars PROVE OutboundTypeOK'
<1>1. CASE \E n \in Messages : Registers(n)
  BY <1>1, RegistersType
<1>2. CASE Drops \/ Hands
  BY <1>2, HandIdle
<1>3. CASE Ticks
  BY <1>3, TicksType
<1>4. CASE \E kind \in {"text", "image"}, t \in Targets, k \in handed \cup {0} :
              Sends(kind, t, k)
  BY <1>4, SendsIdle
<1>5. CASE \E b \in Bridges : BridgeJoins(b) \/ BridgeLeaves(b)
  BY <1>5, BridgesIdle
<1>6. CASE Restarts
  BY <1>6, RestartsType
<1>7. CASE UNCHANGED outboundVars
  <2>1. Idle
    BY <1>7 DEF outboundVars, Idle
  <2> QED
    BY <1>7, <2>1, IdleType DEF outboundVars, OutboundTypeOK
<1> QED
  BY <1>1, <1>2, <1>3, <1>4, <1>5, <1>6, <1>7 DEF OutboundNext

\* The variables keep their types, and map, file and gateway know minted ids
\* only.
THEOREM OutboundTypeCorrect == OutboundSpec => []OutboundTypeOK
<1>1. OutboundTypeOK /\ [OutboundNext]_outboundVars => OutboundTypeOK'
  BY NextType
<1> QED
  BY InitType, <1>1, PTL DEF OutboundSpec

----------------------------------------------------------------------------
(* The reply map. *)

\* An id whose message has one is in the map or has a reason not to be.
Remembered == \A k \in Keys : k \in map \/ Forgotten(k)

\* It is in the file too, but for what was minted since the last save.
Stored == \A k \in Keys : k \in saved \/ Forgotten(k) \/ k \in unsaved

ReplyInv == Remembered /\ Stored

\* The later ids that count against id k are finitely many.
Later(k) == {j \in Keys : j > k /\ HasId(j)}

LEMMA LaterFinite ==
    ASSUME OutboundTypeOK
    PROVE  \A k : IsFiniteSet(Later(k)) /\ Cardinality(Later(k)) \in Nat
<1>1. Len(minted) \in Nat
  BY LenProperties DEF OutboundTypeOK
<1>2. \A k : Later(k) \subseteq 1..Len(minted)
  BY DEF Later, Keys
<1> QED
  BY <1>1, <1>2, FiniteUpTo

LEMMA LaterFiniteNext ==
    ASSUME OutboundTypeOK'
    PROVE  \A k : IsFiniteSet(Later(k)') /\ Cardinality(Later(k)') \in Nat
<1>1. Len(minted') \in Nat
  BY LenProperties DEF OutboundTypeOK
<1>2. \A k : Later(k)' \subseteq 1..Len(minted')
  BY DEF Later, Keys
<1> QED
  BY <1>1, <1>2, FiniteUpTo

\* A reason to have forgotten an id stays one.
LEMMA ForgottenStays ==
    ASSUME OutboundTypeOK, OutboundTypeOK', NEW k \in Keys, Forgotten(k),
           Keys \subseteq Keys', lost \subseteq lost',
           \A j \in Keys : minted'[j] = minted[j] /\ age'[j] >= age[j]
    PROVE  Forgotten(k)'
<1>1. CASE ~HasId(k)
  BY <1>1 DEF HasId, Forgotten
<1>2. CASE Expired(k)
  <2>1. /\ age[k] \in 0..Lifetime /\ age'[k] \in 0..Lifetime
        /\ age[k] >= Lifetime /\ age'[k] >= age[k]
    BY <1>2 DEF OutboundTypeOK, Expired
  <2> QED
    BY <2>1, OutboundAssumption DEF Forgotten, Expired
<1>3. CASE Crowded(k)
  <2>1. Later(k) \in SUBSET Later(k)'
    BY DEF Later, HasId
  <2>2. IsFiniteSet(Later(k)') /\ Cardinality(Later(k)') \in Nat
    BY LaterFiniteNext
  <2>3. Cardinality(Later(k)) \in Nat
    BY LaterFinite
  <2>4. Cardinality(Later(k)) <= Cardinality(Later(k)')
    BY <2>1, <2>2, FS_Subset
  <2>5. Cardinality(Later(k)) >= Cap
    BY <1>3 DEF Crowded, Later
  <2>6. Cardinality(Later(k)') >= Cap
    BY <2>2, <2>3, <2>4, <2>5, OutboundAssumption
  <2> QED
    BY <2>6 DEF Forgotten, Crowded, Later
<1>4. CASE k \in lost
  BY <1>4 DEF Forgotten
<1> QED
  BY <1>1, <1>2, <1>3, <1>4 DEF Forgotten

\* Pruning gives up no entry without a reason.
LEMMA KeptOrForgotten ==
    ASSUME OutboundTypeOK', NEW S, S \subseteq {j \in Keys' : HasId(j)'}, NEW k \in S
    PROVE  k \in Kept(S, age') \/ Forgotten(k)'
<1> DEFINE fresh == {j \in S : age'[j] < Lifetime}
           ahead == {j \in fresh : j > k}
<1> SUFFICES ASSUME ~Forgotten(k)' PROVE k \in Kept(S, age')
  OBVIOUS
<1>1. age'[k] \in 0..Lifetime
  BY DEF OutboundTypeOK
<1>2. k \in fresh
  BY <1>1, OutboundAssumption DEF Forgotten, Expired
<1>3. ahead \in SUBSET Later(k)'
  BY DEF Later
<1>4. IsFiniteSet(Later(k)') /\ Cardinality(Later(k)') \in Nat
  BY LaterFiniteNext
<1>5. ~(Cardinality(Later(k)') >= Cap)
  BY DEF Forgotten, Crowded, Later
<1>6. /\ IsFiniteSet(ahead) /\ Cardinality(ahead) <= Cardinality(Later(k)')
  BY <1>3, <1>4, FS_Subset
<1>7. Cardinality(ahead) \in Nat
  BY <1>6, FS_CardinalityType
<1>8. Cardinality(ahead) < Cap
  BY <1>4, <1>5, <1>6, <1>7, OutboundAssumption
<1> QED
  BY <1>2, <1>8 DEF Kept

LEMMA RegistersInv ==
    ASSUME OutboundTypeOK, OutboundTypeOK', ReplyInv, NEW n, Registers(n)
    PROVE  ReplyInv'
<1> DEFINE new == Len(minted) + 1
           all == map \cup {new}
<1>1. /\ Len(minted) \in Nat
      /\ Keys' = Keys \cup {new}
      /\ \A k \in Keys : minted'[k] = minted[k] /\ age'[k] = age[k]
      /\ minted'[new] = n
  BY Minting
<1>2. lost' = lost /\ \A k \in Keys : age[k] \in 0..Lifetime
  BY DEF Registers, OutboundTypeOK
<1>3. \A k \in Keys : age'[k] >= age[k]
  BY <1>1, <1>2, OutboundAssumption
<1>4. \A k \in Keys : Forgotten(k) => Forgotten(k)'
  BY <1>1, <1>2, <1>3, ForgottenStays
<1>5. CASE n \in NoId
  <2>1. map' = map /\ saved' = saved /\ unsaved' = unsaved
    BY <1>5 DEF Registers
  <2>2. ASSUME NEW k, k = new PROVE Forgotten(k)'
    BY <1>1, <1>5, <2>2 DEF Forgotten, HasId
  <2> QED
    BY <1>1, <1>4, <2>1, <2>2 DEF ReplyInv, Remembered, Stored
<1>6. CASE n \notin NoId
  <2>1. map' = Kept(all, age')
    BY <1>6 DEF Registers
  <2>2. all \subseteq {j \in Keys' : HasId(j)'}
    BY <1>1, <1>6 DEF OutboundTypeOK, HasId
  <2>3. \A k \in all : k \in map' \/ Forgotten(k)'
    BY <2>1, <2>2, KeptOrForgotten
  <2>4. \A k \in Keys' : k \in map' \/ Forgotten(k)'
    BY <1>1, <1>4, <2>3 DEF ReplyInv, Remembered
  <2>5. \/ saved' = map'
        \/ saved' = saved /\ unsaved' = unsaved \cup {new}
    BY <1>6 DEF Registers
  <2>6. \A k \in Keys' : k \in saved' \/ Forgotten(k)' \/ k \in unsaved'
    BY <1>1, <1>4, <2>4, <2>5 DEF ReplyInv, Stored
  <2> QED
    BY <2>4, <2>6 DEF ReplyInv, Remembered, Stored
<1> QED
  BY <1>5, <1>6

LEMMA TicksInv ==
    ASSUME OutboundTypeOK, OutboundTypeOK', ReplyInv, Ticks
    PROVE  ReplyInv'
<1>1. Keys' = Keys /\ UNCHANGED <<minted, map, saved, unsaved, lost>>
  BY DEF Ticks, Keys
<1>2. \A k \in Keys : age[k] \in 0..Lifetime
  BY DEF OutboundTypeOK
<1>3. \A k \in Keys : age'[k] >= age[k]
  BY <1>2, OutboundAssumption DEF Ticks
<1>4. \A k \in Keys : Forgotten(k) => Forgotten(k)'
  BY <1>1, <1>3, ForgottenStays
<1> QED
  BY <1>1, <1>4 DEF ReplyInv, Remembered, Stored

LEMMA RestartsInv ==
    ASSUME OutboundTypeOK, OutboundTypeOK', ReplyInv, Restarts
    PROVE  ReplyInv'
<1>1. Keys' = Keys /\ UNCHANGED <<minted, age, saved>> /\ unsaved' = {}
      /\ lost \subseteq lost'
  BY DEF Restarts, Keys
<1>2. \A k \in Keys : age[k] \in 0..Lifetime
  BY DEF OutboundTypeOK
<1>3. \A k \in Keys : age'[k] >= age[k]
  BY <1>1, <1>2, OutboundAssumption
<1>4. \A k \in Keys : Forgotten(k) => Forgotten(k)'
  BY <1>1, <1>3, ForgottenStays
<1>5. \A k \in lost' : Forgotten(k)'
  BY DEF Forgotten
<1>6. \/ map' = saved /\ unsaved \subseteq lost'
      \/ Keys \subseteq lost'
  BY DEF Restarts
<1> QED
  BY <1>1, <1>4, <1>5, <1>6 DEF ReplyInv, Remembered, Stored

LEMMA IdleInv == ASSUME ReplyInv, Idle PROVE ReplyInv'
<1>1. Keys' = Keys /\ \A k : HasId(k)' <=> HasId(k)
  BY DEF Idle, Keys, HasId
<1>2. \A k : Forgotten(k)' <=> Forgotten(k)
  BY <1>1 DEF Idle, Forgotten, Expired, Crowded
<1> QED
  BY <1>1, <1>2 DEF Idle, ReplyInv, Remembered, Stored

LEMMA NextInv ==
    ASSUME OutboundTypeOK, OutboundTypeOK', ReplyInv, [OutboundNext]_outboundVars
    PROVE  ReplyInv'
<1>1. CASE \E n \in Messages : Registers(n)
  BY <1>1, RegistersInv
<1>2. CASE Drops \/ Hands
  BY <1>2, HandIdle, IdleInv
<1>3. CASE Ticks
  BY <1>3, TicksInv
<1>4. CASE \E kind \in {"text", "image"}, t \in Targets, k \in handed \cup {0} :
              Sends(kind, t, k)
  BY <1>4, SendsIdle, IdleInv
<1>5. CASE \E b \in Bridges : BridgeJoins(b) \/ BridgeLeaves(b)
  BY <1>5, BridgesIdle, IdleInv
<1>6. CASE Restarts
  BY <1>6, RestartsInv
<1>7. CASE UNCHANGED outboundVars
  BY <1>7, IdleInv DEF outboundVars, Idle
<1> QED
  BY <1>1, <1>2, <1>3, <1>4, <1>5, <1>6, <1>7 DEF OutboundNext

\* What the agent answers to is quoted by its own local id, unless the map
\* has a reason to have forgotten it.
THEOREM AnswersQuote == OutboundSpec => []QuoteHasAReason
<1>1. OutboundInit => ReplyInv
  <2>1. OutboundInit => Keys = {}
    BY DEF OutboundInit, Keys
  <2> QED
    BY <2>1 DEF ReplyInv, Remembered, Stored
<1>2. OutboundTypeOK /\ OutboundTypeOK' /\ ReplyInv /\ [OutboundNext]_outboundVars => ReplyInv'
  BY NextInv
<1>3. OutboundTypeOK /\ ReplyInv => QuoteHasAReason
  <2> SUFFICES ASSUME OutboundTypeOK, ReplyInv, NEW k \in handed, ~Forgotten(k)
               PROVE  ResolveReplyTo(k) = Local(k)
    BY DEF QuoteHasAReason
  <2>1. k \in Keys /\ k # 0
    BY DEF OutboundTypeOK, Keys
  <2>2. k \in map
    BY <2>1 DEF ReplyInv, Remembered
  <2> QED
    BY <2>1, <2>2 DEF ResolveReplyTo
<1> QED
  BY OutboundTypeCorrect, <1>1, <1>2, <1>3, PTL DEF OutboundSpec

----------------------------------------------------------------------------
(* The files of a call. *)

LEMMA MembersParts ==
    /\ DOMAIN Members = 1..Len(Members) /\ Len(Members) \in Nat
    /\ \A m \in DOMAIN Members : /\ Members[m] \in Seq(Destinations)
                                 /\ DOMAIN Members[m] = 1..Len(Members[m])
                                 /\ Len(Members[m]) \in Nat
<1>1. Members \in Seq(Seq(Destinations))
  BY OutboundAssumption
<1>2. /\ DOMAIN Members = 1..Len(Members) /\ Len(Members) \in Nat
      /\ \A m \in DOMAIN Members : Members[m] \in Seq(Destinations)
  BY <1>1, LenProperties, ElementOfSeq
<1> QED
  BY <1>2, LenProperties

\* A place of the multicast is the first one of its address with its member.
LEMMA RecipientIs ==
    ASSUME NEW m, NEW i
    PROVE  <<m, i>> \in Recipients <=>
              /\ m \in DOMAIN Members /\ i \in DOMAIN Members[m]
              /\ \A j \in 1..(i - 1) : Members[m][j] # Members[m][i]
BY DEF Recipients

LEMMA RecipientParts ==
    ASSUME NEW r \in Recipients
    PROVE  /\ r = <<r[1], r[2]>>
           /\ r[1] \in DOMAIN Members /\ r[2] \in DOMAIN Members[r[1]]
           /\ \A j \in 1..(r[2] - 1) : Members[r[1]][j] # Members[r[1]][r[2]]
           /\ Members[r[1]][r[2]] \in Destinations
<1>1. /\ r = <<r[1], r[2]>>
      /\ r[1] \in DOMAIN Members /\ r[2] \in DOMAIN Members[r[1]]
      /\ \A j \in 1..(r[2] - 1) : Members[r[1]][j] # Members[r[1]][r[2]]
  BY DEF Recipients
<1>2. Members[r[1]][r[2]] \in Destinations
  BY <1>1, MembersParts, ElementOfSeq
<1> QED
  BY <1>1, <1>2

\* Each address of a member has one place.
LEMMA PlaceOf ==
    ASSUME NEW m \in DOMAIN Members, NEW a, Contains(Members[m], a)
    PROVE  \E i \in DOMAIN Members[m] : <<m, i>> \in Recipients /\ Members[m][i] = a
<1> DEFINE S == {i \in DOMAIN Members[m] : Members[m][i] = a}
<1>1. S \subseteq Nat /\ S # {} /\ DOMAIN Members[m] = 1..Len(Members[m]) /\ Len(Members[m]) \in Nat
  BY MembersParts DEF Contains
<1> HIDE DEF S
<1>2. First(S) \in S /\ \A j \in S : First(S) <= j
  BY <1>1, FirstPlace
<1> DEFINE i == First(S)
<1>3. i \in DOMAIN Members[m] /\ Members[m][i] = a
  BY <1>2 DEF S
<1> HIDE DEF i
<1>4. \A j \in 1..(i - 1) : j \in DOMAIN Members[m] /\ ~ (i <= j)
  BY <1>1, <1>3
<1>5. \A j \in 1..(i - 1) : Members[m][j] # a
  BY <1>2, <1>4 DEF S, i
<1>6. <<m, i>> \in Recipients
  BY <1>3, <1>5, RecipientIs
<1> QED
  BY <1>3, <1>6

LEMMA OnePlace ==
    ASSUME NEW r \in Recipients, NEW q \in Recipients, r[1] = q[1],
           Members[r[1]][r[2]] = Members[q[1]][q[2]]
    PROVE  r = q
<1>1. /\ r = <<r[1], r[2]>> /\ q = <<q[1], q[2]>>
      /\ r[2] \in 1..Len(Members[r[1]]) /\ q[2] \in 1..Len(Members[r[1]])
      /\ Len(Members[r[1]]) \in Nat
      /\ \A j \in 1..(r[2] - 1) : Members[r[1]][j] # Members[r[1]][r[2]]
      /\ \A j \in 1..(q[2] - 1) : Members[q[1]][j] # Members[q[1]][q[2]]
  BY RecipientParts, MembersParts
<1>2. CASE r[2] < q[2]
  BY <1>1, <1>2
<1>3. CASE q[2] < r[2]
  BY <1>1, <1>3
<1>4. CASE r[2] = q[2]
  BY <1>1, <1>4
<1> QED
  BY <1>1, <1>2, <1>3, <1>4

\* The files have a place each, all places have one, and they are for its address.
Multicast(Q) ==
    /\ \A q \in Q : q.at \in Recipients /\ q.to = Members[q.at[1]][q.at[2]]
    /\ \A q, u \in Q : q.at = u.at => q = u
    /\ \A r \in Recipients : \E q \in Q : q.at = r

LEMMA OncePerMember ==
    ASSUME NEW Q, Multicast(Q), NEW a
    PROVE  Cardinality({q \in Q : q.to = a})
             = Cardinality({m \in DOMAIN Members : Contains(Members[m], a)})
<1> DEFINE T == {q \in Q : q.to = a}
           S == {m \in DOMAIN Members : Contains(Members[m], a)}
           g == [q \in T |-> q.at[1]]
<1>1. \A q \in T : q.at \in Recipients /\ Members[q.at[1]][q.at[2]] = a
  BY DEF Multicast
<1>2. ASSUME NEW q \in T
      PROVE  q.at[1] \in S
  <2>1. q.at[1] \in DOMAIN Members /\ q.at[2] \in DOMAIN Members[q.at[1]]
    BY <1>1, RecipientParts
  <2> QED
    BY <1>1, <2>1, MembersParts DEF Contains
<1>3. ASSUME NEW q \in T, NEW u \in T, q.at[1] = u.at[1]
      PROVE  q = u
  <2>1. q.at = u.at
    BY <1>1, <1>3, OnePlace
  <2> QED
    BY <2>1 DEF Multicast
<1>4. ASSUME NEW m \in S
      PROVE  \E q \in T : q.at[1] = m
  <2>1. PICK i \in DOMAIN Members[m] : <<m, i>> \in Recipients /\ Members[m][i] = a
    BY PlaceOf
  <2>2. PICK q \in Q : q.at = <<m, i>>
    BY <2>1 DEF Multicast
  <2>3. q.at[1] = m /\ q.at[2] = i /\ q.to = Members[q.at[1]][q.at[2]]
    BY <2>2 DEF Multicast
  <2> QED
    BY <2>1, <2>3
<1>5. IsFiniteSet(S)
  BY FiniteUpTo, MembersParts
<1> HIDE DEF T, S
<1>6. g \in [T -> S]
  BY <1>2
<1>7. \A q, u \in T : g[q] = g[u] => q = u
  BY <1>3
<1>8. \A m \in S : \E q \in T : g[q] = m
  BY <1>4
<1> HIDE DEF g
<1>9. g \in Injection(T, S)
  BY <1>6, <1>7 DEF Injection, IsInjective
<1>10. g \in Surjection(T, S)
  BY <1>6, <1>8 DEF Surjection
<1>11. Cardinality(T) = Cardinality(S)
  BY <1>5, <1>9, <1>10, FS_Injection
<1> QED
  BY <1>11 DEF S, T

LEMMA KnownOnly ==
    ASSUME OutboundTypeOK, NEW t \in Targets, NEW d \in OnlyIfKnown(t.bridge)
    PROVE  /\ d \in ToSet(bridges)
           /\ d = t.bridge \/ (t.bridge = NoBridge /\ bridges = <<d>>)
<1>1. bridges \in Seq(Bridges) /\ Len(bridges) \in Nat /\ DOMAIN bridges = 1..Len(bridges)
  BY LenProperties DEF OutboundTypeOK
<1>2. CASE t.bridge \in ToSet(bridges)
  <2>1. t.bridge \in Bridges
    BY <1>1, <1>2, ElementOfSeq DEF ToSet
  <2>2. t.bridge # NoBridge
    BY <2>1, OutboundAssumption
  <2> QED
    BY <1>2, <2>2 DEF OnlyIfKnown
<1>3. CASE t.bridge \notin ToSet(bridges)
  <2>1. t.bridge = NoBridge /\ Len(bridges) = 1 /\ d = bridges[1]
    BY <1>3 DEF OnlyIfKnown
  <2>2. bridges = <<d>>
    BY <1>1, <2>1
  <2>3. d \in ToSet(bridges)
    BY <1>1, <2>1 DEF ToSet
  <2> QED
    BY <2>1, <2>2, <2>3
<1> QED
  BY <1>2, <1>3

\* The file p of a call lies where its address says.
Placed(p, kind, t) ==
    IF kind = "text"
    THEN /\ p.dir = p.to.bridge \/ (p.to.bridge = NoBridge /\ bridges = <<p.dir>>)
         /\ IsThread(t) \/ p.dir \in ToSet(bridges)
    ELSE p.dir = IF p.to.bridge \in ToSet(bridges) THEN p.to.bridge
                 ELSE IF bridges = <<>> THEN Default ELSE bridges[1]

LEMMA PostIs ==
    ASSUME NEW r, NEW dir, NEW to, NEW k
    PROVE  /\ Post(r, dir, to, k).at = r /\ Post(r, dir, to, k).dir = dir
           /\ Post(r, dir, to, k).to = to /\ Post(r, dir, to, k).there
BY DEF Post

LEMMA PostsArePlaced ==
    ASSUME OutboundTypeOK, NEW kind, NEW t \in Targets, NEW k, NEW p \in PostsOf(kind, t, k)
    PROVE  Placed(p, kind, t) /\ p.there
<1>1. CASE kind = "text" /\ IsThread(t)
  <2>1. PICK r \in Recipients :
           p = Post(r, Members[r[1]][r[2]].bridge, Members[r[1]][r[2]], k)
    BY <1>1 DEF PostsOf, TextPosts
  <2> QED
    BY <1>1, <2>1, PostIs DEF Placed
<1>2. CASE kind = "text" /\ ~ IsThread(t)
  <2>1. PICK d \in OnlyIfKnown(t.bridge) : p = Post(<<1, 1>>, d, t, k)
    BY <1>2 DEF PostsOf, TextPosts
  <2> QED
    BY <1>2, <2>1, PostIs, KnownOnly DEF Placed
<1>3. CASE kind # "text"
  <2>1. p = Post(<<1, 1>>, FirstOr(t.bridge), t, k)
    BY <1>3 DEF PostsOf, MediaPosts
  <2>2. FirstOr(t.bridge) = IF t.bridge \in ToSet(bridges) THEN t.bridge
                            ELSE IF bridges = <<>> THEN Default ELSE bridges[1]
    <3>1. bridges # <<>> \/ bridges = <<>>
      OBVIOUS
    <3>2. ToSet(bridges) = {} \/ bridges # <<>>
      BY DEF ToSet
    <3> QED
      BY <3>2 DEF FirstOr
  <2> QED
    BY <1>3, <2>1, <2>2, PostIs DEF Placed
<1> QED
  BY <1>1, <1>2, <1>3

LEMMA PostsCover ==
    ASSUME NEW t, NEW k, IsThread(t), TextPosts(t, k) # {}
    PROVE  Multicast(TextPosts(t, k))
<1>1. TextPosts(t, k) = {Post(r, Members[r[1]][r[2]].bridge, Members[r[1]][r[2]], k) :
                           r \in Recipients}
  BY DEF TextPosts
<1> QED
  BY <1>1, PostIs DEF Multicast

\* A file the file system failed has the place and the address of the file.
LEMMA MissingIs ==
    ASSUME NEW r, NEW dir, NEW to, NEW k, NEW p, p = Post(r, dir, to, k),
           NEW u, u = [p EXCEPT !.there = FALSE]
    PROVE  u.at = p.at /\ u.dir = p.dir /\ u.to = p.to /\ ~ u.there
BY DEF Post

LEMMA PostShape ==
    ASSUME NEW kind, NEW t, NEW k, NEW p \in PostsOf(kind, t, k)
    PROVE  \E r, dir, to : p = Post(r, dir, to, k)
<1>1. CASE kind = "text" /\ IsThread(t)
  BY <1>1 DEF PostsOf, TextPosts
<1>2. CASE kind = "text" /\ ~ IsThread(t)
  BY <1>2 DEF PostsOf, TextPosts
<1>3. CASE kind # "text"
  BY <1>3 DEF PostsOf, MediaPosts
<1> QED
  BY <1>1, <1>2, <1>3

\* What a call leaves: all its files, all but one of them, or the first of them.
LEMMA CallLeaves ==
    ASSUME OutboundTypeOK, NEW kind \in {"text", "image"}, NEW t \in Targets, NEW k,
           Sends(kind, t, k)
    PROVE  OutboxOfTheTarget' /\ MulticastReachesEach'
<1> DEFINE P == PostsOf(kind, t, k)
           Q == last'.posts
           gone(p) == [p EXCEPT !.there = FALSE]
<1>1. /\ last'.kind = kind /\ last'.target = t /\ bridges' = bridges
      /\ \/ /\ Q = P /\ faults' = faults
            /\ last'.result = IF P = {} THEN "refused" ELSE "sent"
         \/ /\ faults' = faults + 1
            /\ \E p \in P :
                  \/ Q = (P \ {p}) \cup {gone(p)} /\ last'.result = "sent"
                  \/ Q \subseteq P /\ last'.result = "raised"
  BY DEF Sends
<1>2. faults \in Nat
  BY OutboundAssumption DEF OutboundTypeOK
<1>3. \A p \in P : Placed(p, kind, t) /\ p.there
  BY PostsArePlaced
<1>4. ASSUME NEW p \in P
      PROVE  /\ gone(p).at = p.at /\ gone(p).dir = p.dir /\ gone(p).to = p.to
             /\ ~ gone(p).there
  <2>1. PICK r, dir, to : p = Post(r, dir, to, k)
    BY PostShape
  <2> QED
    BY <2>1, MissingIs
<1>5. kind = "text" /\ IsThread(t) /\ P # {} => Multicast(P)
  BY PostsCover DEF PostsOf
<1> HIDE DEF P, Q, gone
<1>6. \A q \in Q : Placed(q, kind, t)
  BY <1>1, <1>3, <1>4 DEF Placed
<1>7. last'.result = "refused" => Q = {}
  BY <1>1
<1>8. Cardinality({q \in Q : ~ q.there}) <= faults'
  <2>1. CASE \A q \in Q : q \in P
    <3>1. {q \in Q : ~ q.there} = {}
      BY <1>3, <2>1
    <3> QED
      BY <1>1, <1>2, <3>1, FS_EmptySet
  <2>2. CASE ~ \A q \in Q : q \in P
    <3>1. PICK p \in P : Q = (P \ {p}) \cup {gone(p)}
      BY <1>1, <2>2
    <3>2. faults' = faults + 1 /\ gone(p) \in Q /\ ~ gone(p).there
      BY <1>1, <1>4, <2>2, <3>1
    <3>3. \A q \in Q : q = gone(p) \/ q.there
      BY <1>3, <3>1
    <3>4. {q \in Q : ~ q.there} = {gone(p)}
      BY <3>2, <3>3
    <3> QED
      BY <1>2, <3>2, <3>4, FS_Singleton
  <2> QED
    BY <2>1, <2>2
<1>9. kind = "text" /\ last'.result = "sent" /\ IsThread(t) => Multicast(Q)
  <2> SUFFICES ASSUME kind = "text", last'.result = "sent", IsThread(t)
               PROVE  Multicast(Q)
    OBVIOUS
  <2>1. CASE Q = P
    BY <1>1, <1>5, <2>1
  <2>2. CASE Q # P
    <3>1. PICK p \in P : Q = (P \ {p}) \cup {gone(p)}
      BY <1>1, <2>2
    <3>2. Multicast(P)
      BY <1>5, <3>1
    <3>3. \A q \in Q : q.at \in Recipients /\ q.to = Members[q.at[1]][q.at[2]]
      BY <1>4, <3>1, <3>2 DEF Multicast
    <3>4. \A q, u \in Q : q.at = u.at => q = u
      BY <1>4, <3>1, <3>2 DEF Multicast
    <3>5. \A r \in Recipients : \E q \in Q : q.at = r
      BY <1>4, <3>1, <3>2 DEF Multicast
    <3> QED
      BY <3>3, <3>4, <3>5 DEF Multicast
  <2> QED
    BY <2>1, <2>2
<1>10. OutboxOfTheTarget'
  BY <1>1, <1>6 DEF OutboxOfTheTarget, Placed, Q, IsThread
<1>11. MulticastReachesEach'
  BY <1>1, <1>7, <1>8, <1>9, OncePerMember DEF MulticastReachesEach, Q, IsThread
<1> QED
  BY <1>10, <1>11

CallInv == OutboxOfTheTarget /\ MulticastReachesEach

LEMMA NoCall ==
    ASSUME last = NoSend, faults \in Nat
    PROVE  CallInv
<1>1. last.posts = {} /\ last.result = "none" /\ last.kind = "text"
  BY DEF NoSend
<1>2. {p \in last.posts : ~ p.there} = {}
  BY <1>1
<1> QED
  BY <1>1, <1>2, FS_EmptySet DEF CallInv, OutboxOfTheTarget, MulticastReachesEach

LEMMA CallStep == OutboundTypeOK /\ CallInv /\ [OutboundNext]_outboundVars => CallInv'
<1> SUFFICES ASSUME OutboundTypeOK, CallInv, [OutboundNext]_outboundVars
             PROVE  CallInv'
  OBVIOUS
<1>1. CASE \E kind \in {"text", "image"}, t \in Targets, k \in handed \cup {0} :
              Sends(kind, t, k)
  BY <1>1, CallLeaves DEF CallInv
<1>2. CASE last' = NoSend
  <2>1. OutboundTypeOK'
    BY NextType
  <2>2. faults' \in Nat
    BY <2>1, OutboundAssumption DEF OutboundTypeOK
  <2>3. last'.posts = {} /\ last'.result = "none" /\ last'.kind = "text"
    BY <1>2 DEF NoSend
  <2>4. {p \in last'.posts : ~ p.there} = {}
    BY <2>3
  <2> QED
    BY <2>2, <2>3, <2>4, FS_EmptySet DEF CallInv, OutboxOfTheTarget, MulticastReachesEach
<1>3. CASE UNCHANGED outboundVars
  BY <1>3 DEF outboundVars, CallInv, OutboxOfTheTarget, MulticastReachesEach
<1>4. OutboundNext => \/ last' = NoSend
                      \/ \E kind \in {"text", "image"}, t \in Targets, k \in handed \cup {0} :
                            Sends(kind, t, k)
  BY DEF OutboundNext, Registers, Drops, Hands, Ticks, BridgeJoins, BridgeLeaves, Restarts
<1> QED
  BY <1>1, <1>2, <1>3, <1>4

LEMMA CallInvariance == OutboundSpec => []CallInv
<1>1. OutboundInit => CallInv
  BY NoCall, OutboundAssumption DEF OutboundInit
<1> QED
  BY <1>1, CallStep, OutboundTypeCorrect, PTL DEF OutboundSpec

\* A file lies in the outbox of the bridge its address names, but for the two
\* fallbacks of the code.
THEOREM RightOutbox == OutboundSpec => []OutboxOfTheTarget
<1>1. CallInv => OutboxOfTheTarget
  BY DEF CallInv
<1> QED
  BY <1>1, CallInvariance, PTL

\* A text into the thread was tried at every address of every member, once for each
\* member that has it, and misses only what the file system failed.
THEOREM EachIsReached == OutboundSpec => []MulticastReachesEach
<1>1. CallInv => MulticastReachesEach
  BY DEF CallInv
<1> QED
  BY <1>1, CallInvariance, PTL

=============================================================================
