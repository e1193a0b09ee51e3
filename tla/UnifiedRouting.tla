--------------------------- MODULE UnifiedRouting ---------------------------
(***************************************************************************)
(* The unified threads of adapter.py: who is in which thread, and to which *)
(* session a message goes.  Three maps decide it, each with a file of its  *)
(* own: the threads with their members, the thread a person switched to,   *)
(* and the threads a person has paused.  They are changed by the /unified  *)
(* commands create, join, leave, exit and switch and read for each         *)
(* message, which is also relayed to the other bridges of its thread.      *)
(*                                                                         *)
(* The poll task handles one inbox file at a time.  A command changes the  *)
(* maps in memory and saves them one file after the other; it is not       *)
(* recorded in the dedup map, so when the process is killed before the     *)
(* unlink, the command runs again.  A copy of a message may fail to be     *)
(* written, and an error may end the handling of a file.                   *)
(***************************************************************************)
EXTENDS Integers, Sequences, FiniteSets, Identity

CONSTANTS
    Seats,       \* who writes where: an account [bridge, user] and a chat
    Threads,     \* the names of threads
    NoThread,
    MaxItems,    \* bound: inbox files
    MaxCrashes,  \* bound: kills
    MaxMerges    \* bound: confirmed identity claims

Accounts == {s.account : s \in Seats}
Chats    == {s.chat : s \in Seats}
Users    == {a.user : a \in Accounts}

Commands == {"create", "join", "leave", "exit", "switch", "say"}

ASSUME RoutingAssumption ==
    /\ \A s \in Seats : s = [account |-> s.account, chat |-> s.chat]
    /\ \A a \in Accounts : a = [bridge |-> a.bridge, user |-> a.user]
    /\ \A s, r \in Seats : s.chat = r.chat => s.account.bridge = r.account.bridge
    /\ NoThread \notin Threads
    /\ MaxItems \in Nat /\ MaxCrashes \in Nat /\ MaxMerges \in Nat

VARIABLES
    mem,       \* _unified_threads, _active_threads, _paused_threads
    disk,      \* unified_threads.json, active_threads.json, paused_threads.json
    identity,  \* _identity_map
    item,      \* the inbox file in hand, or NoItem
    step,      \* "new", then "done" or "refused"
    toSave,    \* files the command still saves
    toRelay,   \* chats the message is still relayed to
    copies,    \* how often it was relayed to each
    failed,    \* history: chats for which the write of a copy failed
    items, crashes, merges,
    exited,    \* history: threads an account left by exit and did not re-enter
    chosen,    \* history: the thread an account has switched to
    outdated   \* history: accounts of whose person something is kept under a
               \* name that is no longer its own

vars == <<mem, disk, identity, item, step, toSave, toRelay, copies, failed, items,
          crashes, merges, exited, chosen, outdated>>

relayed  == <<copies, failed>>
counters == <<items, crashes, merges>>
promises == <<exited, chosen, outdated>>

NoItem == [cmd |-> "none"]

Init ==
    /\ mem = [threads |-> <<>>,
              active  |-> [p \in Users |-> NoThread],
              paused  |-> [p \in Users |-> {}]]
    /\ disk = mem
    /\ identity = <<>>
    /\ item = NoItem /\ step = "new"
    /\ toSave = <<>> /\ toRelay = {} /\ copies = [c \in Chats |-> 0]
    /\ failed = {}
    /\ items = 0 /\ crashes = 0 /\ merges = 0
    /\ exited = [a \in Accounts |-> {}]
    /\ chosen = [a \in Accounts |-> NoThread]
    /\ outdated = {}

----------------------------------------------------------------------------
(* Threads and members. *)

\* The canonical name of an account.
Person(a) == Resolve(identity, a)

\* A member is kept under the chat of its first join; seats are its addresses.
Member(s) == [user |-> s.account.user, person |-> Person(s.account), seats |-> {s}]

ChatsOf(m) == {s.chat : s \in m.seats}

\* The chats of a thread: of the primary and of the merged addresses.
Addresses(t) == UNION {ChatsOf(t.members[k]) : k \in DOMAIN t.members}

\* _person_in_thread
PersonIn(t, p) ==
    \E k \in DOMAIN t.members :
        \/ p \in {t.members[k].person, t.members[k].user}
        \/ \E s \in t.members[k].seats : s.account.user = p

\* _find_unified_for_member: the first thread that has the chat, or NoThread.
ThreadOf(threads, c) ==
    LET found == {i \in DOMAIN threads : c \in Addresses(threads[i])}
    IN  IF found = {} THEN NoThread ELSE threads[First(found)].name

Names(threads) == {threads[i].name : i \in DOMAIN threads}

\* The thread a person has switched to, if it exists.
Active(maps, p) == IF maps.active[p] \in Names(maps.threads) THEN maps.active[p] ELSE NoThread

\* Where a message goes: to the thread of its chat, unless the sender has paused
\* that one; else to the sender's active thread; else (NoThread) to the bridge's
\* own session.
RouteBy(maps, s) ==
    LET t == ThreadOf(maps.threads, s.chat)
        p == Person(s.account)
    IN  IF t # NoThread /\ t \notin maps.paused[p] THEN t ELSE Active(maps, p)

Route(s) == RouteBy(mem, s)

\* Mutant: the merged addresses of a member are forgotten (before T-062).
RelayTargetsPrimary(s, name) ==
    {r.chat : r \in {q \in Seats :
        /\ q.account.bridge # s.account.bridge
        /\ \E i \in DOMAIN mem.threads :
              mem.threads[i].name = name /\ q.chat \in DOMAIN mem.threads[i].members}}

\* The chats of the thread on the other bridges.
RelayTargets(s, name) ==
    {r.chat : r \in {q \in Seats :
        /\ q.account.bridge # s.account.bridge
        /\ \E i \in DOMAIN mem.threads :
              mem.threads[i].name = name /\ q.chat \in Addresses(mem.threads[i])}}

----------------------------------------------------------------------------
(* Inbox files. *)

Arrives(s) ==
    /\ item = NoItem /\ items < MaxItems
    /\ \E c \in Commands, n \in Threads \cup {NoThread} :
          /\ n = NoThread <=> c \in {"exit", "say"}
          /\ item' = [cmd |-> c, seat |-> s, name |-> n]
    /\ items' = items + 1
    /\ UNCHANGED <<mem, disk, identity, step, toSave, toRelay, relayed, crashes,
                   merges, promises>>

\* The poll task takes the file; the command saves the files in this order.
Runs(cmd, saves) ==
    /\ item.cmd = cmd /\ step = "new"
    /\ step' = "done" /\ toSave' = saves
    /\ UNCHANGED <<disk, identity, item, relayed, counters, promises>>

Index(name) == {i \in DOMAIN mem.threads : mem.threads[i].name = name}

Creates ==
    /\ Runs("create", <<"threads">>) /\ Index(item.name) = {}
    /\ mem' = [mem EXCEPT !.threads =
          Append(@, [name |-> item.name,
                     members |-> [k \in {item.seat.chat} |-> Member(item.seat)]])]
    /\ UNCHANGED toRelay

\* Mutant: every address becomes a member of its own (before T-062).
JoinedUnmerged(ms, s) ==
    [k \in DOMAIN ms \cup {s.chat} |-> IF k = s.chat THEN Member(s) ELSE ms[k]]

\* A second address of a person is merged into the member there is.
Joined(ms, s) ==
    IF \E k \in DOMAIN ms : ms[k].person = Person(s.account)
    THEN [k \in DOMAIN ms |->
            IF ms[k].person = Person(s.account)
            THEN [ms[k] EXCEPT !.seats = @ \cup {s}]
            ELSE ms[k]]
    ELSE [k \in DOMAIN ms \cup {s.chat} |-> IF k = s.chat THEN Member(s) ELSE ms[k]]

Joins ==
    /\ Runs("join", <<"threads", "paused">>)
    /\ \E i \in Index(item.name) :
          /\ item.seat.chat \notin DOMAIN mem.threads[i].members
          /\ mem' = [mem EXCEPT !.threads[i].members = Joined(@, item.seat),
                                !.paused[Person(item.seat.account)] = @ \ {item.name}]
    /\ UNCHANGED toRelay

\* Mutant: the shortened member list is not saved.
LeavesUnsaved ==
    /\ Runs("leave", <<>>)
    /\ \E i \in Index(item.name) :
          /\ item.seat.chat \in DOMAIN mem.threads[i].members
          /\ mem' = [mem EXCEPT !.threads[i].members =
                        [k \in DOMAIN @ \ {item.seat.chat} |-> @[k]]]
    /\ UNCHANGED toRelay

\* The member kept under this chat goes, whoever in the chat asks for it.
Leaves ==
    /\ Runs("leave", <<"threads">>)
    /\ \E i \in Index(item.name) :
          /\ item.seat.chat \in DOMAIN mem.threads[i].members
          /\ mem' = [mem EXCEPT !.threads[i].members =
                        [k \in DOMAIN @ \ {item.seat.chat} |-> @[k]]]
    /\ UNCHANGED toRelay

PausedBy(p) == {t \in Threads : \E i \in Index(t) : PersonIn(mem.threads[i], p)}

\* Mutant: the name that follows is paused, a thread or not.
ExitsByName ==
    /\ Runs("exit", <<"paused">>)
    /\ mem' = [mem EXCEPT !.paused[Person(item.seat.account)] = @ \cup {item.name}]
    /\ UNCHANGED toRelay

\* Mutant: the threads are paused under the raw user of the bridge.
ExitsRawUser ==
    /\ Runs("exit", <<"paused">>)
    /\ mem' = [mem EXCEPT !.paused[item.seat.account.user] =
                  @ \cup PausedBy(item.seat.account.user)]
    /\ UNCHANGED toRelay

\* Mutant: everybody's routing into the sender's threads is paused.
ExitsForAll ==
    /\ Runs("exit", <<"paused">>)
    /\ mem' = [mem EXCEPT !.paused =
                  [p \in Users |-> @[p] \cup PausedBy(Person(item.seat.account))]]
    /\ UNCHANGED toRelay

\* All threads of the person: the name that may follow exit is not passed on.
Exits ==
    /\ Runs("exit", <<"paused">>)
    /\ mem' = [mem EXCEPT !.paused[Person(item.seat.account)] =
                  @ \cup PausedBy(Person(item.seat.account))]
    /\ UNCHANGED toRelay

MaySwitch(t, s) ==
    \E k \in DOMAIN t.members :
        \/ t.members[k].person = Person(s.account)
        \/ \E r \in t.members[k].seats : r.account.user = s.account.user

Switches ==
    /\ Runs("switch", <<"active", "paused">>)
    /\ \E i \in Index(item.name) : MaySwitch(mem.threads[i], item.seat)
    /\ mem' = [mem EXCEPT !.active[Person(item.seat.account)] = item.name,
                          !.paused[Person(item.seat.account)] = @ \ {item.name}]
    /\ UNCHANGED toRelay

\* The thread exists, does not exist, or the sender is (not) a member: the
\* command only replies.
Refused ==
    LET ts == {mem.threads[i] : i \in Index(item.name)}
        c  == item.seat.chat
    IN  \/ item.cmd = "create" /\ ts # {}
        \/ item.cmd = "join"   /\ \A t \in ts : c \in DOMAIN t.members
        \/ item.cmd = "leave"  /\ \A t \in ts : c \notin DOMAIN t.members
        \/ item.cmd = "switch" /\ \A t \in ts : ~MaySwitch(t, item.seat)

Refuses ==
    /\ item # NoItem /\ step = "new" /\ Refused
    /\ step' = "refused"
    /\ UNCHANGED <<mem, disk, identity, item, toSave, toRelay, relayed, counters,
                   promises>>

\* A message: it is routed and relayed, then handed to the gateway.
Says ==
    /\ Runs("say", <<>>)
    /\ toRelay' = IF Route(item.seat) = NoThread
                  THEN {}
                  ELSE RelayTargets(item.seat, Route(item.seat))
    /\ UNCHANGED mem

Saves ==
    /\ toSave # <<>>
    /\ disk' = [disk EXCEPT ![Head(toSave)] = mem[Head(toSave)]]
    /\ toSave' = Tail(toSave)
    /\ UNCHANGED <<mem, identity, item, step, toRelay, relayed, counters, promises>>

\* The copy is written, or the write fails: that is logged, and the loop goes on.
Relays(c) ==
    /\ c \in toRelay
    /\ \/ copies' = [copies EXCEPT ![c] = @ + 1] /\ UNCHANGED failed
       \/ failed' = failed \cup {c} /\ UNCHANGED copies
    /\ toRelay' = toRelay \ {c}
    /\ UNCHANGED <<mem, disk, identity, item, step, toSave, counters, promises>>

Same(a, b) == Person(a) = Person(b)

\* The threads in which some account of the person of a has a seat.
SeatedIn(a) ==
    {t \in Threads : \E i \in Index(t) :
        \E k \in DOMAIN mem.threads[i].members :
            \E s \in mem.threads[i].members[k].seats : Same(s.account, a)}

\* History: what the sender may rely on now, with all accounts of the person.  A
\* command that ran and was not answered promises nothing new, but takes back what
\* it is against.
Promises(answered) ==
    LET a   == item.seat.account
        now == IF item.cmd = "switch" /\ answered THEN item.name ELSE NoThread
    IN  /\ exited' = [b \in Accounts |->
              CASE Same(a, b) /\ item.cmd = "exit" /\ answered
                                -> exited[b] \cup SeatedIn(a)
                [] Same(a, b) /\ item.cmd \in {"join", "switch"}
                                -> exited[b] \ {item.name}
                [] OTHER -> exited[b]]
        /\ chosen' = [b \in Accounts |->
              IF Same(a, b) /\ step = "done" /\ item.cmd \in {"exit", "leave", "switch"}
              THEN now
              ELSE chosen[b]]
        /\ UNCHANGED outdated

\* The file is done with.
NoneInHand ==
    /\ item' = NoItem /\ step' = "new" /\ toRelay' = {}
    /\ copies' = [c \in Chats |-> 0] /\ failed' = {}
    /\ UNCHANGED <<mem, disk, identity, toSave, counters>>

\* The reply is written, or the message handed to the gateway, and the file unlinked.
Finishes ==
    /\ step # "new" /\ toSave = <<>> /\ toRelay = {}
    /\ NoneInHand
    /\ Promises(TRUE)

\* An error ends the handling: a directory for a copy or the reply cannot be made, or
\* the gateway raises.  The file stays and is left alone until a restart, when it
\* is read like a new one.
Raises ==
    /\ step # "new" /\ toSave = <<>>
    /\ NoneInHand
    /\ Promises(FALSE)

\* The process is killed and started again: the maps are read from their
\* files, and the inbox file is there still.
Crashes ==
    /\ crashes < MaxCrashes /\ item # NoItem
    /\ crashes' = crashes + 1
    /\ mem' = disk
    /\ step' = "new" /\ toSave' = <<>> /\ toRelay' = {}
    /\ UNCHANGED <<disk, identity, item, relayed, items, merges, promises>>

\* Something is kept of the account: a seat in a thread, or what its person has
\* switched to or paused.
OnRecord(b) ==
    \/ \E i \in DOMAIN mem.threads : \E k \in DOMAIN mem.threads[i].members :
          \E s \in mem.threads[i].members[k].seats : s.account = b
    \/ mem.active[Person(b)] # NoThread
    \/ mem.paused[Person(b)] # {}

\* An identity claim is confirmed.  It changes the names of accounts, and none of the
\* maps: what is kept under the old name is found no more.
Confirms(source, target) ==
    /\ item = NoItem /\ merges < MaxMerges /\ source # target
    /\ merges' = merges + 1
    /\ identity' = Merged(identity, source, target)
    /\ LET left == {b \in Accounts : OnRecord(b) /\ Resolve(identity', b) # Person(b)}
       IN  outdated' = {b \in Accounts : \E c \in outdated \cup left :
                            Resolve(identity', b) = Resolve(identity', c)}
    /\ UNCHANGED <<mem, disk, item, step, toSave, toRelay, relayed, items, crashes,
                   exited, chosen>>

----------------------------------------------------------------------------
Next ==
    \/ \E s \in Seats : Arrives(s)
    \/ Creates \/ Joins \/ Leaves \/ Exits \/ Switches \/ Refuses \/ Says
    \/ Saves \/ Finishes \/ Raises \/ Crashes
    \/ \E c \in Chats : Relays(c)
    \/ \E a, b \in Accounts : Confirms(a, b)

Spec == Init /\ [][Next]_vars

----------------------------------------------------------------------------
(* Properties. *)

MemberType ==
    [user : Users, person : Users, seats : SUBSET Seats]

ThreadType ==
    [name : Threads, members : UNION {[ks -> MemberType] : ks \in SUBSET Chats}]

MapsType ==
    [threads : Seq(ThreadType), active : [Users -> Threads \cup {NoThread}],
     paused : [Users -> SUBSET Threads]]

TypeOK ==
    /\ mem \in MapsType /\ disk \in MapsType
    /\ \A i \in DOMAIN identity : identity[i].person \in Users
    /\ item # NoItem => item.cmd \in Commands /\ item.seat \in Seats
    /\ step \in {"new", "done", "refused"}
    /\ item = NoItem => step = "new" /\ toSave = <<>> /\ toRelay = {}
    /\ toRelay \subseteq Chats
    /\ copies \in [Chats -> 0..(MaxCrashes + 1)]
    /\ items \in 0..MaxItems /\ crashes \in 0..MaxCrashes /\ merges \in 0..MaxMerges
    /\ exited \in [Accounts -> SUBSET Threads]
    /\ chosen \in [Accounts -> Threads \cup {NoThread}]
    /\ failed \subseteq Chats /\ outdated \subseteq Accounts

\* T-062: a thread has one member per person, by the names that the identity map
\* gives now: two addresses of one person are of one member, however they joined,
\* which claims were confirmed in between, and wherever a join was interrupted.  It
\* fails only for who was recorded under a name a claim has changed.
OneMemberPerPerson ==
    \A i \in DOMAIN mem.threads :
        LET ms == mem.threads[i].members
        IN  \A j, k \in DOMAIN ms : \A s \in ms[j].seats, r \in ms[k].seats :
                Same(s.account, r.account) /\ s.account \notin outdated => j = k

\* A command that was answered survives a kill: the three files say together
\* what the maps in memory say.
SavedWhenIdle == item = NoItem => disk = mem

\* A message is in hand and now routed.
Routes(a, t) == Says /\ item.seat.account = a /\ Route(item.seat) = t

\* T-068, as documented: after an exit, until the person re-enters, no message of any
\* of its accounts is routed into a thread it was in, except into the one it has
\* switched to, which the exit does not reset.
ExitStopsRouting ==
    [][\A a \in Accounts, t \in Threads :
          Routes(a, t) /\ t \in exited[a] => mem.active[Person(a)] = t]_vars

\* T-068, T-064: what exit and switch have answered holds across kills, errors, other
\* commands and confirmed claims.  After an exit no message of the person is
\* routed into a thread it was in, except into the one it has switched to; after a
\* switch they go to that thread from every chat that is not an address of
\* another one.  Left out is only who has something kept under an old name.
ChoicesHold ==
    [][\A a \in Accounts \ outdated, t \in Threads \cup {NoThread} :
          Routes(a, t) =>
             /\ t # NoThread /\ t \in exited[a] => mem.active[Person(a)] = t
             /\ chosen[a] \notin {t, NoThread}
                => \E i \in Index(t) : item.seat.chat \in Addresses(mem.threads[i])]_vars

\* Where the messages of one sender in one chat go is not changed by others: only by
\* a command of that person, one from that same chat, a leave that takes
\* the member with it of which the chat is a merged address, or a confirmed
\* claim that makes the sender another person.
NobodyElseMovesMe ==
    [][\A s \in Seats :
          Route(s)' # Route(s) =>
             \/ Person(s.account)' # Person(s.account)
             \/ /\ item # NoItem
                /\ \/ Same(item.seat.account, s.account)
                   \/ item.seat.chat = s.chat
                   \/ /\ item.cmd = "leave"
                      /\ \E t \in {mem.threads[i] : i \in DOMAIN mem.threads}
                                \cup {mem'.threads[i] : i \in DOMAIN mem'.threads} :
                            /\ item.seat.chat \in DOMAIN t.members
                            /\ s.chat \in ChatsOf(t.members[item.seat.chat])]_vars

\* T-063: when a message of a thread is done, each chat of the thread on another
\* bridge has got it, or its own copy could not be written; and while the file is in
\* hand no chat gets more than one copy and one more for each kill.
RelayReachesOthers ==
    [][Finishes /\ item.cmd = "say" /\ Route(item.seat) # NoThread
       => \A i \in Index(Route(item.seat)) :
             \A s \in Seats :
                /\ s.chat \in Addresses(mem.threads[i])
                /\ s.account.bridge # item.seat.account.bridge
                => /\ copies[s.chat] <= 1 + crashes
                   /\ copies[s.chat] = 0 => s.chat \in failed]_vars

=============================================================================
