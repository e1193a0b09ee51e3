------------------------------ MODULE TalkPoll ------------------------------
(***************************************************************************)
(* The inbound poll of wrappers/talk-wrapper.py.  Each poll asks every     *)
(* room for its last messages and writes those above the room's frontier   *)
(* to the inbox.  The frontiers are kept in memory and in last_seen.json,  *)
(* which is saved after each written message with that message's id        *)
(* (T-100) and at the end of the poll with the highest id seen.            *)
(*                                                                         *)
(* Messages are their ids, which grow over all rooms.  In which order the  *)
(* server lists them is not up to the wrapper; it does not sort them.      *)
(***************************************************************************)
EXTENDS Integers, FiniteSets, FiniteSetsExt

CONSTANTS
    NMsgs, Rooms, RoomOf,  \* bound: messages 1..NMsgs and the room of each
    Unwanted,              \* our own messages, system messages and blank ones
    Limit,                 \* the limit of get_chat
    Orders,                \* a subset of {"newest", "oldest"}: what comes first
    MaxKills, MaxFaults    \* bounds: kills; failing requests, writes and saves

Msgs == 1..NMsgs

NoRoom == "none"

ASSUME PollAssumption ==
    /\ NMsgs \in Nat /\ RoomOf \in [Msgs -> Rooms] /\ NoRoom \notin Rooms
    /\ Unwanted \subseteq Msgs
    /\ Limit \in Nat \ {0} /\ Orders \subseteq {"newest", "oldest"}
    /\ MaxKills \in Nat /\ MaxFaults \in Nat

VARIABLES
    order,     \* what the server lists first
    shown,     \* it has the messages 1..shown
    mem,       \* last_seen: the frontier of each room
    disk,      \* last_seen.json
    at,        \* "idle", "rooms", "batch" or "save"
    todo,      \* rooms the poll has yet to ask
    room, batch, top,  \* the room in hand, what is left to write, its highest id
    kills, faults,
    copies,    \* history: how often a message was written to the inbox
    limited,   \* history: messages out of the limit when the room was asked
    failed,    \* history: messages whose write failed
    hidden,    \* history: messages not written when a kill left them below the
               \* saved frontier
    finished,  \* history: the frontiers the last whole poll saved
    unsaved    \* history: some save failed

pollVars == <<at, todo, room, batch, top>>
history  == <<copies, limited, failed, hidden, finished, unsaved>>
vars     == <<order, shown, mem, disk, pollVars, kills, faults, history>>

Unseen == [r \in Rooms |-> 0]

Init ==
    /\ order \in Orders
    /\ shown = 0 /\ mem = Unseen /\ disk = Unseen
    /\ at = "idle" /\ todo = {} /\ room = NoRoom /\ batch = {} /\ top = 0
    /\ kills = 0 /\ faults = 0
    /\ copies = [m \in Msgs |-> 0]
    /\ limited = {} /\ failed = {} /\ hidden = {}
    /\ finished = Unseen /\ unsaved = FALSE

Fails == faults < MaxFaults /\ faults' = faults + 1

----------------------------------------------------------------------------
(* The server. *)

Appears ==
    /\ shown < NMsgs /\ shown' = shown + 1
    /\ UNCHANGED <<order, mem, disk, pollVars, kills, faults, history>>

\* All messages of a room, and the last of them, as get_chat returns them.
Of(r) == {m \in 1..shown : RoomOf[m] = r}

Latest(r) == {m \in Of(r) : Cardinality({k \in Of(r) : k >= m}) <= Limit}

----------------------------------------------------------------------------
(* poll_once. *)

Starts ==
    /\ at = "idle"
    /\ at' = "rooms" /\ todo' = Rooms
    /\ UNCHANGED <<order, shown, mem, disk, room, batch, top, kills, faults, history>>

\* Mutant: one frontier for all rooms.
NewOverAll(r) == {m \in Latest(r) : \A q \in Rooms : m > mem[q]} \ Unwanted

\* What is written: messages above the frontier that are wanted.
New(r) == {m \in Latest(r) : m > mem[r]} \ Unwanted

\* Mutant: the frontier is the next id that is expected.
TopNext(r) == Max(Latest(r) \cup {mem[r]}) + 1

\* max_id counts unwanted messages, too.
Top(r) == Max(Latest(r) \cup {mem[r]})

Asks(r) ==
    /\ at = "rooms" /\ r \in todo
    /\ todo' = todo \ {r}
    /\ IF Latest(r) = {}
       THEN UNCHANGED <<at, room, batch, top, limited>>
       ELSE /\ at' = "batch" /\ room' = r
            /\ batch' = New(r) /\ top' = Top(r)
            /\ limited' = limited \cup
                  {m \in Of(r) \ (Latest(r) \cup Unwanted) : m > mem[r]}
    /\ UNCHANGED <<order, shown, mem, disk, kills, faults, copies, failed, hidden,
                   finished, unsaved>>

\* A request that fails returns an empty list: of rooms, or of messages.
RoomsFail ==
    /\ at = "rooms" /\ todo = Rooms /\ Fails
    /\ todo' = {}
    /\ UNCHANGED <<order, shown, mem, disk, at, room, batch, top, kills, history>>

ChatFails(r) ==
    /\ at = "rooms" /\ r \in todo /\ Fails
    /\ todo' = todo \ {r}
    /\ UNCHANGED <<order, shown, mem, disk, at, room, batch, top, kills, history>>

\* The next of the batch, in the order of the list.
First == IF order = "newest" THEN Max(batch) ELSE Min(batch)

Writes ==
    /\ at = "batch" /\ batch # {}
    /\ copies' = [copies EXCEPT ![First] = @ + 1]
    /\ at' = "save"
    /\ UNCHANGED <<order, shown, mem, disk, todo, room, batch, top, kills, faults,
                   limited, failed, hidden, finished, unsaved>>

\* It is logged, and the room goes on.
WriteFails ==
    /\ at = "batch" /\ batch # {} /\ Fails
    /\ failed' = failed \cup {First} /\ batch' = batch \ {First}
    /\ UNCHANGED <<order, shown, mem, disk, at, todo, room, top, kills, copies,
                   limited, hidden, finished, unsaved>>

\* Mutant: the frontier is saved at the end of the poll only (before T-100).
SavesLater ==
    /\ at = "save"
    /\ mem' = [mem EXCEPT ![room] = First]
    /\ UNCHANGED <<disk, faults, unsaved>>
    /\ at' = "batch" /\ batch' = batch \ {First}
    /\ UNCHANGED <<order, shown, todo, room, top, kills, copies, limited, failed,
                   hidden, finished>>

\* The frontier is the message just written, also when that is below the one
\* written before.  save_last_seen swallows an OSError.
Saves ==
    /\ at = "save"
    /\ mem' = [mem EXCEPT ![room] = First]
    /\ \/ disk' = mem' /\ UNCHANGED <<faults, unsaved>>
       \/ Fails /\ unsaved' = TRUE /\ UNCHANGED disk
    /\ at' = "batch" /\ batch' = batch \ {First}
    /\ UNCHANGED <<order, shown, todo, room, top, kills, copies, limited, failed,
                   hidden, finished>>

\* The highest id of the room is its frontier in memory.
LeavesRoom ==
    /\ at = "batch" /\ batch = {}
    /\ mem' = [mem EXCEPT ![room] = top]
    /\ at' = "rooms" /\ room' = NoRoom /\ top' = 0
    /\ UNCHANGED <<order, shown, disk, todo, batch, kills, faults, history>>

\* inbound_loop saves when the poll is over.
Ends ==
    /\ at = "rooms" /\ todo = {}
    /\ \/ disk' = mem /\ finished' = mem /\ UNCHANGED <<faults, unsaved>>
       \/ Fails /\ unsaved' = TRUE /\ UNCHANGED <<disk, finished>>
    /\ at' = "idle"
    /\ UNCHANGED <<order, shown, mem, todo, room, batch, top, kills, copies,
                   limited, failed, hidden>>

\* The wrapper is killed and started again.
Killed ==
    /\ kills < MaxKills /\ kills' = kills + 1
    /\ hidden' = hidden \cup
          {m \in batch : m <= disk[room] /\ (at = "save" => m # First)}
    /\ mem' = disk
    /\ at' = "idle" /\ todo' = {} /\ room' = NoRoom /\ batch' = {} /\ top' = 0
    /\ UNCHANGED <<order, shown, disk, faults, copies, limited, failed, finished,
                   unsaved>>

Poll ==
    \/ Starts \/ Writes \/ Saves \/ LeavesRoom \/ Ends
    \/ \E r \in Rooms : Asks(r)

Next ==
    \/ Appears \/ Poll \/ Killed
    \/ RoomsFail \/ WriteFails \/ \E r \in Rooms : ChatFails(r)

Spec == Init /\ [][Next]_vars

\* The inbound thread goes on.
FairSpec == Spec /\ WF_vars(Poll)

----------------------------------------------------------------------------
(* Properties. *)

TypeOK ==
    /\ order \in Orders /\ shown \in 0..NMsgs
    /\ mem \in [Rooms -> 0..NMsgs] /\ disk \in [Rooms -> 0..NMsgs]
    /\ at \in {"idle", "rooms", "batch", "save"}
    /\ todo \subseteq Rooms
    /\ room \in Rooms \cup {NoRoom}
    /\ room = NoRoom <=> at \in {"idle", "rooms"}
    /\ batch \subseteq Msgs /\ top \in 0..NMsgs
    /\ at = "save" => batch # {}
    /\ kills \in 0..MaxKills /\ faults \in 0..MaxFaults
    /\ copies \in [Msgs -> Nat]
    /\ limited \subseteq Msgs /\ failed \subseteq Msgs /\ hidden \subseteq Msgs
    /\ finished \in [Rooms -> 0..NMsgs] /\ unsaved \in BOOLEAN

Settled(m) == copies[m] > 0 \/ m \in limited \cup failed \cup hidden

\* A message below a frontier, the one in memory or the one a restart would
\* read, is in the inbox or about to be, or it was out of the limit, its write
\* failed, or a kill came while the frontier had passed it.
GapsHaveAReason ==
    \A m \in 1..shown \ Unwanted :
        m <= mem[RoomOf[m]] \/ m <= disk[RoomOf[m]] => Settled(m) \/ m \in batch

\* The frontier on disk is never below the one of the last poll that ended,
\* although in the middle of a poll it goes down.  T-100, talk-wrapper.py:220:
\* "The saved state is always >= the newest inbox file on disk" -- if the server
\* lists the oldest first and no save failed, but for the message just written
\* and one for each kill.
FrontierIsKept ==
    /\ \A r \in Rooms : disk[r] >= finished[r]
    /\ order = "oldest" /\ ~unsaved =>
         Cardinality({m \in Msgs : copies[m] > 0 /\ m > disk[RoomOf[m]]})
             <= kills + IF at = "save" THEN 1 ELSE 0

\* Each wanted message gets into the inbox, or one of the reasons keeps it out.
EveryMessageSettles ==
    \A m \in Msgs \ Unwanted : shown >= m ~> Settled(m)

=============================================================================
