---------------------------- MODULE ImsgInbound ----------------------------
(***************************************************************************)
(* The two inbound threads of wrappers/imsg-wrapper.py.  The watch thread  *)
(* reads the lines of an `imsg watch` stream that may break and misses     *)
(* what is sent while it is down; the history thread asks every chat for   *)
(* its last HISTORY_LIMIT messages and writes those above the frontier in  *)
(* last_seen.json.  Both read, change and save that file; the lock         *)
(* _last_seen_lock is taken by the watch thread alone.                     *)
(*                                                                         *)
(* Messages are their row ids, which grow over all chats.                  *)
(***************************************************************************)
EXTENDS Integers, Sequences, FiniteSets, FiniteSetsExt

CONSTANTS
    NMsgs, Chats, ChatOf,  \* bound: messages 1..NMsgs and the chat of each
    Own,                   \* messages from one of our own handles
    HistoryLimit,          \* HISTORY_LIMIT
    MaxDrops,              \* bound: times the stream ends
    MaxFaults              \* bound: failing writes and requests, stops

Msgs == 1..NMsgs

ASSUME ImsgAssumption ==
    /\ NMsgs \in Nat /\ ChatOf \in [Msgs -> Chats] /\ Own \subseteq Msgs
    /\ HistoryLimit \in Nat \ {0}
    /\ MaxDrops \in Nat /\ MaxFaults \in Nat

VARIABLES
    shown,     \* the platform has the messages 1..shown
    stream,    \* the watch process: is it up, and its lines not yet read
    watch,     \* the watch thread
    hist,      \* the history thread
    lastSeen,  \* last_seen.json: the frontier of each chat
    drops, faults,
    copies,    \* history: inbox files written for a message, up to 2
    missed,    \* history: messages the stream did not bring to the watch thread
    failed,    \* history: messages whose inbox write failed
    bumped     \* history: messages the watch thread saved a frontier for

vars == <<shown, stream, watch, hist, lastSeen, drops, faults, copies, missed,
          failed, bumped>>

history == <<copies, missed, failed, bumped>>

Unseen == [c \in Chats |-> 0]
NoChat == "none"

WatchReads == [at |-> "read", msg |-> 0, snap |-> Unseen]
WatchChecks == [WatchReads EXCEPT !.at = "check"]
HistIdle   == [at |-> "idle", snap |-> Unseen, todo |-> {}, chat |-> NoChat,
               rows |-> {}, max |-> 0]

Init ==
    /\ shown = 0
    /\ stream = [up |-> FALSE, lines |-> <<>>]
    /\ watch = WatchReads /\ hist = HistIdle
    /\ lastSeen = Unseen
    /\ drops = 0 /\ faults = 0
    /\ copies = [m \in Msgs |-> 0] /\ missed = {}
    /\ failed = {} /\ bumped = {}

Written(m) == [copies EXCEPT ![m] = IF @ < 2 THEN @ + 1 ELSE @]

----------------------------------------------------------------------------
(* The platform and the stream. *)

\* A message is sent; it becomes a line of the stream only if that is up.
Appears ==
    /\ shown < NMsgs
    /\ shown' = shown + 1
    /\ stream' = IF stream.up THEN [stream EXCEPT !.lines = Append(@, shown')]
                 ELSE stream
    /\ missed' = IF stream.up THEN missed ELSE missed \cup {shown'}
    /\ UNCHANGED <<watch, hist, lastSeen, drops, faults, copies, failed, bumped>>

\* What the stream has received and the watch thread not yet written.
Unread == {stream.lines[i] : i \in DOMAIN stream.lines}
          \cup (IF watch.at = "write" THEN {watch.msg} ELSE {})

\* The connection dies; lines already received can still be read.
StreamDies ==
    /\ stream.up /\ drops < MaxDrops
    /\ drops' = drops + 1
    /\ stream' = [stream EXCEPT !.up = FALSE]
    /\ UNCHANGED <<shown, watch, hist, lastSeen, faults, history>>

\* WATCH_RESTART_INTERVAL, looked at after each message, is over: the process
\* and its unread lines go.
StreamIsCycled ==
    /\ watch.at = "check" /\ drops < MaxDrops
    /\ drops' = drops + 1
    /\ watch' = WatchReads
    /\ stream' = [up |-> FALSE, lines |-> <<>>]
    /\ missed' = missed \cup Unread
    /\ UNCHANGED <<shown, hist, lastSeen, faults, copies, failed, bumped>>

Reconnects ==
    /\ ~stream.up /\ stream.lines = <<>> /\ watch.at = "read"
    /\ stream' = [stream EXCEPT !.up = TRUE]
    /\ UNCHANGED <<shown, watch, hist, lastSeen, drops, faults, history>>

----------------------------------------------------------------------------
(* The watch thread: watch_loop and _bump_last_seen. *)

WatchOnly == UNCHANGED <<shown, hist, drops>>

WatchTakesLine ==
    /\ watch.at = "read" /\ stream.lines # <<>>
    /\ stream' = [stream EXCEPT !.lines = Tail(@)]
    /\ watch' = IF Head(stream.lines) \in Own THEN WatchReads
                ELSE [WatchReads EXCEPT !.at = "write", !.msg = Head(stream.lines)]
    /\ WatchOnly /\ UNCHANGED <<lastSeen, faults, history>>

WatchWrites ==
    /\ watch.at = "write"
    /\ copies' = Written(watch.msg)
    /\ watch' = [watch EXCEPT !.at = "load"]
    /\ WatchOnly /\ UNCHANGED <<stream, lastSeen, faults, missed, failed, bumped>>

\* Any exception ends the stream, with the lines it still holds.
WatchWriteFails ==
    /\ watch.at = "write" /\ faults < MaxFaults
    /\ faults' = faults + 1
    /\ failed' = failed \cup {watch.msg}
    /\ stream' = [up |-> FALSE, lines |-> <<>>]
    /\ watch' = WatchReads
    /\ missed' = missed \cup Unread
    /\ WatchOnly /\ UNCHANGED <<lastSeen, copies, bumped>>

WatchLoads ==
    /\ watch.at = "load"
    /\ watch' = IF watch.msg > lastSeen[ChatOf[watch.msg]]
                THEN [watch EXCEPT !.at = "save", !.snap = lastSeen]
                ELSE WatchChecks
    /\ WatchOnly /\ UNCHANGED <<stream, lastSeen, faults, history>>

\* The whole map is saved, the other chats as they were when it was loaded.
WatchSaves ==
    /\ watch.at = "save"
    /\ lastSeen' = [watch.snap EXCEPT ![ChatOf[watch.msg]] = watch.msg]
    /\ bumped' = bumped \cup {watch.msg}
    /\ watch' = WatchChecks
    /\ WatchOnly /\ UNCHANGED <<stream, faults, copies, missed, failed>>

WatchGoesOn ==
    /\ watch.at = "check"
    /\ watch' = WatchReads
    /\ WatchOnly /\ UNCHANGED <<stream, lastSeen, faults, history>>

----------------------------------------------------------------------------
(* The history thread: history_loop and poll_history_once. *)

HistOnly == UNCHANGED <<shown, stream, watch, drops>>

InChat(c) == {m \in 1..shown : ChatOf[m] = c}
Newest(c) == Max(InChat(c) \cup {0})

\* Not among the last HistoryLimit messages of its chat.
Overflowed(m) == Cardinality({k \in InChat(ChatOf[m]) : k > m}) >= HistoryLimit

Recent(c) == {m \in InChat(c) : ~Overflowed(m)}

HistLoads ==
    /\ hist.at = "idle"
    /\ hist' = [HistIdle EXCEPT !.at = "chats", !.snap = lastSeen, !.todo = Chats]
    /\ HistOnly /\ UNCHANGED <<lastSeen, faults, history>>

HistFetches(c) ==
    /\ hist.at = "chats" /\ c \in hist.todo
    /\ hist' = [hist EXCEPT
                    !.at = "rows", !.chat = c, !.todo = @ \ {c},
                    !.rows = {m \in Recent(c) \ Own : m > hist.snap[c]},
                    !.max = Max(Recent(c) \cup {hist.snap[c]})]
    /\ HistOnly /\ UNCHANGED <<lastSeen, faults, history>>

\* imsg chats fails: no chat is polled and the map is saved as it was loaded;
\* imsg history fails: that chat is skipped.
HistRequestFails ==
    /\ hist.at = "chats" /\ faults < MaxFaults
    /\ faults' = faults + 1
    /\ \/ hist.todo = Chats /\ hist' = [hist EXCEPT !.todo = {}]
       \/ \E c \in hist.todo : hist' = [hist EXCEPT !.todo = @ \ {c}]
    /\ HistOnly /\ UNCHANGED <<lastSeen, history>>

\* A request that runs into its timeout raises: the poll ends without a save.
HistTimesOut ==
    /\ hist.at = "chats" /\ hist.todo # {} /\ faults < MaxFaults
    /\ faults' = faults + 1
    /\ hist' = HistIdle
    /\ HistOnly /\ UNCHANGED <<lastSeen, history>>

HistWrites(m) ==
    /\ hist.at = "rows" /\ m \in hist.rows
    /\ copies' = Written(m)
    /\ hist' = [hist EXCEPT !.rows = @ \ {m}]
    /\ HistOnly /\ UNCHANGED <<lastSeen, faults, missed, failed, bumped>>

\* A failing write is logged and the frontier passes the message all the same.
HistWriteFails(m) ==
    /\ hist.at = "rows" /\ m \in hist.rows /\ faults < MaxFaults
    /\ faults' = faults + 1
    /\ failed' = failed \cup {m}
    /\ hist' = [hist EXCEPT !.rows = @ \ {m}]
    /\ HistOnly /\ UNCHANGED <<lastSeen, copies, missed, bumped>>

\* Mutant: the frontier counts only what was written.
HistSkipsOwn ==
    /\ hist.at = "rows" /\ hist.rows = {}
    /\ hist' = [hist EXCEPT !.at = "chats",
                    !.snap[hist.chat] = IF hist.max \in Own THEN @ ELSE hist.max]
    /\ HistOnly /\ UNCHANGED <<lastSeen, faults, history>>

\* Mutant: the frontier is the chat's newest message by now.
HistTrustsChat ==
    /\ hist.at = "rows" /\ hist.rows = {}
    /\ hist' = [hist EXCEPT !.at = "chats", !.snap[hist.chat] = Newest(hist.chat)]
    /\ HistOnly /\ UNCHANGED <<lastSeen, faults, history>>

HistEndsChat ==
    /\ hist.at = "rows" /\ hist.rows = {}
    /\ hist' = [hist EXCEPT !.at = "chats", !.snap[hist.chat] = hist.max]
    /\ HistOnly /\ UNCHANGED <<lastSeen, faults, history>>

HistSaves ==
    /\ hist.at = "chats" /\ hist.todo = {}
    /\ lastSeen' = hist.snap
    /\ hist' = HistIdle
    /\ HistOnly /\ UNCHANGED <<faults, history>>

----------------------------------------------------------------------------
\* The wrapper stops and starts again with last_seen.json and no stream.
Restarts ==
    /\ faults < MaxFaults
    /\ faults' = faults + 1
    /\ stream' = [up |-> FALSE, lines |-> <<>>]
    /\ watch' = WatchReads /\ hist' = HistIdle
    /\ missed' = missed \cup Unread
    /\ UNCHANGED <<shown, lastSeen, drops, copies, failed, bumped>>

Watch ==
    \/ WatchTakesLine \/ WatchWrites \/ WatchWriteFails \/ WatchLoads \/ WatchSaves
    \/ WatchGoesOn \/ Reconnects

Hist ==
    \/ HistLoads \/ HistRequestFails \/ HistTimesOut \/ HistEndsChat \/ HistSaves
    \/ \E c \in Chats : HistFetches(c)
    \/ \E m \in Msgs : HistWrites(m) \/ HistWriteFails(m)

Next == Appears \/ StreamDies \/ StreamIsCycled \/ Watch \/ Hist \/ Restarts

Spec == Init /\ [][Next]_vars

\* Both are loops in threads of their own whose requests have timeouts; the
\* watch thread reconnects after at most 30 s.
FairSpec == Spec /\ WF_vars(Watch) /\ WF_vars(Hist)

----------------------------------------------------------------------------
(* Properties. *)

TypeOK ==
    /\ shown \in 0..NMsgs
    /\ stream \in [up : BOOLEAN, lines : Seq(1..shown)]
    /\ watch \in [at : {"read", "write", "load", "save", "check"},
                  msg : 0..shown, snap : [Chats -> 0..shown]]
    /\ watch.at \in {"write", "load", "save"} => watch.msg # 0
    /\ hist \in [at : {"idle", "chats", "rows"}, snap : [Chats -> 0..shown],
                 todo : SUBSET Chats, chat : Chats \cup {NoChat},
                 rows : SUBSET (1..shown), max : 0..shown]
    /\ hist.at = "rows" => hist.chat \in Chats
    /\ lastSeen \in [Chats -> 0..shown]
    /\ drops \in 0..MaxDrops /\ faults \in 0..MaxFaults
    /\ copies \in [Msgs -> 0..2] /\ missed \subseteq 1..shown
    /\ failed \subseteq 1..shown /\ bumped \subseteq 1..shown

\* A message somebody else sent is below the saved frontier and not in the inbox.
PassedOver(m) ==
    m \notin Own /\ m <= lastSeen[ChatOf[m]] /\ copies[m] = 0

\* However the two threads' loads and saves interleave, a message that the
\* stream brought and whose write did not fail is in the inbox or about to be
\* written when the frontier has passed it.  One that the stream did not bring
\* is passed over only when the watch thread saved a frontier for a later
\* message of its chat, or HISTORY_LIMIT or more of its chat followed it.
GapsHaveAReason ==
    \A m \in Msgs :
        PassedOver(m) =>
            \/ m \in failed \cup Unread
            \/ /\ m \in missed
               /\ \/ \E k \in bumped : ChatOf[k] = ChatOf[m] /\ k > m
                  \/ Overflowed(m)

\* Whatever the two threads overwrite in each other's map, once nothing more
\* is sent the frontier of every chat reaches its newest message and stays.
FrontierCatchesUp ==
    \A c \in Chats : <>[](lastSeen[c] = Newest(c))

=============================================================================
