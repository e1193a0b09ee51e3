-------------------------- MODULE OutboundRouting --------------------------
(***************************************************************************)
(* Where an answer of the agent goes and what it quotes: the reply map     *)
(* (gateway id -> local id of the message, reply_map.json) that            *)
(* _process_incoming fills and send() reads, the choice of the outbox by   *)
(* _resolve_bridge / _resolve_bridge_or_none, and the multicast of a text  *)
(* into a unified thread (src/adapter.py).                                 *)
(*                                                                         *)
(* A gateway id is a number, in the order of minting; the time stamp of an *)
(* entry is its age in ticks, and Lifetime is REPLY_MAP_TTL.  send() awaits*)
(* nothing that suspends it, so one call is one step; a write that fails   *)
(* in the middle of it is modelled, and so is a restart between minting an *)
(* id and handing the message over.  Who is a member of the thread is      *)
(* UnifiedRouting's subject and constant here, which wrapper runs is       *)
(* Registry's.                                                             *)
(***************************************************************************)
EXTENDS Integers, FiniteSets, SequencesExt

CONSTANTS
    Bridges,     \* names of wrappers
    Unified,     \* the prefix of a thread's address
    NoBridge,    \* the prefix of an address without "~"
    Default,     \* the outbox used when no bridge is registered
    ChatIds,     \* what stands after the "~"
    Thread,      \* the one thread there is, a member of ChatIds
    Members,     \* its members, each the sequence of its addresses
    Misfits,     \* bridge and chat pairs target_format refuses
    NMsgs,       \* inbound messages, numbered as they are first read
    NoId,        \* the messages among them whose file has no id
    Cap,         \* REPLY_MAP_CAP
    Lifetime,    \* REPLY_MAP_TTL, in ticks
    MaxFaults,   \* bound: failed reads and writes
    MaxRestarts  \* bound: restarts of the gateway

Messages == 1..NMsgs
Heads == Bridges \cup {Unified, NoBridge}
Targets == [bridge : Heads, chat : ChatIds]
Destinations == [bridge : Bridges, chat : ChatIds]

ASSUME OutboundAssumption ==
    /\ Unified \notin Bridges /\ NoBridge \notin Bridges
    /\ Unified # NoBridge
    /\ Members \in Seq(Seq(Destinations))
    /\ NMsgs \in Nat
    /\ NoId \subseteq Messages
    /\ Cap \in Nat \ {0}
    /\ Lifetime \in Nat \ {0}
    /\ MaxFaults \in Nat
    /\ MaxRestarts \in Nat

VARIABLES
    bridges,   \* self._bridges, in the order of registration
    todo,      \* messages whose inbox file is still there
    minted,    \* minted[k]: the message gateway id k was minted for
    age,       \* age[k]: ticks since k was minted
    map,       \* keys of self._reply_map
    saved,     \* keys of reply_map.json
    hand,      \* the id whose message is being processed, or 0
    handed,    \* ids the gateway knows: their message was handed over
    last,      \* the call just made: what was asked, written and answered
    unsaved,   \* ghost: ids minted since the last save that worked
    lost,      \* ghost: ids a restart did not find in the file
    faults, restarts

outboundVars == <<bridges, todo, minted, age, map, saved, hand, handed, last,
          unsaved, lost, faults, restarts>>

Keys == 1..Len(minted)
HasId(k) == minted[k] \notin NoId

NoQuote == <<"none">>
Local(k) == <<"local", minted[k]>>
Gateway(k) == <<"gateway", k>>

NoSend == [target |-> [bridge |-> NoBridge, chat |-> Thread], kind |-> "text",
           reply |-> 0, posts |-> {}, result |-> "none"]

OutboundInit ==
    /\ bridges = <<>>
    /\ todo = Messages
    /\ minted = <<>> /\ age = <<>>
    /\ map = {} /\ saved = {}
    /\ hand = 0 /\ handed = {}
    /\ last = NoSend
    /\ unsaved = {} /\ lost = {}
    /\ faults = 0 /\ restarts = 0

-----------------------------------------------------------------------------
(* Inbound: the reply map                                                  *)

\* Mutant: at the cap the oldest entries are kept.
KeptOldest(S, ages) ==
    LET fresh == {k \in S : ages[k] < Lifetime}
    IN  {k \in fresh : Cardinality({j \in fresh : j < k}) < Cap}

\* What _save_reply_map keeps of the entries S: those younger than the
\* lifetime, of these the Cap newest.
Kept(S, ages) ==
    LET fresh == {k \in S : ages[k] < Lifetime}
    IN  {k \in fresh : Cardinality({j \in fresh : j > k}) < Cap}

\* _process_incoming up to the reply map: mint an id, register it when the
\* message has an id of its own, prune and save.  A save that fails is
\* logged and the map in memory stays.
Registers(n) ==
    /\ hand = 0 /\ n \in todo
    /\ 1..(n - 1) \subseteq ToSet(minted)
    /\ last' = NoSend
    /\ LET k == Len(minted) + 1 IN
       /\ minted' = Append(minted, n)
       /\ age' = Append(age, 0)
       /\ hand' = k
       /\ IF n \in NoId
          THEN UNCHANGED <<map, saved, unsaved, faults>>
          ELSE /\ map' = Kept(map \cup {k}, age')
               /\ \/ /\ saved' = map'
                     /\ unsaved' = {}
                     /\ UNCHANGED faults
                  \/ /\ faults < MaxFaults
                     /\ faults' = faults + 1
                     /\ unsaved' = unsaved \cup {k}
                     /\ UNCHANGED saved
    /\ UNCHANGED <<bridges, todo, handed, lost, restarts>>

\* The group message does not mention the agent: the file goes, the entry
\* stays and takes its place under the cap.
Drops ==
    /\ hand # 0
    /\ last' = NoSend
    /\ todo' = todo \ {minted[hand]}
    /\ hand' = 0
    /\ UNCHANGED <<bridges, minted, age, map, saved, handed, unsaved,
                   lost, faults, restarts>>

\* handle_message: from here on the gateway may answer to the id.
Hands ==
    /\ hand # 0
    /\ last' = NoSend
    /\ todo' = todo \ {minted[hand]}
    /\ handed' = handed \cup {hand}
    /\ hand' = 0
    /\ UNCHANGED <<bridges, minted, age, map, saved, unsaved, lost,
                   faults, restarts>>

\* Time passes for every entry; ages at Lifetime stay there.
Ticks ==
    /\ \E k \in Keys : age[k] < Lifetime
    /\ last' = NoSend
    /\ age' = [k \in Keys |-> IF age[k] < Lifetime THEN age[k] + 1 ELSE age[k]]
    /\ UNCHANGED <<bridges, todo, minted, map, saved, hand, handed,
                   unsaved, lost, faults, restarts>>

-----------------------------------------------------------------------------
(* Outbound                                                                *)

\* _resolve_reply_to: the local id when the map has the gateway id, and the
\* gateway id itself when it does not.
ResolveReplyTo(k) ==
    CASE k = 0                -> NoQuote
      [] k # 0 /\ k \in map   -> Local(k)
      [] k # 0 /\ k \notin map -> Gateway(k)

\* _resolve_bridge: an unknown prefix goes to the bridge registered first.
FirstOr(b) ==
    CASE b \in ToSet(bridges)                        -> b
      [] b \notin ToSet(bridges) /\ bridges # <<>> -> bridges[1]
      [] bridges = <<>>                              -> Default

\* Mutant: texts fall back to the first bridge as images do.
FallsBack(b) == IF bridges = <<>> THEN {} ELSE {FirstOr(b)}

\* _resolve_bridge_or_none, as the set of at most one bridge: an address
\* without "~" reaches the only bridge there is.
OnlyIfKnown(b) ==
    CASE b \in ToSet(bridges)                    -> {b}
      [] b = NoBridge /\ Len(bridges) = 1         -> {bridges[1]}
      [] OTHER                                    -> {}

\* Mutant: the primary address only, as before T-062.
Primaries == {<<m, 1>> : m \in DOMAIN Members}

\* send()'s multicast: for one member after the other every address, each
\* once per member, as places in Members.  Whether its bridge is registered is
\* not asked.
Recipients ==
    {r \in UNION {{m} \X DOMAIN Members[m] : m \in DOMAIN Members} :
        \A i \in 1..(r[2] - 1) : Members[r[1]][i] # Members[r[1]][r[2]]}

IsThread(t) == t.bridge = Unified

\* A file of a call; at is its place among those of the call.
Post(at, dir, to, k) ==
    [at |-> at, dir |-> dir, to |-> to, quote |-> ResolveReplyTo(k), there |-> TRUE]

\* The files a call is to write; none when it is refused.
TextPosts(t, k) ==
    IF IsThread(t)
    THEN {Post(r, Members[r[1]][r[2]].bridge, Members[r[1]][r[2]], k) :
             r \in IF t.chat = Thread THEN Recipients ELSE {}}
    ELSE {Post(<<1, 1>>, b, t, k) :
             b \in {d \in OnlyIfKnown(t.bridge) : <<d, t.chat>> \notin Misfits}}

\* send_image and send_document: no check of the address, and a thread is
\* an unknown bridge.
MediaPosts(t, k) == {Post(<<1, 1>>, FirstOr(t.bridge), t, k)}

PostsOf(kind, t, k) == IF kind = "text" THEN TextPosts(t, k) ELSE MediaPosts(t, k)

\* Members come one after the other, and so do the addresses of a member.
Earlier(r, q) == r[1] < q[1] \/ (r[1] = q[1] /\ r[2] < q[2])

\* One call.  _atomic_write_json swallows a failed write, so the file is
\* missing and the answer is still success; a directory that cannot be made
\* raises and ends a multicast after the files before it.  Calls one after
\* the other do not touch what a call reads, so a call is looked at only
\* after some other step.
Sends(kind, t, k) ==
    LET posts == PostsOf(kind, t, k)
        told(written, result) ==
            last' = [target |-> t, kind |-> kind, reply |-> k,
                     posts |-> written, result |-> result]
    IN  /\ last = NoSend
        /\ \/ /\ told(posts, IF posts = {} THEN "refused" ELSE "sent")
              /\ UNCHANGED faults
           \/ /\ faults < MaxFaults
              /\ faults' = faults + 1
              /\ \E p \in posts :
                    \/ told((posts \ {p}) \cup {[p EXCEPT !.there = FALSE]}, "sent")
                    \/ told({q \in posts : Earlier(q.at, p.at)}, "raised")
        /\ UNCHANGED <<bridges, todo, minted, age, map, saved, hand, handed,
                       unsaved, lost, restarts>>

-----------------------------------------------------------------------------
(* The surroundings                                                        *)

\* The registry task takes a wrapper in, at the end of the list ...
BridgeJoins(b) ==
    /\ b \notin ToSet(bridges)
    /\ last' = NoSend
    /\ bridges' = Append(bridges, b)
    /\ UNCHANGED <<todo, minted, age, map, saved, hand, handed, unsaved,
                   lost, faults, restarts>>

\* ... or out, while nothing of it is being processed.
BridgeLeaves(b) ==
    /\ \E i \in DOMAIN bridges :
          bridges[i] = b /\ bridges' = RemoveAt(bridges, i)
    /\ last' = NoSend
    /\ UNCHANGED <<todo, minted, age, map, saved, hand, handed, unsaved,
                   lost, faults, restarts>>

\* A restart: _load_reply_map takes the file, or nothing when it cannot be
\* read.  A message in hand is still in the inbox and will be given a new
\* id.
Restarts ==
    /\ restarts < MaxRestarts
    /\ restarts' = restarts + 1
    /\ \/ /\ map' = saved
          /\ lost' = lost \cup unsaved
          /\ UNCHANGED faults
       \/ /\ faults < MaxFaults
          /\ faults' = faults + 1
          /\ map' = {}
          /\ lost' = lost \cup Keys
    /\ unsaved' = {}
    /\ bridges' = <<>>
    /\ hand' = 0
    /\ last' = NoSend
    /\ UNCHANGED <<todo, minted, age, saved, handed>>

OutboundNext ==
    \/ \E n \in Messages : Registers(n)
    \/ Drops
    \/ Hands
    \/ Ticks
    \/ \E kind \in {"text", "image"}, t \in Targets, k \in handed \cup {0} :
          Sends(kind, t, k)
    \/ \E b \in Bridges : BridgeJoins(b) \/ BridgeLeaves(b)
    \/ Restarts

OutboundSpec == OutboundInit /\ [][OutboundNext]_outboundVars

-----------------------------------------------------------------------------
(* Properties                                                              *)

\* Types of the variables, and where the ids stand: the map and its file
\* name minted ids of messages that have an id, the gateway knows minted
\* ids only, and what is in hand is still to do.
OutboundTypeOK ==
    /\ bridges \in Seq(Bridges)
    /\ todo \subseteq Messages
    /\ minted \in Seq(Messages)
    /\ age \in [Keys -> 0..Lifetime]
    /\ map \subseteq {k \in Keys : HasId(k)}
    /\ saved \subseteq {k \in Keys : HasId(k)}
    /\ hand \in Keys \cup {0}
    /\ handed \subseteq Keys
    /\ unsaved \subseteq Keys /\ lost \subseteq Keys
    /\ faults \in 0..MaxFaults /\ restarts \in 0..MaxRestarts

\* Why _resolve_reply_to may not know id k: its message had no id, it is
\* older than REPLY_MAP_TTL, REPLY_MAP_CAP newer messages were registered
\* (those the mention gate dropped count too), or a restart came before a
\* save of it worked.
Expired(k) == age[k] >= Lifetime
Crowded(k) == Cardinality({j \in Keys : j > k /\ HasId(j)}) >= Cap
Forgotten(k) == ~HasId(k) \/ Expired(k) \/ Crowded(k) \/ k \in lost

\* An answer to a message the agent was handed quotes the local id of that
\* very message, unless there is a reason to have forgotten it; only then
\* does the wrapper see a gateway id.  (adapter.py 724-757, 786-796, 2512)
QuoteHasAReason == \A k \in handed : ResolveReplyTo(k) = Local(k) \/ Forgotten(k)

\* A file lies in the outbox of the bridge its address names.  The
\* exceptions are an address without "~", which goes to the only bridge for
\* a text, and an image whose address names no bridge registered at that
\* moment, which goes to whichever was registered first.  Outside a thread
\* no text is written for a bridge that is not registered.
\* (adapter.py 2668-2745, 3125-3161)
OutboxOfTheTarget ==
    LET Known == ToSet(bridges)
        FirstKnown == IF bridges = <<>> THEN Default ELSE bridges[1]
    IN  \A p \in last.posts :
          IF last.kind = "text"
          THEN /\ p.dir = p.to.bridge \/ (p.to.bridge = NoBridge /\ bridges = <<p.dir>>)
               /\ IsThread(last.target) \/ p.dir \in Known
          ELSE p.dir = IF p.to.bridge \in Known THEN p.to.bridge ELSE FirstKnown

\* A text into the thread that is answered with success was tried at every
\* address of every member, as often as there are members that have the
\* address, and only a write the file system failed is missing; a call that
\* was refused wrote nothing.  (adapter.py 2617-2666)
MulticastReachesEach ==
    /\ last.kind = "text" /\ last.result = "sent" /\ IsThread(last.target) =>
          \A a \in Destinations :
             Cardinality({p \in last.posts : p.to = a})
             = Cardinality({m \in DOMAIN Members : Contains(Members[m], a)})
    /\ Cardinality({p \in last.posts : ~p.there}) <= faults
    /\ last.result = "refused" => last.posts = {}

=============================================================================
