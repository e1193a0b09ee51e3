# Hermes bridge adapter: TLA+ models, checks and proofs

This directory is the formal model of the bridge adapter (`src/adapter.py`) and
its wrappers (`src/wrappers/`). It says what the code does, not what the
documentation wishes: every definition is translated from the source lines that
`PROJECT.json` ("map") names for it. Where the two disagree, "findings" quotes the
line, and for the most important of them a run shows the disagreement.

Contents: [the system](#1-the-system), [the modules](#2-the-modules),
[runs, bounds and fairness](#3-runs-bounds-and-fairness),
[proofs](#4-proofs), [findings](#5-findings),
[what is not modelled](#6-what-is-left-out), [plan](#7-plan).

## 1. The system

The adapter is a plugin of an agent gateway. Every chat service is a *bridge*: a
wrapper process that exchanges JSON files with the adapter under one directory
(`inbox/<bridge>/`, `outbox/<bridge>/`, `status/`, `registry/`). The adapter is
one asyncio event loop with six tasks, created in `connect` and cancelled in
`disconnect`: poll (1 s), registry (5 s), a2a flush (5 s), silent flush (60 s),
status (60 s), cleanup (300 s; the file work in a worker thread). A task gives up
control only where it awaits `handle_message`, the reaction handler, the cleanup
thread or a sleep; everything between two of these is atomic for the other tasks,
but not for the wrappers (other processes), the worker thread, or a kill.

| Component (code) | State | Operations | Talks to | Hard behaviour | Correct when |
|---|---|---|---|---|---|
| Inbox poller, `adapter.py` 2022-2589 | `_seen_files`, `_parse_failures`, the files | sweep, read, quarantine, dispatch, unlink | wrappers through files; dedup map, digests, threads, identity by calls; gateway by await | torn reads, names used again, exceptions that end a sweep, cancelled hand-offs, kills | each message is served, refused or knowingly abandoned; in order; the seen-set stays bounded |
| Dedup map, 632-701 | `dedup_map.json` | load, is-duplicate, record with TTL and cap | poller | recorded before the hand-off; eviction | at most one hand-off per id within the window |
| a2a digest, 1659-1846, 2885-2956 | `a2a_digest_states.json`, `a2a_pending_bundles.json` | note, pass/buffer/flush, recover, dispatch | poll task and flush timer, gateway | two tasks over two files, awaits in the middle, kills between two saves, retries | every message arrives, in order, nothing is lost unexplained |
| Adaptive and silent digest, 1645-1711, 2331-2469, 2800-2883 | per-thread buffer, state, window | note, inline flush, timer flush | poller, silent-flush task, threads | two flushers, mode changes with a full buffer | nothing buffered is forgotten or bundled twice |
| Protokoll, 1850-2018 | the thread's session | open, collect, close | command handler, poller | reopened or left open over a mode change | everything collected reaches the artifact |
| Unified threads, 887-1487, 2242-2304, 2593-2703 | `unified_threads`, `active_threads`, `paused` files | create, join, leave, exit, switch, mode, relay, multicast | poller, outbox, identity | several persisted maps that must agree; commands repeated after a kill | a message goes to the thread its sender chose, once per member |
| Identity and claims, 838-885, 1491-1633, 2985-2999 | identity map, pending claims | whoami, claim, confirm, expire | commands, cleanup, threads | attempts, expiry, merge while old names are stored elsewhere | only the two owners can merge; a claim is used once |
| Reply map and choice of the outbox, 623-630, 703-796, 2530-2538, 2593-2745, 3125-3161 | `reply_map.json` | register, prune, resolve; text, image, multicast | poller, send, registry | entries pruned or lost, bridges that leave the list, addresses shared by members | an answer quotes the message it answers and lies in the outbox it is for |
| Registry, 62-256, 502-582 | `_bridges`, manifests, the bridges' directories | scan, register, unregister, delete | poller, wrappers, cleanup | the list changes while the poll task iterates over it; deletions beside a wrapper that is back | every live bridge is swept; what is deleted has a reason and comes back |
| Outbox, 2960-3035, 3172-3203, 3279-3346; `loops.py` 18-71 | the outbox files | write, cron write, drain, send, unlink, clean up | gateway, cron process, wrapper thread, worker thread; no lock | four actors on one directory; failures that do not raise | sent at least once or excused; repeats only after a fault; in order |
| iMessage wrapper, `imsg-wrapper.py` 183-424 | `last_seen.json` | watch stream, history poll, bump | platform, inbox | two threads, one lock that only one of them takes; lost stream lines | no message is passed over without a reason |
| Talk wrapper, `talk-wrapper.py` 84-240 | `last_seen.json` | poll, write, send | platform, inbox, outbox | frontier saved per written message | as above |
| SDK helpers, `files.py`, `bridge_runner.py` | temporary files, `last_seen` | atomic write, load, save, run threads | all wrappers | rename against write in place | as used above |
| Status poll 2759-2796, media 3037-3121, configuration 3205-3253, plugin registration | none kept between calls | read, copy, parse | | | |

Every behaviour that a unit test would hardly reach is listed at its line under
"hazards" in `PROJECT.json`, with the properties that cover it.

## 2. The modules

```
MessageChannel            abstract: at-least-once with named exceptions
      ^ refines
OutboxDelivery            gateway + cron writers | drain thread | cleanup thread
InboxDelivery             wrappers | poll task | gateway | stop and restart
A2ADigest                 poll task | flush timer | gateway | kill
ThreadDigest              poll task (messages, commands) | silent timer | kill
Identity                  the identity map: resolve, merge (operators only)
      ^ extends
UnifiedRouting            /unified commands | routing | relay | claims | kill
IdentityClaim             claim, confirm, expiry over two files | cleanup | kill
OutboundRouting           reply map | choice of the outbox | multicast | restart
Registry                  manifests | wrappers | registry and poll task | cleanup
ImsgInbound               platform | watch thread | history thread | restart
TalkPoll                  server | poll | kill

<module>Proofs            theorems about InboxDelivery, OutboxDelivery, A2ADigest,
                          ThreadDigest, ImsgInbound, TalkPoll
RoutingProofs             theorems about UnifiedRouting and OutboundRouting
RegistryClaimProofs       theorems about Registry and IdentityClaim
MC<module>                the instance TLC checks
```

How they fit together: a wrapper (`ImsgInbound`, `TalkPoll`) writes an inbox file;
`Registry` says which inboxes are swept and with what attachments, `InboxDelivery`
what a sweep does with a file. What it calls for the file's message is a *kind*
there and a module of its own: `A2ADigest` for agent-to-agent messages,
`UnifiedRouting` for the thread a message belongs to and for the commands on
threads, `ThreadDigest` for what the thread's mode does with it, `IdentityClaim`
for claims. Answers go through `OutboundRouting` into a file of `OutboxDelivery`.

**InboxDelivery.** A file is a name in a bridge's directory with a content that is
absent, torn or whole, and a *kind* that says which path of `_process_incoming`
its message takes. A sweep (`phase`, `bridgesLeft`, `todo`) is cut into one action
per file operation, because wrappers write and a kill comes at any of them:
`ListBridge` is the sorted listing and `ListFails` the one that meets a file gone
before its time was read, which passes the bridge over, `CountBadRead`, `Quarantine` and
`FailOnUndecodable` the three ends of a failing read, `RecordChat` then `HandOff`
the recorded id and the call, `HandlerReturns`/`HandlerRaises` its end, `Unlink`
the removal. `dedup`, `newer` and `aged` are the dedup map with its timestamps
kept as an order, so that the TTL and the cap work for any number of keys.
`served`, `handed`, `lapsed` and `gaveUp` are history: no guard reads them.

**A2ADigest.** Messages are numbers, a bundle a sequence of numbers, times are
ticks relative to now. `poll` and `timer` are the two tasks with the point each
waits at; a task takes a step only while the other waits (`TimerWaits`,
`PollWaits`), as on the event loop. Between two steps of a task lie exactly its
awaits and its file saves, since a kill may come between two saves.
`savedGap` is the persisted `last_inbound_ts`, which the pass path does not save.

**ThreadDigest.** One thread with its mode, the digest buffer that the participant
and the silent mode share, and its protokoll session. The thread's record is saved
in the same stretch without an await that changes it, so one variable stands for
memory and file; the bundle made from an emptied buffer (`turn` of the poll task,
`timerTurn` of the timer) is in memory only and lost with a kill. `Buffers`,
`Flushes`, `Notes`, `Passes` are the ends of the state machine for one message,
`Skips` the mention gate behind it, `HandsOver` and `Raises` the call. `SetsMode`,
`Opens`, `CloseWrites` then `CloseSaves`, `Leaves` and `Joins` are the commands, the
last two as far as they take the last member out (`peopled`). The timer empties and
saves the buffer (`TimerFlushes`) before it looks for a member to hand the bundle
over for: without one the bundle is dropped (`TimerLoses`). `gone` is history: for
each message the reasons for which it was given up (mode, gate, raised, killed,
reopened, overwritten, nobody).

**OutboxDelivery.** The file's modification time is kept as its age in ticks. The
drain is one action per file operation of `drain_outbox_once`; the listing takes
two steps, because files come and go while the directory is read. `CronCreates`
and `CronCompletes` are the in-place write of `_standalone_send`. The wrapper's
`send` is split at the moment the platform takes the message, so that a failure
before and after it differ. `ImplementsChannel` is the refinement: `place`, `got`
and `excused` of MessageChannel are functions of the outbox state (`Place`,
`sent`, `Excused`): a text is held while its file is there or its send is under
way, and excused when the cleanup took it or its failed send returned.

**ImsgInbound.** Row ids are the messages, growing over all chats. The watch
thread's `_bump_last_seen` is a load and a save with the history thread's steps in
between; the history thread keeps the map it loaded (`snap`) over a poll of all
chats, as the code does.

**TalkPoll.** A poll asks room after room (`todo`) for its last messages and writes
those above the frontier, one by one (`batch`). The frontier is in memory (`mem`)
and in `last_seen.json` (`disk`): each written message saves its own id, and the end
of the poll the highest. `order` is the order of the server's list, on which the
code relies without sorting. A kill leaves `disk`.

**Registry.** `manifest` says what a scan finds under a bridge's name; `run` and
`beat` are the wrapper's main thread and its heartbeat, each with the step between
making the status directory and writing into it. `Reconciles` compares the
directory with `list` and takes up what is new; each bridge that is gone is deleted
by a step of its own (`Drops`), as the deletions come one after the other beside
other processes. A wrapper with a watch thread (`watch`) has a second writer of
`status.json`: up when a stream starts, down when one ends or does not start, the
latter outside of the try, so that a missing directory ends the thread. The poll
(`Sweeps`, `Visits`, `SweepEnds`) goes through the live list by position; an error
at one of the files ends it (`Breaks`), and that file is left until a restart. `msg`
follows one attachment from the wrapper's fetch to the
hand-over, where its path holds the file ("whole"), nothing ("bare") or another
message's file ("other"). `away` and `cleaned` are history.

**Identity** is the identity map without state: a sequence of entries, `Resolve`
takes the first that matches, `Merged` is what a confirmed claim writes.

**UnifiedRouting.** `mem` holds the three maps of the process (threads with their
members, the active thread and the paused threads of a person), `disk` their
three files. A *seat* is who writes where: an account (bridge and user) and a
chat. An inbox file is a command or a message (`say`) of a seat. `RouteBy` is the
order in which the code looks for the thread of a message: the thread of the chat
(`ThreadOf`) unless the sender's person has paused it, then the active thread of
that person if it exists (`Active`), paused or not. It is a function of the maps,
so that the proofs can compare what memory and files would do. A command changes
`mem` in one step and then saves its files one by one (`Saves`), in the order of
the code; a message is relayed chat by chat (`Relays`), and any copy may fail to be written,
quietly (`failed`). `Finishes` is the reply; `Raises` is an error after the saves,
in `mkdir` for a copy or in what the poll calls next, which leaves the
file unanswered. Between two of these steps
`Crashes` may kill the process: `mem` is read from the files again and the inbox
file runs again, since a command is not recorded in the dedup map. `Confirms` is
a confirmed identity claim, which renames accounts while their old names stay in
member records, `active` and `paused`. `exited` and `chosen` are history: what a
person was told by the reply to an exit or a switch, which no claim takes back.
`outdated` is history too: the accounts of which something is recorded
(`OnRecord`) under a name that a claim has changed, with all others of the same
person.

**IdentityClaim.** `claims` are the claims in memory, `saved` their file, `identity`
the map and its file. The code keeps claims in the order of insertion; here their ids
count up in that order, so that a set will do and `Oldest` is the first a confirm
finds. `ClaimSpec` is the specification (again named apart for the proofs). A
confirm is cut where it saves: the map ("merged"), then the
claims, then the reply; a kill in between runs the command again. A code may be
guessed and may be drawn twice. Expired claims stay until the cleanup purges
them. `missed`, `tried` and `lastMerge` are history.

**OutboundRouting.** Gateway ids are numbers in the order of minting; the reply map
(`map`, with `saved` its file) is the set of ids it knows, as the local id follows
from the message. `Kept` prunes by age and cap on each registration. A call of
`send` awaits nothing that suspends it, so `Sends` is one step; `last` holds the
call just made with the set of files it wrote. A file of a multicast has a place (a
member and an address of it, `Recipients`), and a call that raises leaves the files
of the places before it (`Earlier`). Bridges come and go (`BridgeJoins`,
`BridgeLeaves`) in the order of registration, since an image falls back to the
first. Its specification is `OutboundSpec`: its names do not clash with those of
`UnifiedRouting`, so that the proofs about routing extend both.

## 3. Runs, bounds and fairness

| Run | Checks | Shows |
|---|---|---|
| `inbox_delivery` | AtMostOnce, AccountedRemoval, InOrder, EveryMessageSettles | the inbound half, with a retry, a torn file, failing listings, one stop, one fault, one expiry |
| `a2a_digest` | NothingUnaccounted, FirstHandOffsInOrder, EveryMessageArrives | both digest tasks, one kill, one failing hand-off |
| `thread_digest` | TypeOK, NothingUnaccounted, MentionPassesTheGate, ToldAsMeant, SilentDigestIsFlushed | one thread through all its modes, poll task and timer, with and without members, one kill or failing call |
| `outbox_delivery` | RepeatsArePaidFor, OldestFirst, ImplementsChannel, EveryTextSettles | the four actors of the outbox, and that it is a MessageChannel |
| `outbox_only_after_success` (violation) | UnlinkedOnlyAfterSuccess | a send that fails without raising is unlinked |
| `imsg_inbound` | GapsHaveAReason, FrontierCatchesUp | two threads, lost stream lines, one fault |
| `talk_poll` | GapsHaveAReason, FrontierIsKept, EveryMessageSettles | a frontier saved per message, either order of the list, kills and faults |
| `unified_routing` | TypeOK, OneMemberPerPerson, SavedWhenIdle, ChoicesHold, NobodyElseMovesMe, RelayReachesOthers | four inbox files of three accounts in any order, with one kill, one confirmed claim, and copies that cannot be written |
| `exit_after_rename` (violation) | ExitStopsRouting | an exit that was answered is forgotten when a claim renames the person |
| `identity_claim` | ClaimTypeOK, AttemptsAreMisses, ClosedStaysClosed, ConfirmMergesTheTwo, RightCodeConfirms | two claims and three confirms of four accounts, equal codes, expiry, a kill between the two saves |
| `registry` | AttachmentsHaveAReason, TornHasAReason, SweepMissesFew, ManifestsAreFollowed, StatusComesBack | bridges that come and go under a sweep and a waiting attachment; a wrapper's three threads and the adapter's deletions over one status file; list and manifests agree in the end |
| `outbound_routing` | QuoteHasAReason, OutboxOfTheTarget, MulticastReachesEach | quotes, outboxes and multicast with a full reply map, failed writes, a restart |

The type invariant is in three of the runs, where others of its kind are left to
the proofs; that of `thread_digest` also holds the claim that an open digest always
has something to flush (`DigestWindow`).

Bounds, and why they are enough:

- *inbox_delivery*: two bridges, three files. `t1` carries an id and may be written
  twice (a repeat needs two writes of one id); `i1` has the same local id on the
  other bridge (keys must not collide, and with `DedupCap = 1` it evicts `t1`'s
  entry), is written in place (torn reads); `bare` has no id. Each kind a message
  can have occurs on one of them. `ParseFailureLimit = 2` has one counted failure
  and one quarantine. A listing may fail at any time, without a bound. `MaxStops`,
  `MaxFaults`, `MaxExpiries` = 1: the loss and
  repeat scenarios need one stop; a second stop finds nothing but persisted
  state and empty memory again. At-most-once is proved for all bounds.
- *a2a_digest*: five messages, four of one peer: one passes, three reach
  `BurstCap = 3`, or fewer wait for the window; a second peer interleaves.
- *thread_digest*: a tick is 30 s, which gives windows of 1 and 2 ticks and an
  interval of 2. Thresholds of 1 and 2 open a digest at the second message, so
  that the third may be buffered, flushed, or find the mode changed. Two commands
  reach every mode from every other, replace an open session, or set the silent mode
  and take the last member out; one session name is enough for an artifact to be
  overwritten.
- *outbox_delivery*: three messages, one from cron, so that one of each writer
  and an order between two of the gateway exist; `MaxAge = 1` makes both a fresh
  and a stale file possible during one sweep; one fault budget covers raising
  sends, failing unlinks and wrapper stops.
- *imsg_inbound*: four messages in two chats, one of them our own, and
  `HistoryLimit = 2`, so that the three of one chat overflow a poll.
- *talk_poll*: five messages, four of one room, one of these our own; `Limit = 3`
  overflows; two kills, so that a kill may follow a poll that resumed after one.
- *unified_routing*: two persons share a room on one bridge, the first also has an
  account with a direct chat on another bridge, which a claim may make the same
  person; so a chat with two members, a person with two addresses, and a member
  recorded under an old name all occur. Two threads, interchangeable (symmetry):
  one to be in and one to switch to. Four inbox files: every property relates at
  most a create, a switch or a join, an exit and a message. One kill repeats one
  command from any of its steps; one claim comes between any two files. Failing
  copies and errors have no bound. *exit_after_rename*: the same without a kill.
- *identity_claim*: two claims, so that a code may be right for one and wrong for a
  bystander, or right for both; `MaxAttempts = 2` has one counted and one closing
  miss, and three confirms allow a confirmed claim after both; one imsg account has
  the user name of a talk one, so that a bare alias matches on both bridges.
- *registry*: a bridge with a `BridgeRunner` and a watch thread, and one kept by hand;
  a message of each, the first with an attachment; two starts of the wrapper, so
  that the second meets deletions due to the first stop; one kill, crash, error, edit
  or slip. That a wrong file takes two messages of one file name is left to the
  proof.
- *outbound_routing*: four messages, one without an id, with `Cap = 2`: the map
  overflows with and without counting it; one member is reached at two addresses,
  one of which the second member has too; one address the wrapper's format
  refuses; one failed write and one restart.

Fairness, each from the code's own scheduling:

- inbox: the poll task is weakly fair (`_poll_loop` never ends while running), the
  gateway's handler comes back, and a stopped adapter is started again. The listing
  of each bridge is strongly fair: it fails when a wrapper completes a write
  between the reading of the names and that of their times, once for a write;
- a2a: strong fairness of each task's run and hand-off: the event loop's ready
  queue is first in, first out, so a task that becomes ready again and again while
  the other waits gets its turn; ticks pass;
- thread digest: time passes, the timer's loop never ends and the poll task goes on
  with the file it has (weak fairness each); no message is assumed to come;
- outbox: the drain thread catches every error inside of its loop and goes on
  (`loops.py` 39-71; nothing would restart it), and every send has a timeout (weak
  fairness), time passes, and the cleanup comes round for each file;
- iMessage: both threads loop for ever with timeouts on their requests;
- Talk: one thread that loops for ever (weak fairness of its poll);
- registry: the adapter's loops, its reconnect and the heartbeats go on (weak
  fairness). The reconcile is strongly fair: once its sleep is over it is in the
  event loop's queue ahead of the poll task's next turn, and runs when the poll
  waits for the gateway. Nothing is assumed of the watch threads: a stream may stay
  as it is for ever.

`unified_routing`, `identity_claim` and `outbound_routing` check no liveness: what a
command or a call does ends with it.

Deadlock is checked in `inbox_delivery` and `outbound_routing`. In the others the
system may come to rest: with all messages arrived and the bounds spent nothing
is left to do.

Every property has a mutant, a definition changed the way a plausible bug would
(often the bug a T-number in the code says was fixed), under which TLC finds it
violated.

## 4. Proofs

Each holds for every value of the constants that satisfies the module's
assumption: any number of messages, bridges or rooms, any caps, limits, windows
and bounds on faults.

| Module, assumption | Types | Safety |
|---|---|---|
| `InboxDeliveryProofs`, `InboxAssumption` | `TypeCorrect` | `HandedOffAtMostOnce` (AtMostOnce), `WindowCovered` (DedupWindow), `RemovalsAccounted` (AccountedRemoval), `HandedOffInOrder` (InOrder) |
| `OutboxDeliveryProofs`, `OutboxAssumption` | `OutboxTypeCorrect` | `RefinesChannel` (ImplementsChannel), `RepeatsPaid` (RepeatsArePaidFor), `OldestAreFirst` (OldestFirst) |
| `A2ADigestProofs`, `DigestAssumption` | `DigestTypeCorrect` | `DigestAccounts` (NothingUnaccounted), `DigestKeepsOrder` (FirstHandOffsInOrder) |
| `ThreadDigestProofs`, `DigestAssumption` of `ThreadDigest` | `TypeCorrect` | `EverythingAccounted` (NothingUnaccounted), `GateKeepsMentions` (MentionPassesTheGate), `ToldCounted` (ToldAsMeant) |
| `ImsgInboundProofs`, `ImsgAssumption` | `ImsgTypeCorrect` | `ImsgGapsExplained` (GapsHaveAReason) |
| `TalkPollProofs`, `PollAssumption` | `PollTypeCorrect` | `GapsExplained` (GapsHaveAReason), `FrontierKept` (FrontierIsKept) |
| `RegistryClaimProofs`, `RegistryAssumption` | `RegistryTypeCorrect` | `AttachmentsKept` (AttachmentsHaveAReason), `WritesUndisturbed` (TornHasAReason), `SweepsReachAll` (SweepMissesFew) |
| `RegistryClaimProofs`, `ClaimAssumption` of `IdentityClaim` | `ClaimTypeCorrect` | `MissesCount` (AttemptsAreMisses), `ConfirmedStaysClosed` (ClosedStaysClosed), `CodeConfirms` (RightCodeConfirms), `MergeIsOfTheTwo` (ConfirmMergesTheTwo) |
| `RoutingProofs`, `RoutingAssumption` of `UnifiedRouting` | `TypeCorrect` | `OneMember` (OneMemberPerPerson), `MapsAreSaved` (SavedWhenIdle), `MessagesAreRelayed` (RelayReachesOthers), `OthersDoNotMoveMe` (NobodyElseMovesMe), `ChoicesAreKept` (ChoicesHold) |
| `RoutingProofs`, `OutboundAssumption` of `OutboundRouting` | `OutboundTypeCorrect` | `AnswersQuote` (QuoteHasAReason), `RightOutbox` (OutboxOfTheTarget), `EachIsReached` (MulticastReachesEach) |

**Inbox.** `AtMostOnce` (no key is handed off twice within its window) is not
inductive: from a state where the map forgot a key the next read hands it off
again. The inductive invariant is

    DedupInv == TypeOK /\ WindowInv /\ RecordedInv /\ AtMostOnce

`WindowInv` says that every key is *free* (not handed off since it last lapsed) or
*covered* (in the map, young, with fewer than `DedupCap` keys recorded after it):
membership alone would not survive the next eviction, which goes by age and
rank. `RecordedInv` bridges the gap between the recorded id and the call: a file
in phase "recorded" has a key that is free and covered at once. The work is in
`RecordIdCovers`: recording `k` keeps each covered `j` that has not lapsed,
because the keys newer than `j` that survive the pruning are among all keys newer
than `j`. All other actions leave the map and the history alone or, like `Expire`,
lapse what they uncover. `DedupWindow` follows from `WindowInv`.

`AccountedRemoval` (a file leaves the inbox for a named reason only) needs to know
that an id in the map was taken over by the gateway, is on its way to it, or that a
stop or fault is on record (`IdsAccounted`), since a duplicate is dropped unseen.
`InOrder` needs what a sweep's listing is worth once files have come, gone and
been written again under it: `ListedOnce` (a list names a file once),
`UnwrittenUnlisted` (what was never written is in no directory and no list), and
`OlderFirst`: while a sweep has a message before it, an older one of the same bridge
is marked as seen or in front of it.

**Outbox.** That a text which leaves was sent or is excused cannot be seen from its
file alone. The inductive invariant is

    OutInv == TypeOK /\ FileInv /\ HandInv

`FileInv`: a whole text is accepted and an accepted one is whole or gone (never torn
again). `HandInv`: the message the drain has in hand is accepted, its file is there
or the cleanup took it, and once its send is over it was sent or its failure
swallowed. `RefinesStep` then maps each step: a whole write is Accept, the
platform's taking HandOver, a send that fails and returns Excuse, the unlink
Retire; the cleanup is Retire, or Excuse when the drain has that file in hand; an
exception, a failing unlink or a stop of the wrapper is a stutter while the file is
there, and Retire when the cleanup has taken it.

`RepeatsArePaidFor` bounds a count by a count. `Owed` are the messages sent more
than once and those sent once that are going to be sent again (`Again`: the file
is still whole, or the message is back in the drain's hand before its send); every
one of them is paid for by a fault of its own: `Cardinality(Owed) <= faults`. A send
of a message already sent moves it within `Owed`, and only a fault can put a new one
there. `OldestFirst` needs `OrderInv` (the list goes by age, of what is still there,
and so does the message in hand compared with the list) and `FoundInv` (what the
listing found is in the list or in hand until it is sent, while nothing fails).

**a2a digest.** A message is accounted for by the variable it is in, and a step that
clears one must have filled another. `DigestInv` adds to "what the poll is done with
is accounted for" what is known in the middle of a flush: a bundle the poll holds
contains the message whose file it still has (`FlushedForMessage`), and a bundle
about to be cleared from the pending list was taken by the gateway
(`ClearedWereTaken`). The type invariant contains `OpenIffBuffered`: a window is
open exactly while its buffer is not empty, so that the timer's branch for an
empty window is unreachable.

First hand-offs in order: `Orderly` says where the messages of a peer are that were
taken and not yet handed off. They follow those handed off (`TakenInOrder`), they
are in the buffer or in the one bundle being flushed and nowhere else
(`TakenIsSomewhere`), and a flushed bundle is of one peer, whose buffer is empty
meanwhile (`OnePeersMessages`). It holds while there was no kill and no failing
hand-off (`InTurn`), which is what the property asks for; what is bundled again was
handed off before.

**Thread digest.** `AccountInv` says of each message that arrived that it is in the
file still to be read, or *elsewhere*: told, buffered, bundled, collected in the
session or the artifact, or given up for a reason; and of the turn in hand what it
is made of at each phase (`HandInv`), for it is in memory only. `ToldAsMeant`
counts: `TurnsBounded` is the number of turns a message is part of plus those it may
still cause, at most 2, and one more for each kill. That what goes to the minutes is
no turn (`MinutesApart`) needs that a message read again after a kill meets the same
session as before, for no command comes between the two.

**Frontiers.** Both wrappers keep a number per chat below which nothing is asked for
again. For iMessage the same statement (`Passed`: below it every message is in the
inbox, our own, failed, out of the poll's limit, or passed by a later one of the
stream) must hold of three copies of the map, the file and what either thread has
loaded, since each of them may be saved next. `ImsgInv` adds that everything shown
is somewhere (`Accounted`), and what the watch thread (`InInbox`) and the history
thread (`RowsLeft`) have in hand. For Talk, `PollInv` adds that no frontier is ahead
of the server (`Behind`), that a batch belongs to the room in hand
(`BatchOfRoom`), that what the end of the poll will pass is settled or still in the
batch (`Passing`), and that the message whose id is being saved is in the inbox
(`Copied`). `FrontierIsKept` needs two facts about the middle of a poll: no
frontier, in memory or on disk, and nothing of the batch is below what the last
whole poll saved (`AboveFinished`), and with the oldest message first a frontier
only rises (`Rising`).

**Registry.** `Quiet`: while a bridge's manifest was never away it is good or was
never written, no deletion is due, and a running wrapper, without which there is
neither a heartbeat nor a watch, has its directory.
`Stored`: a file holds an attachment that was kept under its name, and does so for
each fetched message of a quiet bridge that the cleanup did not take, also when an
error left it in the inbox. A wrong or
missing attachment, or a missing directory, then has one of the named reasons.

`SweepMissesFew` counts while the sweep goes on (`SweepInv`): a bridge that was on
the list all along and is behind the sweep (`Passed`) was visited or is `Missed`, and
`Cardinality(Missed)` is at most the number of removals, because taking one out of a
list moves at most one other past its turn (`Shifted`). New bridges are appended, so
nothing visited comes up again.

**Unified threads.** `Core` is the type invariant with what is known of the file in
hand (`HandOK`) and of the number of copies of a relayed message (at most one for
each kill, and one more). `SavedWhenIdle` needs `Saved`: a map that differs from
its file is among those still to be saved. With it, one member per person
(`OneEachBoth`) is proved of memory and of the files together, since a kill makes
the second the first. Its core is `RightNames`: the name recorded for a member is
that of the canonical person of each of its seats, by the identity map as it is,
unless the account is outdated; and `AllOrNone`, that of a person all accounts are
outdated or none. A claim (`ConfirmsOne`) can only break a record by making it
outdated. `RelayReachesOthers` follows from `Relayed`: a target of the message in
hand has its copy, or its copy failed, or it is still to get it, *by the maps as
they are*, which nobody changes while a message is relayed.

`NobodyElseMovesMe` says that a step in the name of another person leaves the route
of my messages alone, unless it takes my address out of a thread. A kill in the
middle of a command takes memory back to the files, so the invariant `DiskDiffers`
compares the two: they agree (`Alike`) but for what belongs to the sender of the
command in hand, the chat it wrote in and the addresses a leave takes. It needs
`ActivesExist` too: a name in the map of active threads is a saved thread, for if a
thread could be active before its record is saved, a kill would move people.

`ChoicesHold` (who left a thread is not routed to it, who switched to one is routed
to it) is about what was *answered*: an exit is held against every thread in which
an account of the person has a seat (`SeatedIn`), whatever name the seat is recorded
under, and no claim takes an answer back. It follows from `ChoiceInv`, for every
account that is not outdated, again for memory and for the files: a thread somebody left is
paused for the person unless the command in hand takes it back, a chosen thread is
the active one unless the command in hand chooses another, and what the command in
hand has done, once its maps are changed (`Done`). That an exit pauses all of these
threads (`SeatedPaused`) is where `RightNames` is needed: the code looks for the
recorded name. A claim leaves the promises to those it renames nothing of
(`ConfirmsChoices`).

**Reply map.** `ReplyInv == Remembered /\ Stored`: an id is in the map unless it is
forgotten for a reason, and in the file unless its save failed (`unsaved`), so that
a restart may lose exactly the unsaved. The work is in the cap: an id pruned by
rank has `Cap` later ids in the map, which are among all later ids.

**Multicast.** `CallInv` is about the call just made, whose files are a set of posts.
For an address, the map from a post to its member is a bijection between the posts
to that address and the members that have it (`OncePerMember`): the first place of an
address in a member's list is a recipient and no other is. At most one file of a
call is missing, and only if a fault was met.

**Identity claims.** `ClaimCore` is the type invariant with what makes ids names: no
two claims share one, none is above `made`, and nothing is known of a claim not yet
made; memory and file hold the same claims (`saved = claims`), since every change of
them is saved in the same stretch. `AttemptsAreMisses` needs the claims that counted the wrong
code in hand already (`tried`): between counting and reply they are one ahead of the
misses answered, and a kill there leaves them ahead for good (`AttemptsInv`).
`ClosedStaysClosed` needs `ClosingInv`: an open claim the last merge was made for is
the oldest match of a confirm that is still in hand, either about to delete it or,
after a kill, to be run again. The code drawn for another claim meanwhile does not
matter: it has a larger id. `ConfirmMergesTheTwo` is about the identity
map as a sequence: all values of the entries a merge writes are aliases, so whom an
entry declares is a matter of names (`MatchesAlias`), and `Merged` changes the entries
of the two only (`OthersStay`, `TheTwoAreOne`).

Every safety property of the passing runs is proved. Only model-checked is liveness
(EveryMessageSettles, EveryMessageArrives, SilentDigestIsFlushed, EveryTextSettles,
FrontierCatchesUp, ManifestsAreFollowed, StatusComesBack): fairness is about ENABLED,
which is out of the prover's reach.

## 5. Findings

All are in `PROJECT.json` ("findings") with the line they contradict. Two have a run
of their own:

- `outbox_only_after_success`: sends that fail without raising are unlinked,
  against the docstring of the drain;
- `exit_after_rename`: exit looks for the name recorded at join and pauses under the
  name of the moment; a confirmed claim changes names and neither record, so the
  messages of who was told "your messages now go to the normal chat" go into the
  thread.

The others are what the models say of the code, each named as a reason or an
exception in a property:

- inbox: the id is recorded before the hand-off, so a kill in between loses the
  message; a file that is not UTF-8 is never quarantined and ends every sweep; the
  quarantine rename is not retried;
- a2a: a kill between the two saves of a flush loses the bundle; the timer hands a
  bundle over that the poll task is still handing over;
- thread digest: the timer flushes silent threads only, so a participant's digest waits
  for a next message for ever; the timer empties and saves the buffer of a silent
  thread before it returns for want of a member; the cooldown of T-080 never decides anything; a silent bundle is
  dropped whole when no message in it mentions the agent and a group message
  carries it; the emptied buffer is saved before the bundle is handed over;
- wrappers: the iMessage history thread saves without the lock; Talk's saved
  frontier goes down while a newest-first list is written; the cron writer writes
  in place;
- threads: join compares names as exit does, so a person with a new name gets a second
  member instead of a second address; the fallback to the active thread ignores that it is paused; join from a
  chat that is a member's already does not unpause; exit does not take its name;
  leave keeps the active thread; an address that two members share gets a
  multicast twice; every member gets the local id of the bridge the quoted message
  came from;
- identity: a bare alias matches on every bridge; a merge has no effect when an
  entry in front of the source's names the target; a confirm repeated by a kill
  counts as a miss on bystanders;
- registry: a YAML error ends the scan for all bridges; `media/` is deleted under
  messages that still wait in the inbox.

## 6. What is left out

Within the modelled parts:

- a state file whose save fails: `_atomic_write_json` logs the OSError and goes on;
  modelled for the outbox with the copies of relay and multicast, the reply map
  and Talk's frontier; not for the dedup map, the digest states, the claims and the
  three maps of unified threads (`unified_threads.json`, `active_threads.json`,
  `paused_threads.json`): `SavedWhenIdle` and what is proved across kills assume
  that these saves succeed;
- inbox: the SDK's file name contains the message id, so a repeated message is a
  repeated name; an id-less name is used once; the reaction handler is assumed
  set; the list of bridges is fixed (it changes in `Registry`); a dedup entry does
  not expire in the instant between its recording and the call; what the message's
  text causes is its kind;
- a2a: a bundle that can never be handed over (failing hand-offs are bounded);
- thread digest: refusals to others than the leader change nothing; one thread;
- outbox: attachments are part of the message; equal modification times are files of
  one tick;
- iMessage: lines without text or that are no JSON; reactions are messages;
- status: the heartbeat thread that the watch starts for each stream
  (`imsg-wrapper.py` 220-226). It writes what `BridgeRunner`'s heartbeat writes, and
  as its stop event is never cleared none of them lives on after the first end of
  a stream;
- Talk: whether a room is direct, asked of the server for each poll and kept nowhere;
- unified threads: users of different bridges have different names (the code keeps
  `active` and `paused` by person alone); commands of senders without permission
  change nothing; `list` and the one-shot `send` change no state; confirming a
  claim is one step there and cut in `IdentityClaim`; a file whose handling raised
  is done with there, and read again after a restart like a new one;
- identity: entries that are bare lists (written by earlier versions), display names;
- registry: a manifest that changes in place, and the routing defaults it holds;
- reply map: entries without a time stamp (written before T-078), the typing
  indicator.

Not modelled at all: the status poll (reads and logs), the copies of outgoing media
(one file copy per call), configuration, mention patterns and plugin registration
(read once), the printing side of the test wrapper.

## 7. Plan

Done so far: all components of the first plan, and a proof of every safety property
the runs check. What would add most next:

1. Failing saves of the remaining state files.
2. `IdentityClaim` composed with `UnifiedRouting`: a kill between the two saves of a
   confirm while member records keep the old person.
3. A bundle that can never be handed over, in front of others.
