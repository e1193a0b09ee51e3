------------------------ MODULE RegistryClaimProofs ------------------------
(***************************************************************************)
(* Proofs about what the adapter keeps of wrappers and of identities.      *)
(* Registry, for every set of bridges and messages and every number of     *)
(* starts and faults: what the reconcile takes from a wrapper has a        *)
(* reason, and a sweep of the live list misses few.  IdentityClaim, for    *)
(* all accounts and codes, every cap, lifetime and number of kills:        *)
(* attempts are misses, a confirmed claim stays closed, and a merge is of  *)
(* the two accounts.                                                       *)
(***************************************************************************)
EXTENDS Registry, IdentityClaim, FiniteSetTheorems, SequenceTheorems,
        WellFoundedInduction, TLAPS

----------------------------------------------------------------------------
(* Sequences and sets of numbers. *)

\* A finite set as a sequence has each element once.
LEMMA SetAsSeq ==
    ASSUME NEW S, IsFiniteSet(S)
    PROVE  /\ SetToSeq(S) \in Seq(S) /\ IsInjective(SetToSeq(S))
           /\ Range(SetToSeq(S)) = S
<1> DEFINE n == Cardinality(S)
           P(f) == f \in [1..n -> S] /\ IsInjective(f)
           s == SetToSeq(S)
<1>1. n \in Nat /\ ExistsBijection(1..n, S)
  BY FS_CardinalityType
<1>2. \E f : P(f)
  BY <1>1 DEF ExistsBijection, Bijection, Injection
<1>3. s \in [1..n -> S] /\ IsInjective(s)
  BY <1>2 DEF SetToSeq
<1>4. s \in Seq(S)
  BY <1>1, <1>3, SeqDef
<1>5. Range(s) = S
  <2>1. IsFiniteSet(1..n) /\ Cardinality(1..n) = n
    BY <1>1, FS_Interval
  <2>2. s \in Surjection(1..n, S)
    BY <1>3, <2>1, FS_Injection DEF Injection
  <2> QED
    BY <1>3, <2>2 DEF Surjection, Range
<1> QED
  BY <1>3, <1>4, <1>5

\* Two sequences without repetition or a common element make one.
LEMMA Joined ==
    ASSUME NEW S, NEW p \in Seq(S), NEW q \in Seq(S), IsInjective(p), IsInjective(q),
           Range(p) \cap Range(q) = {}
    PROVE  p \o q \in Seq(S) /\ IsInjective(p \o q)
<1> DEFINE pq == p \o q
<1>1. /\ pq \in Seq(S) /\ Len(pq) = Len(p) + Len(q)
      /\ \A i \in 1..Len(p) + Len(q) :
            pq[i] = IF i <= Len(p) THEN p[i] ELSE q[i - Len(p)]
  BY ConcatProperties
<1>2. /\ Len(p) \in Nat /\ Len(q) \in Nat
      /\ DOMAIN p = 1..Len(p) /\ DOMAIN q = 1..Len(q) /\ DOMAIN pq = 1..Len(pq)
  BY <1>1, LenProperties
<1>3. \A i \in DOMAIN p, j \in DOMAIN q : p[i] # q[j]
  BY DEF Range
<1> HIDE DEF pq
<1>4. ASSUME NEW i \in DOMAIN pq, NEW j \in DOMAIN pq, pq[i] = pq[j]
      PROVE  i = j
  <2>1. CASE i <= Len(p) /\ j <= Len(p)
    BY <1>1, <1>2, <1>4, <2>1 DEF IsInjective
  <2>2. CASE i > Len(p) /\ j > Len(p)
    <3>1. /\ i - Len(p) \in DOMAIN q /\ j - Len(p) \in DOMAIN q
          /\ q[i - Len(p)] = q[j - Len(p)]
      BY <1>1, <1>2, <1>4, <2>2
    <3>2. i - Len(p) = j - Len(p)
      BY <3>1 DEF IsInjective
    <3> QED
      BY <1>1, <1>2, <3>2
  <2>3. CASE i <= Len(p) /\ j > Len(p)
    <3>1. i \in DOMAIN p /\ j - Len(p) \in DOMAIN q
      BY <1>1, <1>2, <1>4, <2>3
    <3>2. p[i] = q[j - Len(p)]
      BY <1>1, <1>2, <1>4, <2>3
    <3> QED
      BY <1>3, <3>1, <3>2
  <2>4. CASE i > Len(p) /\ j <= Len(p)
    <3>1. j \in DOMAIN p /\ i - Len(p) \in DOMAIN q
      BY <1>1, <1>2, <1>4, <2>4
    <3>2. p[j] = q[i - Len(p)]
      BY <1>1, <1>2, <1>4, <2>4
    <3> QED
      BY <1>3, <3>1, <3>2
  <2> QED
    BY <1>1, <1>2, <2>1, <2>2, <2>3, <2>4
<1> QED
  BY <1>1, <1>4 DEF IsInjective, pq

\* A sequence without one of its places, place by place.
LEMMA Shifted ==
    ASSUME NEW S, NEW s \in Seq(S), NEW i \in DOMAIN s
    PROVE  /\ RemoveAt(s, i) \in Seq(S) /\ Len(RemoveAt(s, i)) = Len(s) - 1
           /\ \A p \in 1..Len(s) - 1 :
                 RemoveAt(s, i)[p] = IF p < i THEN s[p] ELSE s[p + 1]
<1> DEFINE h == SubSeq(s, 1, i - 1)
           t == SubSeq(s, i + 1, Len(s))
<1>1. Len(s) \in Nat /\ DOMAIN s = 1..Len(s) /\ i \in 1..Len(s)
  BY LenProperties
<1>2. /\ h \in Seq(S) /\ Len(h) = i - 1
      /\ \A k \in 1..i - 1 : h[k] = s[k]
  <2>1. /\ h \in Seq(S) /\ Len(h) = IF 1 <= i - 1 THEN (i - 1) - 1 + 1 ELSE 0
        /\ \A k \in 1..(i - 1) - 1 + 1 : h[k] = s[1 + k - 1]
    BY <1>1, SubSeqProperties
  <2> QED
    BY <1>1, <2>1
<1>3. /\ t \in Seq(S) /\ Len(t) = Len(s) - i
      /\ \A k \in 1..Len(s) - i : t[k] = s[i + k]
  <2>1. /\ t \in Seq(S)
        /\ Len(t) = IF i + 1 <= Len(s) THEN Len(s) - (i + 1) + 1 ELSE 0
        /\ \A k \in 1..Len(s) - (i + 1) + 1 : t[k] = s[(i + 1) + k - 1]
    BY <1>1, SubSeqProperties
  <2> QED
    BY <1>1, <2>1
<1> HIDE DEF h, t
<1>4. /\ h \o t \in Seq(S) /\ Len(h \o t) = Len(s) - 1
      /\ \A k \in 1..Len(s) - 1 :
            (h \o t)[k] = IF k <= i - 1 THEN h[k] ELSE t[k - (i - 1)]
  <2>1. /\ h \o t \in Seq(S) /\ Len(h \o t) = Len(h) + Len(t)
        /\ \A k \in 1..Len(h) + Len(t) :
              (h \o t)[k] = IF k <= Len(h) THEN h[k] ELSE t[k - Len(h)]
    BY <1>2, <1>3, ConcatProperties
  <2>2. Len(h) + Len(t) = Len(s) - 1
    BY <1>1, <1>2, <1>3
  <2> QED
    BY <1>2, <2>1, <2>2
<1> DEFINE r == h \o t
<1>5. RemoveAt(s, i) = r
  BY DEF RemoveAt, h, t
<1>6. /\ r \in Seq(S) /\ Len(r) = Len(s) - 1
      /\ \A k \in 1..Len(s) - 1 : r[k] = IF k <= i - 1 THEN h[k] ELSE t[k - (i - 1)]
  BY <1>4
<1> HIDE DEF r
<1>7. ASSUME NEW p \in 1..Len(s) - 1, p < i
      PROVE  r[p] = s[p]
  <2>1. p \in 1..i - 1 /\ p <= i - 1
    BY <1>1, <1>7
  <2> QED
    BY <1>2, <1>6, <2>1
<1>8. ASSUME NEW p \in 1..Len(s) - 1, ~ (p < i)
      PROVE  r[p] = s[p + 1]
  <2>1. /\ p - (i - 1) \in 1..Len(s) - i /\ i + (p - (i - 1)) = p + 1
        /\ ~ (p <= i - 1)
    BY <1>1, <1>8
  <2>2. t[p - (i - 1)] = s[p + 1]
    BY <1>3, <2>1
  <2> QED
    BY <1>6, <2>1, <2>2
<1> QED
  BY <1>5, <1>6, <1>7, <1>8

\* Its elements, and that none of them comes twice.
LEMMA Removed ==
    ASSUME NEW S, NEW s \in Seq(S), NEW i \in DOMAIN s
    PROVE  /\ RemoveAt(s, i) \in Seq(S)
           /\ Range(RemoveAt(s, i)) \subseteq Range(s)
           /\ Range(s) \ {s[i]} \subseteq Range(RemoveAt(s, i))
           /\ IsInjective(s) => IsInjective(RemoveAt(s, i))
<1> DEFINE r == RemoveAt(s, i)
<1>1. /\ Len(s) \in Nat /\ DOMAIN s = 1..Len(s) /\ i \in 1..Len(s)
      /\ r \in Seq(S) /\ DOMAIN r = 1..Len(s) - 1
      /\ \A p \in 1..Len(s) - 1 : r[p] = IF p < i THEN s[p] ELSE s[p + 1]
  BY Shifted, LenProperties
<1> HIDE DEF r
<1>2. Range(r) \subseteq Range(s)
  <2>1. \A p \in DOMAIN r : \E k \in DOMAIN s : r[p] = s[k]
    BY <1>1
  <2> QED
    BY <2>1 DEF Range
<1>3. ASSUME NEW k \in DOMAIN s, s[k] # s[i]
      PROVE  \E p \in DOMAIN r : r[p] = s[k]
  <2>1. CASE k < i
    BY <1>1, <2>1
  <2>2. CASE k > i
    <3>1. k - 1 \in DOMAIN r /\ ~ (k - 1 < i) /\ (k - 1) + 1 = k
      BY <1>1, <2>2
    <3> QED
      BY <1>1, <3>1
  <2> QED
    BY <1>1, <1>3, <2>1, <2>2
<1>4. Range(s) \ {s[i]} \subseteq Range(r)
  BY <1>3 DEF Range
<1>5. ASSUME IsInjective(s), NEW p \in DOMAIN r, NEW q \in DOMAIN r, r[p] = r[q]
      PROVE  p = q
  <2>0. \A j, k \in DOMAIN s : s[j] = s[k] => j = k
    BY <1>5 DEF IsInjective
  <2>1. CASE p < i /\ q < i
    BY <1>1, <1>5, <2>0, <2>1
  <2>2. CASE p >= i /\ q >= i
    <3>1. p + 1 \in DOMAIN s /\ q + 1 \in DOMAIN s /\ s[p + 1] = s[q + 1]
      BY <1>1, <1>5, <2>2
    <3>2. p + 1 = q + 1
      BY <2>0, <3>1
    <3> QED
      BY <1>1, <3>2
  <2>3. CASE p < i /\ q >= i
    <3>1. p \in DOMAIN s /\ q + 1 \in DOMAIN s /\ s[p] = s[q + 1] /\ p # q + 1
      BY <1>1, <1>5, <2>3
    <3> QED
      BY <2>0, <3>1
  <2>4. CASE p >= i /\ q < i
    <3>1. p + 1 \in DOMAIN s /\ q \in DOMAIN s /\ s[p + 1] = s[q] /\ p + 1 # q
      BY <1>1, <1>5, <2>4
    <3> QED
      BY <2>0, <3>1
  <2> QED
    BY <1>1, <2>1, <2>2, <2>3, <2>4
<1>6. IsInjective(s) => IsInjective(r)
  BY <1>5 DEF IsInjective
<1> QED
  BY <1>1, <1>2, <1>4, <1>6 DEF r

----------------------------------------------------------------------------
(* Registry: types. *)

LEMMA InitType == Init => TypeOK
<1> SUFFICES ASSUME Init
             PROVE  TypeOK
  OBVIOUS
<1>1. list \in Seq(Bridges) /\ IsInjective(list) /\ seen \in Seq(Bridges)
  BY EmptySeq DEF Init, IsInjective
<1>2. runs \in 0..MaxRuns /\ faults \in 0..MaxFaults
  BY RegistryAssumption DEF Init
<1>3. /\ media \in [Files -> Msgs \cup {NoMsg}]
      /\ msg \in [Msgs -> {"out", "fetched", "inbox", "left", "whole", "bare", "other"}]
  BY DEF Init
<1>4. /\ manifest \in [Bridges -> {"none", "torn", "good", "broken"}]
      /\ run \in [Bridges -> {"down", "dir", "up", "closing", "closed"}]
      /\ beat \in [Bridges -> {"none", "sleep", "dir", "dead"}]
      /\ watch \in [Bridges -> {"none", "down", "upDir", "up", "downDir", "dead"}]
      /\ dir \in [Bridges -> BOOLEAN] /\ status \in [Bridges -> {"none", "up", "down"}]
      /\ \A b \in Bridges : run[b] = "down" /\ beat[b] = "none" /\ watch[b] = "none"
                          /\ status[b] = "none"
  BY DEF Init
<1>5. /\ on = FALSE /\ list = <<>> /\ drops = {} /\ at = "idle" /\ next = 1
      /\ old = {} /\ there = {} /\ removed = 0 /\ away = {} /\ cleaned = {}
  BY DEF Init
<1>6. on \in BOOLEAN
  BY <1>5
<1> QED
  BY <1>1, <1>2, <1>3, <1>4, <1>5, <1>6 DEF TypeOK

\* A fault is paid from the budget.
LEMMA FailsType == TypeOK /\ Fails => faults' \in 0..MaxFaults
BY RegistryAssumption DEF TypeOK, Fails

\* The process and its threads, as TypeOK has them, and the messages.
Processes ==
    /\ run \in [Bridges -> {"down", "dir", "up", "closing", "closed"}]
    /\ beat \in [Bridges -> {"none", "sleep", "dir", "dead"}]
    /\ watch \in [Bridges -> {"none", "down", "upDir", "up", "downDir", "dead"}]
    /\ \A c \in Bridges : run[c] \in {"down", "dir"} <=> beat[c] = "none"
    /\ \A c \in Bridges : beat[c] = "none" => watch[c] = "none"
    /\ msg \in [Msgs -> {"out", "fetched", "inbox", "left", "whole", "bare", "other"}]

LEMMA EndsType == ASSUME TypeOK, NEW b \in Bridges, Ends(b)
                  PROVE  Processes'
BY DEF TypeOK, Processes, Ends

\* What is left to show where an action changes the process, and the directory's
\* file at most.
LEMMA ProcessType ==
    ASSUME TypeOK, Processes',
           status' \in [Bridges -> {"none", "up", "down"}],
           \A b \in Bridges : status'[b] # "none" => dir[b],
           UNCHANGED <<manifest, runs, dir, media, old, adapterVars, faults, away, cleaned>>
    PROVE  TypeOK'
BY DEF TypeOK, Processes, adapterVars, pollVars, Listed

LEMMA StartsType == ASSUME TypeOK, NEW b \in Bridges, Starts(b)
                    PROVE  TypeOK'
<1>1. CASE dir[b]
  <2>1. /\ run' = [run EXCEPT ![b] = "up"] /\ beat' = [beat EXCEPT ![b] = "sleep"]
        /\ watch' \in {watch, [watch EXCEPT ![b] = "down"]} /\ UNCHANGED msg
    BY <1>1 DEF Starts, TypeOK
  <2>2. Processes'
    <3>1. CASE watch' = watch
      BY <2>1, <3>1 DEF Processes, TypeOK
    <3>2. CASE watch' = [watch EXCEPT ![b] = "down"]
      BY <2>1, <3>2 DEF Processes, TypeOK
    <3> QED
      BY <2>1, <3>1, <3>2
  <2>3. status' = [status EXCEPT ![b] = "up"]
    BY <1>1 DEF Starts
  <2>4. /\ status' \in [Bridges -> {"none", "up", "down"}]
        /\ \A c \in Bridges : status'[c] # "none" => dir[c]
    BY <1>1, <2>3 DEF TypeOK
  <2> QED
    BY <2>2, <2>4, ProcessType DEF Starts
<1>2. CASE ~dir[b]
  <2>1. Processes' /\ status' = status
    BY <1>2, EndsType DEF Starts
  <2> QED
    BY <2>1, ProcessType DEF Starts, TypeOK
<1> QED
  BY <1>1, <1>2

LEMMA ClosesType == ASSUME TypeOK, NEW b \in Bridges, Closes(b)
                    PROVE  TypeOK'
<1>1. CASE dir[b]
  <2>1. /\ run' = [run EXCEPT ![b] = "closed"] /\ run[b] = "closing"
        /\ UNCHANGED <<beat, watch, msg>>
    BY <1>1 DEF Closes
  <2>2. Processes'
    BY <2>1 DEF Processes, TypeOK
  <2>3. status' = [status EXCEPT ![b] = "down"]
    BY <1>1 DEF Closes
  <2>4. /\ status' \in [Bridges -> {"none", "up", "down"}]
        /\ \A c \in Bridges : status'[c] # "none" => dir[c]
    BY <1>1, <2>3 DEF TypeOK
  <2> QED
    BY <2>2, <2>4, ProcessType DEF Closes
<1>2. CASE ~dir[b]
  <2>1. Processes' /\ status' = status
    BY <1>2, EndsType DEF Closes
  <2> QED
    BY <2>1, ProcessType DEF Closes, TypeOK
<1> QED
  BY <1>1, <1>2

LEMMA WrapperType == ASSUME TypeOK, NEW b \in Runners, Wrapper(b)
                     PROVE  TypeOK'
<1>0. b \in Bridges
  BY RegistryAssumption
<1>1. Ends(b) => Processes'
  BY <1>0, EndsType
<1> USE <1>0 DEF TypeOK, adapterVars, pollVars, mediaVars, dirVars, Listed, MakesDir
<1>2. CASE Registers(b)
  BY <1>2, RegistryAssumption DEF Registers
<1>3. CASE Stops(b)
  BY <1>3 DEF Stops
<1>4. CASE Unregisters(b)
  BY <1>1, <1>4 DEF Unregisters, Processes
<1>5. CASE Killed(b)
  BY <1>1, <1>5, FailsType DEF Killed, Processes
<1> QED
  BY <1>2, <1>3, <1>4, <1>5, StartsType, ClosesType DEF Wrapper

LEMMA HeartbeatType == ASSUME TypeOK, NEW b \in Runners, Heartbeat(b)
                       PROVE  TypeOK'
<1>0. b \in Bridges
  BY RegistryAssumption
<1> USE <1>0 DEF TypeOK, adapterVars, pollVars, mediaVars, Listed, MakesDir
<1>1. CASE BeatDir(b)
  BY <1>1 DEF BeatDir
<1>2. CASE Beats(b)
  BY <1>2 DEF Beats
<1> QED
  BY <1>1, <1>2 DEF Heartbeat

LEMMA WatchType == ASSUME TypeOK, NEW b \in Runners, Watch(b)
                   PROVE  TypeOK'
<1>0. b \in Bridges
  BY RegistryAssumption
<1> USE <1>0 DEF TypeOK, adapterVars, pollVars, mediaVars, Listed, MakesDir
<1>1. CASE SaysDir(b)
  BY <1>1 DEF SaysDir
<1>2. CASE SaysUp(b)
  BY <1>2 DEF SaysUp
<1>3. CASE SaysDown(b)
  BY <1>3 DEF SaysDown
<1> QED
  BY <1>1, <1>2, <1>3 DEF Watch

LEMMA MessageType ==
    ASSUME TypeOK, NEW m \in Msgs, Fetches(m) \/ Delivers(m) \/ Sends(m)
    PROVE  TypeOK'
<1> USE DEF TypeOK, adapterVars, pollVars, mediaVars, dirVars, wrapperVars, Listed
<1>1. CASE Fetches(m)
  <2>1. FileOf[m] \in Files
    BY DEF Files
  <2> QED
    BY <1>1, <2>1 DEF Fetches
<1>2. CASE Delivers(m)
  BY <1>2 DEF Delivers
<1>3. CASE Sends(m)
  BY <1>3 DEF Sends
<1> QED
  BY <1>1, <1>2, <1>3

LEMMA HandType == ASSUME TypeOK, NEW b \in Bridges, Hand(b)
                  PROVE  TypeOK'
<1> USE DEF TypeOK, adapterVars, pollVars, mediaVars, dirVars, wrapperVars, Listed
<1>1. ASSUME NEW content \in {"none", "torn"}, Edits(b, content)
      PROVE  TypeOK'
  BY <1>1, FailsType DEF Edits
<1>2. ASSUME NEW content \in {"good", "broken"}, Completes(b, content)
      PROVE  TypeOK'
  BY <1>2 DEF Completes
<1> QED
  BY <1>1, <1>2 DEF Hand

\* What is found are some of the bridges, so they can be put in a sequence.
LEMMA FoundAsSeq ==
    ASSUME NEW S \in SUBSET Found
    PROVE  /\ SetToSeq(S) \in Seq(Bridges) /\ IsInjective(SetToSeq(S))
           /\ Range(SetToSeq(S)) = S
<1>1. S \subseteq Bridges /\ IsFiniteSet(S)
  BY RegistryAssumption, FS_Subset DEF Found
<1>2. SetToSeq(S) \in Seq(S) /\ IsInjective(SetToSeq(S)) /\ Range(SetToSeq(S)) = S
  BY <1>1, SetAsSeq
<1> QED
  BY <1>1, <1>2

LEMMA ReconcilesType ==
    ASSUME TypeOK, Reconciles
    PROVE  TypeOK' /\ Listed' = Listed \cup (Found \ Listed)
<1> DEFINE new == Found \ Listed
           q == SetToSeq(new)
<1>1. q \in Seq(Bridges) /\ IsInjective(q) /\ Range(q) = new
  BY FoundAsSeq
<1>2. list \in Seq(Bridges) /\ IsInjective(list)
  BY DEF TypeOK
<1>3. list' = list \o q
  BY DEF Reconciles, ListedLast
<1> HIDE DEF q
<1>4. list' \in Seq(Bridges) /\ IsInjective(list')
  BY <1>1, <1>2, <1>3, Joined DEF Listed
<1>5. Listed' = Listed \cup new
  BY <1>1, <1>2, <1>3, RangeConcatenation DEF Listed
<1> QED
  BY <1>4, <1>5 DEF Reconciles, TypeOK, pollVars, mediaVars, wrapperVars

LEMMA DropsType ==
    ASSUME TypeOK, NEW i \in DOMAIN list, Drops(i)
    PROVE  TypeOK' /\ Listed' \subseteq Listed
<1>1. list \in Seq(Bridges) /\ IsInjective(list)
  BY DEF TypeOK
<1>2. /\ list' \in Seq(Bridges) /\ IsInjective(list')
      /\ Listed' \subseteq Listed /\ Listed \ {list[i]} \subseteq Listed'
  BY <1>1, Removed DEF Drops, Listed
<1>3. list[i] \in Bridges
  BY <1>1, ElementOfSeq, LenProperties
<1> QED
  BY <1>2, <1>3 DEF Drops, TypeOK, wrapperVars

LEMMA ConnectsType ==
    ASSUME TypeOK, Connects
    PROVE  TypeOK' /\ Listed' = Found
<1>1. /\ list' \in Seq(Bridges) /\ IsInjective(list') /\ Listed' = Found
  BY FoundAsSeq DEF Connects, Listed
<1>2. there = {} \/ there \subseteq Found
  BY DEF TypeOK, Connects, Listed, Range
<1> QED
  BY <1>1, <1>2 DEF Connects, TypeOK, pollVars, mediaVars, wrapperVars

LEMMA PollType == ASSUME TypeOK, Poll
                  PROVE  TypeOK'
<1> USE DEF TypeOK, wrapperVars, dirVars, mediaVars, Listed
<1>1. CASE Sweeps
  BY <1>1, EmptySeq DEF Sweeps
<1>2. CASE Visits
  <2>1. list[next] \in Bridges
    BY <1>2, ElementOfSeq DEF Visits
  <2>2. seen' \in Seq(Bridges)
    BY <1>2, <2>1, AppendProperties DEF Visits
  <2>3. \A m \in Msgs : Handed(m) \in {"whole", "bare", "other"}
    BY DEF Handed
  <2>4. /\ msg' \in [Msgs -> {"out", "fetched", "inbox", "left", "whole", "bare", "other"}]
        /\ at' \in {"sweep", "await"}
    BY <1>2, <2>3 DEF Visits
  <2> QED
    BY <1>2, <2>2, <2>4 DEF Visits
<1>3. CASE SweepEnds
  BY <1>3, EmptySeq DEF SweepEnds
<1> QED
  BY <1>1, <1>2, <1>3 DEF Poll

LEMMA BreaksType == TypeOK /\ Breaks => TypeOK'
<1> SUFFICES ASSUME TypeOK, Breaks
             PROVE  TypeOK'
  OBVIOUS
<1>1. \A m \in Msgs : Handed(m) \in {"whole", "bare", "other"}
  BY DEF Handed
<1>2. msg' \in [Msgs -> {"out", "fetched", "inbox", "left", "whole", "bare", "other"}]
  BY <1>1 DEF Breaks, TypeOK
<1>3. faults' \in 0..MaxFaults
  BY FailsType DEF Breaks
<1>4. seen' \in Seq(Bridges)
  BY EmptySeq DEF Breaks
<1>5. /\ at' = "idle" /\ next' = 1 /\ there' = {} /\ removed' = 0
      /\ UNCHANGED <<manifest, run, beat, watch, runs, dir, status, media, old, on,
                     list, drops, away, cleaned>>
  BY DEF Breaks, wrapperVars, dirVars
<1> QED
  BY <1>2, <1>3, <1>4, <1>5 DEF TypeOK, Listed

LEMMA CrashesType == TypeOK /\ Crashes => TypeOK'
<1> SUFFICES ASSUME TypeOK, Crashes
             PROVE  TypeOK'
  OBVIOUS
<1>1. list' \in Seq(Bridges) /\ IsInjective(list') /\ seen' \in Seq(Bridges)
  BY EmptySeq DEF Crashes, IsInjective
<1>2. /\ old' \subseteq Files
      /\ msg' \in [Msgs -> {"out", "fetched", "inbox", "left", "whole", "bare", "other"}]
  BY DEF Crashes, TypeOK, Files
<1>3. there' \subseteq Listed' /\ drops' \subseteq Listed'
  BY DEF Crashes
<1>4. faults' \in 0..MaxFaults
  BY FailsType DEF Crashes
<1>5. /\ on' = FALSE /\ list' = <<>> /\ drops' = {} /\ at' = "idle" /\ next' = 1
      /\ removed' = 0
  BY DEF Crashes
<1>6. UNCHANGED <<manifest, run, beat, watch, runs, dir, status, media, away, cleaned>>
  BY DEF Crashes, wrapperVars, dirVars
<1>7. on' \in BOOLEAN
  BY <1>5
<1> QED
  BY <1>1, <1>2, <1>3, <1>4, <1>5, <1>6, <1>7 DEF TypeOK

LEMMA CleansType == TypeOK /\ Cleans => TypeOK'
BY DEF TypeOK, Cleans, adapterVars, pollVars, dirVars, wrapperVars, Listed

LEMMA StutterType == TypeOK /\ UNCHANGED vars => TypeOK'
BY DEF TypeOK, vars, adapterVars, pollVars, mediaVars, dirVars, wrapperVars, Listed

\* TypeOK: the registry, the directories, the wrappers and the adapter keep
\* their types, and no bridge is on the list twice.
THEOREM RegistryTypeCorrect == Spec => []TypeOK
<1>1. TypeOK /\ [Next]_vars => TypeOK'
  BY WrapperType, HeartbeatType, WatchType, MessageType, HandType, ReconcilesType,
     DropsType, ConnectsType, PollType, BreaksType, CrashesType, CleansType, StutterType
     DEF Next, Adapter, Unregister
<1> QED
  BY InitType, <1>1, PTL DEF Spec

----------------------------------------------------------------------------
(* What a reconcile can take. *)

\* Where a manifest was never away it is good or was never written, its bridge is
\* not about to be dropped, and a wrapper that runs has its directory.
Undisturbed(b) ==
    /\ manifest[b] \in {"none", "good"}
    /\ b \in Listed => manifest[b] = "good"
    /\ b \notin drops
    /\ run[b] # "down" => dir[b]

Quiet == \A b \in Bridges \ away : Undisturbed(b)

\* A file holds the attachment of a message that names it, and it does so for
\* each fetched message whose bridge was undisturbed.
Kept(m) ==
    msg[m] \in {"fetched", "inbox", "left"} /\ BridgeOf[m] \in Runners \ away /\ m \notin cleaned
        => media[FileOf[m]] # NoMsg

Stored ==
    /\ \A f \in Files : media[f] # NoMsg => FileOf[media[f]] = f
    /\ \A m \in Msgs : Kept(m)

RegistryInv == Quiet /\ Stored /\ AttachmentsHaveAReason

LEMMA InitInv == Init => RegistryInv
<1> SUFFICES ASSUME Init
             PROVE  RegistryInv
  OBVIOUS
<1>1. Quiet
  BY DEF Init, Quiet, Undisturbed, Listed, Range
<1>2. Stored
  BY DEF Init, Stored, Kept
<1>3. AttachmentsHaveAReason
  BY DEF Init, AttachmentsHaveAReason
<1> QED
  BY <1>1, <1>2, <1>3 DEF RegistryInv

\* The part on the manifests, for each kind of step.
LEMMA WrapperQuiet ==
    ASSUME TypeOK, Quiet, NEW b \in Runners, Wrapper(b) \/ Heartbeat(b) \/ Watch(b)
    PROVE  Quiet'
<1>0. b \in Bridges
  BY RegistryAssumption
<1> SUFFICES ASSUME NEW c \in Bridges, c \notin away'
             PROVE  Undisturbed(c)'
  BY DEF Quiet
<1>1. c \notin away => Undisturbed(c)
  BY DEF Quiet
<1> USE <1>0, <1>1 DEF TypeOK, adapterVars, dirVars, Listed, MakesDir, Ends, Undisturbed
<1>2. CASE Registers(b)
  BY <1>2 DEF Registers
<1>3. CASE Starts(b)
  BY <1>3 DEF Starts
<1>4. CASE Stops(b)
  BY <1>4 DEF Stops
<1>5. CASE Closes(b)
  BY <1>5 DEF Closes
<1>6. CASE Unregisters(b)
  BY <1>6 DEF Unregisters
<1>7. CASE Killed(b)
  BY <1>7 DEF Killed
<1>8. CASE BeatDir(b)
  BY <1>8 DEF BeatDir
<1>9. CASE Beats(b)
  BY <1>9 DEF Beats
<1>10. CASE Watch(b)
  BY <1>10 DEF Watch, SaysDir, SaysUp, SaysDown
<1> QED
  BY <1>2, <1>3, <1>4, <1>5, <1>6, <1>7, <1>8, <1>9, <1>10 DEF Wrapper, Heartbeat

LEMMA HandQuiet ==
    ASSUME TypeOK, Quiet, NEW b \in Bridges, Hand(b)
    PROVE  Quiet'
<1> SUFFICES ASSUME NEW c \in Bridges, c \notin away'
             PROVE  Undisturbed(c)'
  BY DEF Quiet
<1>1. c \notin away => Undisturbed(c)
  BY DEF Quiet
<1> USE <1>1 DEF TypeOK, adapterVars, dirVars, wrapperVars, Listed, Undisturbed
<1>2. ASSUME NEW content \in {"none", "torn"}, Edits(b, content)
      PROVE  Undisturbed(c)'
  BY <1>2 DEF Edits
<1>3. ASSUME NEW content \in {"good", "broken"}, Completes(b, content)
      PROVE  Undisturbed(c)'
  BY <1>3 DEF Completes
<1> QED
  BY <1>2, <1>3 DEF Hand

LEMMA ReconcilesQuiet == ASSUME TypeOK, Quiet, Reconciles
                         PROVE  Quiet'
<1> SUFFICES ASSUME NEW c \in Bridges, c \notin away'
             PROVE  Undisturbed(c)'
  BY DEF Quiet
<1>1. c \notin away /\ Undisturbed(c)
  BY DEF Quiet, Reconciles
<1>2. Listed' = Listed \cup (Found \ Listed)
  BY ReconcilesType
<1>3. c \in Found <=> manifest[c] = "good"
  BY DEF Found
<1>4. /\ drops' = Listed \ Found
      /\ dir' = [b \in Bridges |-> dir[b] \/ b \in Found \ Listed]
      /\ UNCHANGED <<manifest, run>>
  BY DEF Reconciles, wrapperVars
<1> QED
  BY <1>1, <1>2, <1>3, <1>4 DEF Undisturbed, TypeOK

LEMMA DropsQuiet == ASSUME TypeOK, Quiet, NEW i \in DOMAIN list, Drops(i)
                    PROVE  Quiet' /\ list[i] \in away
<1>1. list[i] \in drops /\ drops \subseteq Bridges
  BY RangeOfSeq DEF Drops, Goes, TypeOK, Listed
<1>2. list[i] \in away
  BY <1>1 DEF Quiet, Undisturbed
<1>3. Listed' \subseteq Listed
  BY DropsType
<1>4. /\ drops' \subseteq drops /\ dir' = [dir EXCEPT ![list[i]] = FALSE]
      /\ UNCHANGED <<manifest, run, away>>
  BY DEF Drops, wrapperVars
<1> QED
  BY <1>2, <1>3, <1>4 DEF Quiet, Undisturbed, TypeOK

LEMMA ConnectsQuiet == ASSUME TypeOK, Quiet, Connects
                       PROVE  Quiet'
<1>1. Listed' = Found
  BY ConnectsType
<1>2. /\ drops' = drops /\ dir' = [b \in Bridges |-> dir[b] \/ b \in Found]
      /\ UNCHANGED <<manifest, run, away>>
  BY DEF Connects, wrapperVars
<1> QED
  BY <1>1, <1>2 DEF Quiet, Undisturbed, Found, TypeOK

LEMMA CrashesQuiet == Quiet /\ Crashes => Quiet'
BY DEF Quiet, Undisturbed, Crashes, Listed, Range, wrapperVars, dirVars

\* The other steps leave alone what it is about.
LEMMA OtherQuiet ==
    ASSUME Quiet, UNCHANGED <<manifest, run, dir, list, drops, away>>
    PROVE  Quiet'
BY DEF Quiet, Undisturbed, Listed

\* The part on the attachments.
LEMMA WrapperStored ==
    ASSUME TypeOK, Stored, AttachmentsHaveAReason,
           NEW b \in Runners, Wrapper(b) \/ Heartbeat(b) \/ Watch(b)
    PROVE  Stored' /\ AttachmentsHaveAReason'
<1> DEFINE Same == \A m \in Msgs : msg'[m] = msg[m] \/ msg'[m] = "out"
<1>1. /\ UNCHANGED <<media, cleaned>> /\ away \subseteq away' /\ Same
  <2>1. Ends(b) => Same
    BY DEF Ends
  <2>2. UNCHANGED msg => Same
    OBVIOUS
  <2> QED
    BY <2>1, <2>2
       DEF Wrapper, Heartbeat, Registers, Starts, Stops, Closes, Unregisters, Killed,
           BeatDir, Beats, Watch, SaysDir, SaysUp, SaysDown, mediaVars
<1>2. Stored'
  BY <1>1 DEF Stored, Kept
<1>3. AttachmentsHaveAReason'
  BY <1>1 DEF AttachmentsHaveAReason
<1> QED
  BY <1>2, <1>3

LEMMA MessageStored ==
    ASSUME TypeOK, Stored, AttachmentsHaveAReason,
           NEW m \in Msgs, Delivers(m) \/ Sends(m) \/ (BridgeOf[m] \in Runners /\ Fetches(m))
    PROVE  Stored' /\ AttachmentsHaveAReason'
<1>1. FileOf[m] \in Files /\ m # NoMsg
  BY RegistryAssumption DEF Files, Msgs, NoMsg
<1>2. /\ msg' \in {[msg EXCEPT ![m] = "fetched"], [msg EXCEPT ![m] = "inbox"]}
      /\ UNCHANGED <<cleaned, away>>
  BY DEF Delivers, Sends, Fetches
<1>3. AttachmentsHaveAReason'
  BY <1>2 DEF AttachmentsHaveAReason, TypeOK
<1>4. CASE BridgeOf[m] \in Runners /\ Fetches(m)
  <2>1. media' = [media EXCEPT ![FileOf[m]] = m]
    BY <1>4 DEF Fetches
  <2>2. \A k \in Msgs : Kept(k)'
    BY <1>1, <1>2, <1>4, <2>1 DEF Stored, Kept, Fetches, TypeOK, Files
  <2> QED
    BY <1>1, <1>3, <2>1, <2>2 DEF Stored, TypeOK
<1>5. CASE Delivers(m)
  BY <1>3, <1>5 DEF Delivers, Stored, Kept, TypeOK
<1>6. CASE Sends(m)
  BY <1>3, <1>6 DEF Sends, Stored, Kept, TypeOK
<1> QED
  BY <1>4, <1>5, <1>6

\* Media that goes with a bridge goes with the bridge of all who name the file.
LEMMA DropsStored ==
    ASSUME TypeOK, Stored, AttachmentsHaveAReason,
           NEW i \in DOMAIN list, Drops(i), list[i] \in away
    PROVE  Stored' /\ AttachmentsHaveAReason'
<1>1. /\ media' = [f \in Files |->
                      IF \E m \in Msgs : FileOf[m] = f /\ BridgeOf[m] = list[i]
                      THEN NoMsg ELSE media[f]]
      /\ UNCHANGED <<msg, away, cleaned>>
  BY DEF Drops
<1>2. \A f \in Files : media'[f] # NoMsg => FileOf[media'[f]] = f
  BY <1>1 DEF Stored
<1>3. ASSUME NEW m \in Msgs, Kept(m)
      PROVE  Kept(m)'
  <2>1. FileOf[m] \in Files
    BY DEF Files
  <2>2. BridgeOf[m] \notin away =>
           ~ \E k \in Msgs : FileOf[k] = FileOf[m] /\ BridgeOf[k] = list[i]
    BY RegistryAssumption
  <2> QED
    BY <1>1, <1>3, <2>1, <2>2 DEF Kept
<1>4. AttachmentsHaveAReason'
  BY <1>1 DEF AttachmentsHaveAReason
<1> QED
  BY <1>2, <1>3, <1>4 DEF Stored

LEMMA CleansStored ==
    ASSUME TypeOK, Stored, AttachmentsHaveAReason, Cleans
    PROVE  Stored' /\ AttachmentsHaveAReason'
<1>1. /\ media' = [f \in Files |-> IF f \in old THEN NoMsg ELSE media[f]]
      /\ cleaned' = cleaned \cup {m \in Msgs : FileOf[m] \in old}
      /\ UNCHANGED <<msg, away>>
  BY DEF Cleans, adapterVars
<1>2. \A m \in Msgs : FileOf[m] \in Files
  BY DEF Files
<1>3. Stored'
  BY <1>1, <1>2 DEF Stored, Kept
<1>4. AttachmentsHaveAReason'
  BY <1>1 DEF AttachmentsHaveAReason
<1> QED
  BY <1>3, <1>4

\* What the poll hands over without its attachment has a reason to be.
LEMMA VisitsStored ==
    ASSUME TypeOK, Stored, AttachmentsHaveAReason, Visits \/ Breaks
    PROVE  Stored' /\ AttachmentsHaveAReason'
<1>1. /\ \A m \in Msgs :
            msg'[m] = msg[m] \/ (msg[m] = "inbox" /\ msg'[m] \in {Handed(m), "left"})
      /\ UNCHANGED <<media, away, cleaned>>
  BY DEF Visits, Breaks, Waiting, TypeOK
<1>2. \A m \in Msgs : Handed(m) \in {"whole", "bare", "other"}
  BY DEF Handed
<1>3. Stored'
  BY <1>1, <1>2 DEF Stored, Kept
<1>4. ASSUME NEW m \in Msgs, msg[m] = "inbox", Handed(m) = "bare"
      PROVE  BridgeOf[m] \in away \/ m \in cleaned
  <2>1. BridgeOf[m] \in Runners /\ media[FileOf[m]] = NoMsg
    BY <1>4 DEF Handed
  <2> QED
    BY <1>4, <2>1 DEF Stored, Kept
<1>5. ASSUME NEW m \in Msgs, msg[m] = "inbox", Handed(m) = "other"
      PROVE  \E k \in Msgs \ {m} : FileOf[k] = FileOf[m]
  <2>1. media[FileOf[m]] # m /\ media[FileOf[m]] # NoMsg
    BY <1>5 DEF Handed
  <2>2. FileOf[m] \in Files /\ media[FileOf[m]] \in Msgs
    BY <2>1 DEF Files, TypeOK
  <2> QED
    BY <2>1, <2>2 DEF Stored
<1>6. AttachmentsHaveAReason'
  BY <1>1, <1>4, <1>5 DEF AttachmentsHaveAReason
<1> QED
  BY <1>3, <1>6

\* A message that was left waits like any other.
LEMMA CrashesStored ==
    ASSUME TypeOK, Stored, AttachmentsHaveAReason, Crashes
    PROVE  Stored' /\ AttachmentsHaveAReason'
<1>1. /\ \A m \in Msgs : msg'[m] = msg[m] \/ (msg[m] = "left" /\ msg'[m] = "inbox")
      /\ UNCHANGED <<media, away, cleaned>>
  BY DEF Crashes, TypeOK
<1> QED
  BY <1>1 DEF Stored, Kept, AttachmentsHaveAReason

\* The other steps only add to the bridges that were away.
LEMMA OtherStored ==
    ASSUME Stored, AttachmentsHaveAReason, UNCHANGED <<media, msg, cleaned>>,
           away \subseteq away'
    PROVE  Stored' /\ AttachmentsHaveAReason'
BY DEF Stored, Kept, AttachmentsHaveAReason

LEMMA StepInv == TypeOK /\ RegistryInv /\ [Next]_vars => RegistryInv'
<1> SUFFICES ASSUME TypeOK, Quiet, Stored, AttachmentsHaveAReason, [Next]_vars
             PROVE  Quiet' /\ Stored' /\ AttachmentsHaveAReason'
  BY DEF RegistryInv
<1>1. ASSUME NEW b \in Runners, Wrapper(b) \/ Heartbeat(b) \/ Watch(b)
      PROVE  Quiet' /\ Stored' /\ AttachmentsHaveAReason'
  BY <1>1, WrapperQuiet, WrapperStored
<1>2. ASSUME NEW m \in Msgs,
             Delivers(m) \/ Sends(m) \/ (BridgeOf[m] \in Runners /\ Fetches(m))
      PROVE  Quiet' /\ Stored' /\ AttachmentsHaveAReason'
  <2>1. UNCHANGED <<manifest, run, dir, list, drops, away>>
    BY <1>2 DEF Delivers, Sends, Fetches, wrapperVars, dirVars, adapterVars
  <2> QED
    BY <1>2, <2>1, OtherQuiet, MessageStored
<1>3. ASSUME NEW b \in Bridges, Hand(b)
      PROVE  Quiet' /\ Stored' /\ AttachmentsHaveAReason'
  <2>1. UNCHANGED <<media, msg, cleaned>> /\ away \subseteq away'
    BY <1>3 DEF Hand, Edits, Completes, mediaVars
  <2> QED
    BY <1>3, <2>1, HandQuiet, OtherStored
<1>4. CASE Reconciles
  <2>1. UNCHANGED <<media, msg, cleaned, away>>
    BY <1>4 DEF Reconciles, mediaVars
  <2> QED
    BY <1>4, <2>1, ReconcilesQuiet, OtherStored
<1>5. ASSUME NEW i \in DOMAIN list, Drops(i)
      PROVE  Quiet' /\ Stored' /\ AttachmentsHaveAReason'
  BY <1>5, DropsQuiet, DropsStored
<1>6. CASE Crashes
  BY <1>6, CrashesQuiet, CrashesStored
<1>7. CASE Connects
  <2>1. UNCHANGED <<media, msg, cleaned, away>>
    BY <1>7 DEF Connects, mediaVars
  <2> QED
    BY <1>7, <2>1, ConnectsQuiet, OtherStored
<1>8. CASE Cleans
  <2>1. UNCHANGED <<manifest, run, dir, list, drops, away>>
    BY <1>8 DEF Cleans, wrapperVars, dirVars, adapterVars
  <2> QED
    BY <1>8, <2>1, OtherQuiet, CleansStored
<1>9. CASE Poll \/ Breaks
  <2>1. UNCHANGED <<manifest, run, dir, list, drops, away>>
    BY <1>9 DEF Poll, Sweeps, Visits, SweepEnds, Breaks, wrapperVars, dirVars
  <2>2. CASE Visits \/ Breaks
    BY <2>1, <2>2, OtherQuiet, VisitsStored
  <2>3. CASE Sweeps \/ SweepEnds
    <3>1. UNCHANGED <<media, msg, cleaned>>
      BY <2>3 DEF Sweeps, SweepEnds, mediaVars
    <3> QED
      BY <2>1, <3>1, OtherQuiet, OtherStored
  <2> QED
    BY <1>9, <2>2, <2>3 DEF Poll
<1>10. CASE UNCHANGED vars
  <2>1. UNCHANGED <<manifest, run, dir, list, drops, away, media, msg, cleaned>>
    BY <1>10 DEF vars, wrapperVars, dirVars, mediaVars, adapterVars
  <2> QED
    BY <2>1, OtherQuiet, OtherStored
<1>11. CASE Adapter
  BY <1>4, <1>5, <1>6, <1>7, <1>8, <1>9, <1>11, Zenon DEF Adapter, Unregister
<1>12. CASE Next
  <2>1. CASE \E b \in Runners : Wrapper(b) \/ Heartbeat(b) \/ Watch(b)
    BY <1>1, <2>1, Zenon
  <2>2. CASE \E b \in Bridges : Hand(b)
    BY <1>3, <2>2, Zenon
  <2>3. CASE \E m \in Msgs :
                Delivers(m) \/ Sends(m) \/ (BridgeOf[m] \in Runners /\ Fetches(m))
    BY <1>2, <2>3, Zenon
  <2> QED
    BY <1>11, <1>12, <2>1, <2>2, <2>3 DEF Next
<1> QED
  BY <1>10, <1>12

LEMMA Invariance == Spec => [](TypeOK /\ RegistryInv)
<1>1. RegistryInv /\ TypeOK /\ TypeOK' /\ [Next]_vars => RegistryInv'
  BY StepInv
<1> QED
  BY InitInv, RegistryTypeCorrect, <1>1, PTL DEF Spec

\* AttachmentsHaveAReason: a fetched attachment is lost only where the manifest
\* was away or the file grew too old, never by a kill, a restart of the adapter
\* or another bridge, and only namesakes are mistaken for each other.
THEOREM AttachmentsKept == Spec => []AttachmentsHaveAReason
<1>1. TypeOK /\ RegistryInv => AttachmentsHaveAReason
  BY DEF RegistryInv
<1> QED
  BY Invariance, <1>1, PTL

\* TornHasAReason: the directory of a status write is missing only after the
\* manifest of the bridge was away.
THEOREM WritesUndisturbed == Spec => []TornHasAReason
<1>1. ASSUME TypeOK, RegistryInv, NEW b \in Bridges, b \notin away,
             \/ run[b] \in {"dir", "closing"} \/ beat[b] = "dir"
             \/ watch[b] \in {"upDir", "downDir"}
      PROVE  dir[b]
  <2>1. run[b] # "down"
    BY <1>1 DEF TypeOK
  <2> QED
    BY <1>1, <2>1 DEF RegistryInv, Quiet, Undisturbed
<1>2. TypeOK /\ RegistryInv => TornHasAReason
  BY <1>1 DEF TornHasAReason
<1> QED
  BY Invariance, <1>2, PTL

----------------------------------------------------------------------------
(* What a sweep misses. *)

\* The bridges the sweep in progress is past, and those of them it missed.
Passed == {list[p] : p \in {q \in DOMAIN list : q < next}}

Missed == (there \cap Passed) \ Range(seen)

\* What was visited and is still there lies behind the sweep, so that it is not met
\* again, and each removal moved at most one bridge past its turn.
SweepInv ==
    /\ \A p \in DOMAIN list : list[p] \in there \cap Range(seen) => p < next
    /\ \A i, j \in DOMAIN seen : seen[i] = seen[j] /\ seen[i] \in there => i = j
    /\ Cardinality(Missed) <= removed

LEMMA Fewer ==
    ASSUME NEW S \in SUBSET Bridges, NEW T \in SUBSET S
    PROVE  /\ Cardinality(S) \in Nat /\ Cardinality(T) \in Nat
           /\ Cardinality(T) <= Cardinality(S)
<1>1. IsFiniteSet(S)
  BY RegistryAssumption, FS_Subset
<1>2. IsFiniteSet(T) /\ Cardinality(T) <= Cardinality(S)
  BY <1>1, FS_Subset
<1> QED
  BY <1>1, <1>2, FS_CardinalityType

LEMMA OneMore ==
    ASSUME NEW S \in SUBSET Bridges, NEW b \in Bridges, NEW T \in SUBSET (S \cup {b})
    PROVE  Cardinality(T) <= Cardinality(S) + 1
<1>1. IsFiniteSet(S)
  BY RegistryAssumption, FS_Subset
<1>2. Cardinality(S) \in Nat /\ Cardinality(S \cup {b}) <= Cardinality(S) + 1
  <2>1. Cardinality(S \cup {b}) =
           IF b \in S THEN Cardinality(S) ELSE Cardinality(S) + 1
    BY <1>1, FS_AddElement
  <2>2. Cardinality(S) \in Nat
    BY Fewer
  <2> QED
    BY <2>1, <2>2
<1>3. /\ Cardinality(S \cup {b}) \in Nat /\ Cardinality(T) \in Nat
      /\ Cardinality(T) <= Cardinality(S \cup {b})
  <2>1. S \cup {b} \in SUBSET Bridges
    OBVIOUS
  <2> QED
    BY <2>1, Fewer
<1> QED
  BY <1>2, <1>3

LEMMA InitSweep == Init => SweepInv
<1> SUFFICES ASSUME Init
             PROVE  SweepInv
  OBVIOUS
<1>1. list = <<>> /\ seen = <<>> /\ there = {} /\ removed = 0
  BY DEF Init
<1>2. Missed = {}
  BY <1>1 DEF Missed
<1> QED
  BY <1>1, <1>2, FS_EmptySet DEF SweepInv

\* Nobody is there when no sweep is in progress.
LEMMA NobodyThere ==
    ASSUME there' = {}, removed' \in Nat
    PROVE  SweepInv'
<1>1. Missed' = {}
  BY DEF Missed
<1> QED
  BY <1>1, FS_EmptySet DEF SweepInv

LEMMA SameSweep ==
    ASSUME SweepInv, UNCHANGED <<list, next, there, seen, removed>>
    PROVE  SweepInv'
<1>1. Missed' = Missed
  BY DEF Missed, Passed
<1> QED
  BY <1>1 DEF SweepInv

LEMMA SweepsSweep == TypeOK /\ Sweeps => SweepInv'
<1> SUFFICES ASSUME TypeOK, Sweeps
             PROVE  SweepInv'
  OBVIOUS
<1>1. next' = 1 /\ seen' = <<>> /\ removed' = 0 /\ list' = list /\ list \in Seq(Bridges)
  BY DEF Sweeps, TypeOK
<1>2. DOMAIN list = 1..Len(list) /\ Len(list) \in Nat
  BY <1>1, LenProperties
<1>3. Passed' = {}
  BY <1>1, <1>2 DEF Passed
<1>4. Missed' = {}
  BY <1>3 DEF Missed
<1>5. Range(seen') = {} /\ DOMAIN seen' = {}
  BY <1>1 DEF Range
<1> QED
  BY <1>1, <1>4, <1>5, FS_EmptySet DEF SweepInv

LEMMA VisitsSweep == TypeOK /\ SweepInv /\ Visits => SweepInv'
<1> SUFFICES ASSUME TypeOK, SweepInv, Visits
             PROVE  SweepInv'
  OBVIOUS
<1> DEFINE b == list[next]
<1>1. /\ next \in Nat \ {0} /\ next <= Len(list) /\ next' = next + 1
      /\ seen' = Append(seen, b) /\ UNCHANGED <<list, there, removed>>
      /\ list \in Seq(Bridges) /\ seen \in Seq(Bridges) /\ IsInjective(list)
      /\ removed \in Nat
  BY DEF Visits, TypeOK
<1>2. DOMAIN list = 1..Len(list) /\ Len(list) \in Nat /\ next \in DOMAIN list
  BY <1>1, LenProperties
<1>3. b \in Bridges
  BY <1>1, <1>2, ElementOfSeq
<1>4. /\ Len(seen) \in Nat /\ DOMAIN seen = 1..Len(seen)
      /\ DOMAIN seen' = 1..Len(seen) + 1
      /\ seen'[Len(seen) + 1] = b
      /\ \A k \in 1..Len(seen) : seen'[k] = seen[k]
  BY <1>1, <1>3, AppendProperties, LenProperties
<1>5. Range(seen') = Range(seen) \cup {b}
  BY <1>4 DEF Range
<1>6. b \in there => b \notin Range(seen)
  BY <1>1, <1>2 DEF SweepInv
<1>7. Passed' = Passed \cup {b}
  BY <1>1, <1>2 DEF Passed
<1> HIDE DEF b
<1>8. ASSUME NEW p \in DOMAIN list', list'[p] \in there' \cap Range(seen')
      PROVE  p < next'
  <2>1. CASE list[p] \in Range(seen)
    BY <1>1, <1>2, <1>8, <2>1 DEF SweepInv
  <2>2. CASE list[p] = b
    <3>1. p = next
      BY <1>1, <1>2, <2>2 DEF IsInjective, b
    <3> QED
      BY <1>1, <3>1
  <2> QED
    BY <1>1, <1>5, <1>8, <2>1, <2>2
<1>9. ASSUME NEW i \in DOMAIN seen', NEW j \in DOMAIN seen',
             seen'[i] = seen'[j], seen'[i] \in there'
      PROVE  i = j
  <2>1. CASE i \in DOMAIN seen /\ j \in DOMAIN seen
    BY <1>1, <1>4, <1>9, <2>1 DEF SweepInv
  <2>2. ASSUME NEW k \in DOMAIN seen, seen[k] = b, b \in there
        PROVE  FALSE
    BY <1>6, <2>2 DEF Range
  <2>3. CASE i = Len(seen) + 1 /\ j \in DOMAIN seen
    BY <1>1, <1>4, <1>9, <2>2, <2>3
  <2>4. CASE j = Len(seen) + 1 /\ i \in DOMAIN seen
    BY <1>1, <1>4, <1>9, <2>2, <2>4
  <2> QED
    BY <1>4, <2>1, <2>3, <2>4
<1>10. Missed' \subseteq Missed
  BY <1>1, <1>5, <1>7 DEF Missed
<1>11. Missed \in SUBSET Bridges
  BY DEF Missed, TypeOK, Listed, Range
<1>12. Cardinality(Missed') <= removed'
  <2>1. /\ Cardinality(Missed) \in Nat /\ Cardinality(Missed') \in Nat
        /\ Cardinality(Missed') <= Cardinality(Missed)
    BY <1>10, <1>11, Fewer
  <2>2. Cardinality(Missed) <= removed /\ removed' = removed
    BY <1>1 DEF SweepInv
  <2> QED
    BY <1>1, <2>1, <2>2
<1> QED
  BY <1>8, <1>9, <1>12 DEF SweepInv

LEMMA ReconcilesSweep == TypeOK /\ SweepInv /\ Reconciles => SweepInv'
<1> SUFFICES ASSUME TypeOK, SweepInv, Reconciles
             PROVE  SweepInv'
  OBVIOUS
<1> DEFINE new == SetToSeq(Found \ Listed)
<1>1. /\ list' = list \o new /\ UNCHANGED <<next, there, seen, removed>>
      /\ list \in Seq(Bridges) /\ removed \in Nat /\ there \subseteq Listed
  BY DEF Reconciles, ListedLast, TypeOK, pollVars
<1>2. new \in Seq(Bridges) /\ Range(new) \cap Listed = {}
  <2>1. IsFiniteSet(Found \ Listed) /\ Found \ Listed \subseteq Bridges
    BY RegistryAssumption, FS_Subset DEF Found
  <2>2. new \in Seq(Found \ Listed) /\ Range(new) = Found \ Listed
    BY <2>1, SetAsSeq
  <2>3. new \in Seq(Bridges)
    BY <2>1, <2>2, SeqDef
  <2> QED
    BY <2>2, <2>3
<1> HIDE DEF new
<1>3. /\ Len(list) \in Nat /\ Len(new) \in Nat /\ DOMAIN new = 1..Len(new)
      /\ DOMAIN list = 1..Len(list) /\ DOMAIN list' = 1..Len(list) + Len(new)
      /\ \A p \in 1..Len(list) + Len(new) :
            list'[p] = IF p <= Len(list) THEN list[p] ELSE new[p - Len(list)]
  BY <1>1, <1>2, ConcatProperties, LenProperties
<1>4. ASSUME NEW p \in DOMAIN list', list'[p] \in there
      PROVE  p \in DOMAIN list /\ list'[p] = list[p]
  <2>1. CASE p <= Len(list)
    BY <1>3, <2>1
  <2>2. CASE p > Len(list)
    <3>1. p - Len(list) \in DOMAIN new /\ list'[p] = new[p - Len(list)]
      BY <1>3, <2>2
    <3> QED
      BY <1>1, <1>2, <1>4, <3>1 DEF Range
  <2> QED
    BY <1>3, <2>1, <2>2
<1>5. Missed' \subseteq Missed
  BY <1>1, <1>4 DEF Missed, Passed
<1>6. Missed \in SUBSET Bridges
  BY DEF Missed, TypeOK, Listed, Range
<1>7. Cardinality(Missed') <= removed'
  BY <1>1, <1>5, <1>6, Fewer DEF SweepInv
<1> QED
  BY <1>1, <1>4, <1>7 DEF SweepInv

LEMMA DropsSweep == ASSUME TypeOK, SweepInv, NEW i \in DOMAIN list, Drops(i)
                    PROVE  SweepInv'
<1>1. /\ list' = RemoveAt(list, i) /\ UNCHANGED <<next, seen>>
      /\ there' = there \ {list[i]} /\ removed' = removed + 1
      /\ list \in Seq(Bridges) /\ removed \in Nat /\ next \in Nat
  BY DEF Drops, TypeOK
<1>2. DOMAIN list = 1..Len(list) /\ Len(list) \in Nat
  BY <1>1, LenProperties
<1>3. ASSUME NEW p \in DOMAIN list'
      PROVE  /\ p \in Nat
             /\ p < i => p \in DOMAIN list /\ list'[p] = list[p]
             /\ p >= i => p + 1 \in DOMAIN list /\ list'[p] = list[p + 1]
  <2>1. /\ DOMAIN list' = 1..Len(list) - 1
        /\ \A x \in 1..Len(list) - 1 :
              list'[x] = IF x < i THEN list[x] ELSE list[x + 1]
    BY <1>1, Shifted, LenProperties
  <2> QED
    BY <1>2, <2>1
<1>4. ASSUME NEW p \in DOMAIN list', list'[p] \in there' \cap Range(seen')
      PROVE  p < next'
  <2>1. CASE p < i
    BY <1>1, <1>3, <1>4, <2>1 DEF SweepInv
  <2>2. CASE p >= i
    <3>1. p + 1 \in DOMAIN list /\ list[p + 1] \in there \cap Range(seen)
      BY <1>1, <1>3, <1>4, <2>2
    <3>2. p + 1 < next
      BY <3>1 DEF SweepInv
    <3> QED
      BY <1>1, <1>3, <3>2
  <2> QED
    BY <1>2, <1>3, <2>1, <2>2
<1>5. \A k, j \in DOMAIN seen' : seen'[k] = seen'[j] /\ seen'[k] \in there' => k = j
  BY <1>1 DEF SweepInv
<1>6. Missed \in SUBSET Bridges
  BY DEF Missed, TypeOK, Listed, Range
<1>7. \A q \in DOMAIN list : list[q] \in Bridges
  BY <1>1, <1>3, ElementOfSeq
\* The bridge that was next may have moved past its turn.
<1>8. \E b \in Bridges : Missed' \subseteq Missed \cup {b}
  <2>1. ASSUME NEW p \in DOMAIN list', p < next
        PROVE  \E q \in DOMAIN list : q <= next /\ list'[p] = list[q]
    BY <1>1, <1>2, <1>3, <2>1
  <2>2. CASE next \in DOMAIN list
    <3>1. Passed' \subseteq Passed \cup {list[next]}
      BY <1>1, <1>3, <2>1 DEF Passed
    <3>2. Missed' \subseteq Missed \cup {list[next]}
      BY <1>1, <3>1 DEF Missed
    <3> QED
      BY <1>7, <2>2, <3>2
  <2>3. CASE next \notin DOMAIN list
    <3>1. Passed' \subseteq Passed
      BY <1>1, <1>3, <2>1, <2>3 DEF Passed
    <3>2. Missed' \subseteq Missed
      BY <1>1, <3>1 DEF Missed
    <3> QED
      BY <1>7, <3>2
  <2> QED
    BY <2>2, <2>3
<1>9. Cardinality(Missed') <= removed'
  <2>1. PICK b \in Bridges : Missed' \subseteq Missed \cup {b}
    BY <1>8
  <2>2. Cardinality(Missed') <= Cardinality(Missed) + 1
    BY <1>6, <2>1, OneMore
  <2>3. Cardinality(Missed) \in Nat /\ Cardinality(Missed') \in Nat
    <3>1. Missed' \in SUBSET (Missed \cup {b}) /\ Missed \cup {b} \in SUBSET Bridges
      BY <1>6, <2>1
    <3> QED
      BY <1>6, <3>1, Fewer
  <2> QED
    BY <1>1, <2>2, <2>3 DEF SweepInv
<1> QED
  BY <1>4, <1>5, <1>9 DEF SweepInv

LEMMA StepSweep == TypeOK /\ SweepInv /\ [Next]_vars => SweepInv'
<1> SUFFICES ASSUME TypeOK, SweepInv, [Next]_vars
             PROVE  SweepInv'
  OBVIOUS
<1>1. ASSUME NEW b \in Runners, Wrapper(b) \/ Heartbeat(b) \/ Watch(b)
      PROVE  UNCHANGED <<list, next, there, seen, removed>>
  BY <1>1 DEF Wrapper, Registers, Starts, Stops, Closes, Unregisters, Killed,
              Heartbeat, BeatDir, Beats, Watch, SaysDir, SaysUp, SaysDown,
              adapterVars, pollVars
<1>2. ASSUME NEW m \in Msgs,
             Delivers(m) \/ Sends(m) \/ (BridgeOf[m] \in Runners /\ Fetches(m))
      PROVE  UNCHANGED <<list, next, there, seen, removed>>
  BY <1>2 DEF Delivers, Sends, Fetches, adapterVars, pollVars
<1>3. ASSUME NEW b \in Bridges, Hand(b)
      PROVE  UNCHANGED <<list, next, there, seen, removed>>
  BY <1>3 DEF Hand, Edits, Completes, adapterVars, pollVars
<1>4. Adapter => SweepInv'
  <2>1. ASSUME NEW i \in DOMAIN list, Drops(i)
        PROVE  SweepInv'
    BY <2>1, DropsSweep
  <2>2. Crashes \/ SweepEnds \/ Breaks => SweepInv'
    BY NobodyThere DEF Crashes, SweepEnds, Breaks
  <2>3. Connects => SweepInv'
    <3>1. Connects => there' = {} /\ removed' = removed
      BY DEF Connects, TypeOK, Listed, Range, pollVars
    <3> QED
      BY <3>1, NobodyThere DEF TypeOK
  <2>4. Cleans => SweepInv'
    BY SameSweep DEF Cleans, adapterVars, pollVars
  <2> QED
    BY <2>1, <2>2, <2>3, <2>4, ReconcilesSweep, SweepsSweep, VisitsSweep
    DEF Adapter, Unregister, Poll
<1>5. UNCHANGED vars => SweepInv'
  BY SameSweep DEF vars, adapterVars, pollVars
<1>6. CASE Next
  <2>1. CASE \E b \in Runners : Wrapper(b) \/ Heartbeat(b) \/ Watch(b)
    BY <1>1, <2>1, SameSweep
  <2>2. CASE \E b \in Bridges : Hand(b)
    BY <1>3, <2>2, SameSweep
  <2>3. CASE \E m \in Msgs :
                Delivers(m) \/ Sends(m) \/ (BridgeOf[m] \in Runners /\ Fetches(m))
    BY <1>2, <2>3, SameSweep
  <2> QED
    BY <1>4, <1>6, <2>1, <2>2, <2>3 DEF Next
<1> QED
  BY <1>5, <1>6

\* SweepMissesFew: a sweep over the live list visits each bridge that stays on it
\* once, but for one bridge for each that is removed meanwhile.
THEOREM SweepsReachAll == Spec => SweepMissesFew
<1>1. ASSUME TypeOK, SweepInv, SweepEnds
      PROVE  /\ Cardinality(there \ Range(seen)) <= removed
             /\ \A i, j \in DOMAIN seen :
                   seen[i] = seen[j] /\ seen[i] \in there => i = j
  <2>1. list \in Seq(Bridges) /\ next > Len(list) /\ there \subseteq Range(list)
    BY <1>1 DEF TypeOK, SweepEnds, Listed
  <2>2. \A p \in DOMAIN list : p < next
    BY <1>1, <2>1, LenProperties DEF TypeOK
  <2>3. Missed = there \ Range(seen)
    BY <2>1, <2>2 DEF Missed, Passed, Range
  <2> QED
    BY <1>1, <2>3 DEF SweepInv
<1>2. TypeOK /\ SweepInv /\ [Next]_vars =>
         [SweepEnds =>
            /\ Cardinality(there \ Range(seen)) <= removed
            /\ \A i, j \in DOMAIN seen :
                  seen[i] = seen[j] /\ seen[i] \in there => i = j]_vars
  BY <1>1
<1> QED
  BY InitSweep, StepSweep, <1>2, RegistryTypeCorrect, PTL DEF Spec, SweepMissesFew

----------------------------------------------------------------------------
(* Identity claims: the claims, one by one and as sets. *)

LEMMA LeastId ==
    ASSUME NEW S, S \subseteq Nat, S # {}
    PROVE  \E k \in S : \A j \in S : k <= j
<1> DEFINE Less == {ss \in Nat \X Nat : ss[1] < ss[2]}
<1>1. IsWellFoundedOn(Less, Nat)
  BY NatLessThanWellFounded DEF OpToRel
<1> HIDE DEF Less
<1>2. \E x \in S : \A y \in S : ~ (<<y, x>> \in Less)
  BY <1>1, WFMin
<1>3. \A x, y \in S : <<y, x>> \notin Less => x <= y
  BY DEF Less
<1> QED
  BY <1>2, <1>3

LEMMA OldestIs ==
    ASSUME NEW S \in SUBSET ClaimType, S # {}
    PROVE  Oldest(S) \in S /\ \A d \in S : Oldest(S).id <= d.id
<1>1. Ids(S) \subseteq Nat /\ Ids(S) # {}
  BY DEF Ids, ClaimType
<1>2. PICK k \in Ids(S) : \A j \in Ids(S) : k <= j
  BY <1>1, LeastId
<1>3. \E c \in S : \A d \in S : c.id <= d.id
  BY <1>2 DEF Ids
<1> QED
  BY <1>3 DEF Oldest

\* A claim a tick later, and after a wrong code.
Aged(c) == [c EXCEPT !.left = IF @ = 0 THEN 0 ELSE @ - 1]

Tried(c, bridge) ==
    [c EXCEPT !.attempts = IF c \in Candidates(bridge) THEN @ + 1 ELSE @]

LEMMA AgedIs ==
    ASSUME NEW c \in ClaimType
    PROVE  /\ Aged(c) \in ClaimType /\ Aged(c).id = c.id /\ Aged(c).code = c.code
           /\ Aged(c).source = c.source /\ Aged(c).target = c.target
           /\ Aged(c).attempts = c.attempts
           /\ Open(Aged(c)) => Open(c)
BY ClaimAssumption DEF ClaimType, Aged, Open

LEMMA TriedIs ==
    ASSUME NEW c \in ClaimType, NEW bridge
    PROVE  /\ Tried(c, bridge).id = c.id /\ Tried(c, bridge).code = c.code
           /\ Tried(c, bridge).source = c.source /\ Tried(c, bridge).target = c.target
           /\ Tried(c, bridge).left = c.left
           /\ Tried(c, bridge).attempts
                = IF c \in Candidates(bridge) THEN c.attempts + 1 ELSE c.attempts
           /\ Tried(c, bridge).attempts < MaxAttempts => Tried(c, bridge) \in ClaimType
<1>1. CASE c \in Candidates(bridge)
  BY <1>1, ClaimAssumption DEF ClaimType, Tried
<1>2. CASE c \notin Candidates(bridge)
  BY <1>2, ClaimAssumption DEF ClaimType, Tried
<1> QED
  BY <1>1, <1>2

\* Claims with ids of their own, up to the number made.
Numbered(S, n) ==
    /\ S \subseteq ClaimType
    /\ \A c, d \in S : c.id = d.id => c = d
    /\ \A c \in S : c.id <= n

LEMMA LaterNumbered ==
    ASSUME NEW n, NEW S, Numbered(S, n)
    PROVE  Numbered(Later(S), n) /\ \A d \in Later(S) : \E c \in S : d = Aged(c)
<1>1. \A d \in Later(S) : \E c \in S : d = Aged(c)
  BY DEF Later, Aged
<1>2. \A c \in S : c \in ClaimType
  BY DEF Numbered
<1>3. Later(S) \subseteq ClaimType
  BY <1>1, <1>2, AgedIs
<1>4. ASSUME NEW c \in Later(S), NEW d \in Later(S), c.id = d.id
      PROVE  c = d
  <2>1. PICK x \in S, y \in S : c = Aged(x) /\ d = Aged(y)
    BY <1>1
  <2>2. x.id = y.id
    BY <1>2, <1>4, <2>1, AgedIs
  <2> QED
    BY <2>1, <2>2 DEF Numbered
<1>5. ASSUME NEW d \in Later(S)
      PROVE  d.id <= n
  <2>1. PICK c \in S : d = Aged(c)
    BY <1>1
  <2> QED
    BY <1>2, <2>1, AgedIs DEF Numbered
<1> QED
  BY <1>1, <1>3, <1>4, <1>5 DEF Numbered

LEMMA TriedNumbered ==
    ASSUME NEW n, Numbered(claims, n), NEW bridge
    PROVE  /\ Numbered(AfterMiss(bridge), n)
           /\ \A d \in AfterMiss(bridge) : \E c \in claims :
                 d = Tried(c, bridge) /\ d.attempts < MaxAttempts
<1>1. \A d \in AfterMiss(bridge) : \E c \in claims : d = Tried(c, bridge)
  BY DEF AfterMiss, Counted, Tried
<1>2. \A c \in claims : c \in ClaimType
  BY DEF Numbered
<1>3. ASSUME NEW d \in AfterMiss(bridge)
      PROVE  \E c \in claims : d = Tried(c, bridge) /\ d.attempts < MaxAttempts
  <2>1. PICK c \in claims : d = Tried(c, bridge)
    BY <1>1
  <2>2. c \in ClaimType
    BY <1>2
  <2>3. CASE c \in Candidates(bridge)
    <3>1. d.target.bridge = bridge
      BY <2>1, <2>2, <2>3, TriedIs DEF Candidates
    <3> QED
      BY <2>1, <3>1 DEF AfterMiss
  <2>4. CASE c \notin Candidates(bridge)
    BY <2>1, <2>2, <2>4, TriedIs, ClaimAssumption DEF ClaimType
  <2> QED
    BY <2>1, <2>3, <2>4
<1>4. AfterMiss(bridge) \subseteq ClaimType
  BY <1>2, <1>3, TriedIs
<1>5. ASSUME NEW c \in AfterMiss(bridge), NEW d \in AfterMiss(bridge), c.id = d.id
      PROVE  c = d
  <2>1. PICK x \in claims, y \in claims : c = Tried(x, bridge) /\ d = Tried(y, bridge)
    BY <1>1
  <2>2. x.id = y.id
    BY <1>2, <1>5, <2>1, TriedIs
  <2> QED
    BY <2>1, <2>2 DEF Numbered
<1>6. ASSUME NEW d \in AfterMiss(bridge)
      PROVE  d.id <= n
  <2>1. PICK c \in claims : d = Tried(c, bridge)
    BY <1>1
  <2> QED
    BY <1>2, <2>1, TriedIs DEF Numbered
<1> QED
  BY <1>3, <1>4, <1>5, <1>6 DEF Numbered

----------------------------------------------------------------------------
(* The identity map. *)

Bridged == {a.bridge : a \in Accounts}

\* What an entry declares for a bridge is one of its aliases.
EntryType ==
    {e \in [person : Users, aliases : SUBSET Users,
            wrappers : UNION {[bs -> Users] : bs \in SUBSET Bridged}] :
        \A b \in DOMAIN e.wrappers : e.wrappers[b] \in e.aliases}

LEMMA AccountParts ==
    ASSUME NEW a \in Accounts
    PROVE  a.user \in Users /\ a.bridge \in Bridged
BY DEF Users, Bridged

LEMMA FirstPlace ==
    ASSUME NEW S, S \subseteq Nat, S # {}
    PROVE  First(S) \in S /\ \A j \in S : First(S) <= j
BY LeastId DEF First

LEMMA MapParts ==
    ASSUME NEW map \in Seq(EntryType)
    PROVE  /\ DOMAIN map = 1..Len(map) /\ Len(map) \in Nat
           /\ \A i \in DOMAIN map : map[i] \in EntryType
BY LenProperties, ElementOfSeq

\* An entry matches the accounts that have one of its aliases, on any bridge.
LEMMA MatchesAlias ==
    ASSUME NEW e \in EntryType, NEW a
    PROVE  Matches(e, a) <=> a.user \in e.aliases
BY DEF Matches, EntryType

Naming(map, a) == {i \in DOMAIN map : Matches(map[i], a)}

LEMMA ResolveIs ==
    ASSUME NEW map \in Seq(EntryType), NEW a \in Accounts
    PROVE  /\ Naming(map, a) = {} => Resolve(map, a) = a.user
           /\ Naming(map, a) # {} =>
                 /\ First(Naming(map, a)) \in Naming(map, a)
                 /\ \A j \in Naming(map, a) : First(Naming(map, a)) <= j
                 /\ Resolve(map, a) = map[First(Naming(map, a))].person
           /\ Resolve(map, a) \in Users
<1>1. Naming(map, a) = {} => Resolve(map, a) = a.user
  BY DEF Naming, Resolve
<1>2. Naming(map, a) \subseteq DOMAIN map /\ Naming(map, a) \subseteq Nat
  BY MapParts DEF Naming
<1>3. ASSUME Naming(map, a) # {}
      PROVE  /\ First(Naming(map, a)) \in Naming(map, a)
             /\ \A j \in Naming(map, a) : First(Naming(map, a)) <= j
  BY <1>2, <1>3, FirstPlace
<1>4. Naming(map, a) # {} => Resolve(map, a) = map[First(Naming(map, a))].person
  BY DEF Naming, Resolve
<1>5. Resolve(map, a) \in Users
  <2>1. CASE Naming(map, a) = {}
    BY <1>1, <2>1, AccountParts
  <2>2. CASE Naming(map, a) # {}
    <3>1. map[First(Naming(map, a))] \in EntryType
      BY <1>2, <1>3, <2>2, MapParts
    <3> QED
      BY <1>4, <2>2, <3>1 DEF EntryType
  <2> QED
    BY <2>1, <2>2
<1> QED
  BY <1>1, <1>3, <1>4, <1>5

LEMMA DeclaringIs ==
    ASSUME NEW bs \in SUBSET Bridged, NEW w \in [bs -> Users], NEW a \in Accounts
    PROVE  /\ Declaring(w, a) \in UNION {[ds -> Users] : ds \in SUBSET Bridged}
           /\ DOMAIN Declaring(w, a) = bs \cup {a.bridge}
           /\ \A b \in bs \cup {a.bridge} :
                 Declaring(w, a)[b] = IF b = a.bridge THEN a.user ELSE w[b]
<1>1. bs \cup {a.bridge} \in SUBSET Bridged
  BY AccountParts
<1>2. Declaring(w, a) \in [bs \cup {a.bridge} -> Users]
  BY AccountParts DEF Declaring
<1> QED
  BY <1>1, <1>2 DEF Declaring

\* The entry that a merge makes of an entry, and a new one.
Joint(e, target) == [e EXCEPT !.aliases = @ \cup {target.user},
                              !.wrappers = Declaring(@, target)]

Couple(p, source, target) ==
    Entry(p, {source.user, target.user},
          Declaring([b \in {source.bridge} |-> source.user], target))

LEMMA TwoFields ==
    ASSUME NEW P, NEW A, NEW W, NEW e \in [person : P, aliases : A, wrappers : W],
           NEW x \in A, NEW y \in W, NEW r, r = [e EXCEPT !.aliases = x, !.wrappers = y]
    PROVE  /\ r \in [person : P, aliases : A, wrappers : W]
           /\ r.person = e.person /\ r.aliases = x /\ r.wrappers = y
OBVIOUS

LEMMA JointIs ==
    ASSUME NEW e \in EntryType, NEW t \in Accounts
    PROVE  /\ Joint(e, t) \in EntryType /\ Joint(e, t).person = e.person
           /\ Joint(e, t).aliases = e.aliases \cup {t.user}
<1>1. /\ e.person \in Users /\ e.aliases \in SUBSET Users
      /\ e = [person |-> e.person, aliases |-> e.aliases, wrappers |-> e.wrappers]
      /\ \A b \in DOMAIN e.wrappers : e.wrappers[b] \in e.aliases
  BY DEF EntryType
<1>2. PICK bs \in SUBSET Bridged : e.wrappers \in [bs -> Users]
  BY DEF EntryType
<1> DEFINE w == Declaring(e.wrappers, t)
<1>3. /\ w \in UNION {[ds -> Users] : ds \in SUBSET Bridged}
      /\ DOMAIN w = bs \cup {t.bridge}
      /\ \A b \in bs \cup {t.bridge} : w[b] = IF b = t.bridge THEN t.user ELSE e.wrappers[b]
  BY <1>2, DeclaringIs
<1> DEFINE all == e.aliases \cup {t.user}
<1>a. Joint(e, t) = [e EXCEPT !.aliases = all, !.wrappers = w]
  BY DEF Joint
<1> HIDE DEF w, all
<1> DEFINE r == Joint(e, t)
<1>4. e \in [person : Users, aliases : SUBSET Users,
             wrappers : UNION {[ds -> Users] : ds \in SUBSET Bridged}]
  BY DEF EntryType
<1>5. t.user \in Users
  BY AccountParts
<1>6. all \in SUBSET Users
  BY <1>1, <1>5 DEF all
<1> HIDE DEF r
<1>7. /\ r \in [person : Users, aliases : SUBSET Users,
                wrappers : UNION {[ds -> Users] : ds \in SUBSET Bridged}]
      /\ r.person = e.person /\ r.aliases = all /\ r.wrappers = w
  BY <1>3, <1>4, <1>6, <1>a, TwoFields DEF r
<1>8. \A b \in DOMAIN w : w[b] \in all
  BY <1>1, <1>2, <1>3 DEF all
<1> QED
  BY <1>7, <1>8 DEF EntryType, r, all

LEMMA CoupleIs ==
    ASSUME NEW p \in Users, NEW s \in Accounts, NEW t \in Accounts
    PROVE  /\ Couple(p, s, t) \in EntryType /\ Couple(p, s, t).person = p
           /\ Couple(p, s, t).aliases = {s.user, t.user}
<1> DEFINE v == [b \in {s.bridge} |-> s.user]
           w == Declaring(v, t)
<1>1. /\ s.user \in Users /\ t.user \in Users
      /\ {s.bridge} \in SUBSET Bridged /\ v \in [{s.bridge} -> Users]
  BY AccountParts
<1>2. v[s.bridge] = s.user
  OBVIOUS
<1> HIDE DEF v
<1>3. /\ w \in UNION {[ds -> Users] : ds \in SUBSET Bridged}
      /\ DOMAIN w = {s.bridge} \cup {t.bridge}
      /\ \A b \in {s.bridge} \cup {t.bridge} : w[b] = IF b = t.bridge THEN t.user ELSE v[b]
  BY <1>1, DeclaringIs
<1>4. Couple(p, s, t) = [person |-> p, aliases |-> {s.user, t.user}, wrappers |-> w]
  BY DEF Couple, Entry, v
<1> HIDE DEF w
<1>5. \A b \in DOMAIN w : w[b] \in {s.user, t.user}
  BY <1>2, <1>3
<1> QED
  BY <1>1, <1>3, <1>4, <1>5 DEF EntryType

\* A merge either adds the target to the entries of the source's person, or adds
\* an entry for a person that has none.
LEMMA MergedIs ==
    ASSUME NEW map \in Seq(EntryType), NEW s \in Accounts, NEW t \in Accounts
    PROVE  /\ Merged(map, s, t) \in Seq(EntryType)
           /\ \/ /\ \E i \in DOMAIN map : map[i].person = Resolve(map, s)
                 /\ DOMAIN Merged(map, s, t) = DOMAIN map
                 /\ \A i \in DOMAIN map :
                       Merged(map, s, t)[i] = IF map[i].person = Resolve(map, s)
                                              THEN Joint(map[i], t) ELSE map[i]
              \/ /\ \A i \in DOMAIN map : map[i].person # Resolve(map, s)
                 /\ DOMAIN Merged(map, s, t) = 1..(Len(map) + 1)
                 /\ \A i \in DOMAIN map : Merged(map, s, t)[i] = map[i]
                 /\ Merged(map, s, t)[Len(map) + 1] = Couple(Resolve(map, s), s, t)
<1> DEFINE p == Resolve(map, s)
           joined == [i \in DOMAIN map |-> IF map[i].person = p THEN Joint(map[i], t) ELSE map[i]]
<1>1. p \in Users
  BY ResolveIs
<1>2. CASE \E i \in DOMAIN map : map[i].person = p
  <2>1. Merged(map, s, t) = joined
    BY <1>2 DEF Merged, Joint
  <2>2. \A i \in DOMAIN map : joined[i] \in EntryType
    BY MapParts, JointIs
  <2>3. joined \in [1..Len(map) -> EntryType] /\ Len(map) \in Nat
    BY <2>2, MapParts
  <2>4. joined \in Seq(EntryType)
    BY <2>3, SeqDef
  <2> QED
    BY <1>2, <2>1, <2>4
<1>3. CASE ~ \E i \in DOMAIN map : map[i].person = p
  <2> DEFINE e == Couple(p, s, t)
  <2>1. e \in EntryType
    BY <1>1, CoupleIs
  <2>2. Merged(map, s, t) = Append(map, e)
    BY <1>3 DEF Merged, Couple
  <2> HIDE DEF e
  <2>3. /\ Append(map, e) \in Seq(EntryType)
        /\ DOMAIN Append(map, e) = 1..(Len(map) + 1)
        /\ \A i \in 1..Len(map) : Append(map, e)[i] = map[i]
        /\ Append(map, e)[Len(map) + 1] = e
    BY <2>1, AppendProperties, LenProperties
  <2> QED
    BY <1>3, <2>2, <2>3, MapParts DEF e
<1> QED
  BY <1>2, <1>3

----------------------------------------------------------------------------
(* Types of the claims. *)

Commands ==
    {NoItem} \cup [cmd : {"claim"}, source : Accounts, target : Accounts]
             \cup [cmd : {"confirm"}, sender : Accounts, code : Codes]

\* The number of wrong codes a claim can have counted.
ConfirmInHand == IF hand.cmd = "confirm" THEN 1 ELSE 0

\* The claims in memory are those of the file; nothing is known of a claim that
\* is yet to be made, and a claim misses at most once per confirm.
ClaimCore ==
    /\ ClaimTypeOK
    /\ hand \in Commands
    /\ Numbered(claims, made) /\ saved = claims
    /\ tried \subseteq 1..made
    /\ tried # {} => step = "answer" /\ hand.cmd = "confirm"
    /\ \A k \in 1..MaxClaims : /\ k > made => missed[k] = 0
                               /\ missed[k] + ConfirmInHand <= confirms
    /\ identity \in Seq(EntryType)

LEMMA CommandParts ==
    ASSUME hand \in Commands
    PROVE  /\ hand.cmd = "claim" => hand.source \in Accounts /\ hand.target \in Accounts
           /\ hand.cmd = "confirm" => hand.sender \in Accounts /\ hand.code \in Codes
           /\ hand.cmd = "none" <=> hand = NoItem
           /\ hand.cmd \in {"none", "claim", "confirm"}
BY DEF Commands, NoItem

LEMMA PersonsAreUsers ==
    ASSUME NEW map \in Seq(EntryType)
    PROVE  \A i \in DOMAIN map : map[i].person \in Users
BY MapParts DEF EntryType

LEMMA InitClaims == ClaimInit => ClaimCore
<1> SUFFICES ASSUME ClaimInit PROVE ClaimCore
  OBVIOUS
<1>1. Numbered(claims, made)
  BY DEF ClaimInit, Numbered
<1>2. identity \in Seq(EntryType) /\ DOMAIN identity = {}
  BY EmptySeq DEF ClaimInit
<1>3. hand \in Commands /\ hand.cmd = "none"
  BY DEF ClaimInit, Commands, NoItem
<1>4. ClaimTypeOK
  BY <1>2, ClaimAssumption DEF ClaimInit, ClaimTypeOK
<1> QED
  BY <1>1, <1>2, <1>3, <1>4, ClaimAssumption DEF ClaimInit, ClaimCore, ConfirmInHand

\* What a step may do to the claims and the map.
LEMMA CoreStep ==
    ASSUME ClaimCore, Numbered(claims, made)', saved' = claims',
           identity' \in Seq(EntryType), hand' \in Commands,
           step' \in {"new", "merged", "sending", "answer"},
           hand' = NoItem => step' = "new",
           made' \in 0..MaxClaims, confirms' \in 0..MaxConfirms,
           crashes' \in 0..MaxCrashes,
           missed' \in [1..MaxClaims -> 0..MaxConfirms],
           tried' \subseteq 1..made',
           tried' # {} => step' = "answer" /\ hand'.cmd = "confirm",
           \A k \in 1..MaxClaims : /\ k > made' => missed'[k] = 0
                                   /\ missed'[k] + ConfirmInHand' <= confirms'
    PROVE  ClaimCore'
<1>1. claims' \subseteq ClaimType /\ saved' \subseteq ClaimType
  BY DEF Numbered
<1>2. \A c, d \in claims' : c.id = d.id => c = d
  BY DEF Numbered
<1>3. \A i \in DOMAIN identity' : identity'[i].person \in Users
  BY PersonsAreUsers
<1>4. tried' \subseteq 1..MaxClaims
  BY ClaimAssumption
<1>5. ClaimTypeOK'
  BY <1>1, <1>2, <1>3, <1>4 DEF ClaimTypeOK
<1> QED
  BY <1>5 DEF ClaimCore

LEMMA TickCore == ASSUME ClaimCore, Tick PROVE ClaimCore'
<1>1. Numbered(claims', made') /\ saved' = claims'
  BY LaterNumbered DEF ClaimCore, Tick
<1> QED
  BY <1>1, CoreStep
  DEF ClaimCore, ClaimTypeOK, Tick, history, ConfirmInHand, Numbered

LEMMA ArrivesCore ==
    ASSUME ClaimCore,
           \/ \E a, b \in Accounts : ArrivesClaim(a, b)
           \/ \E a \in Accounts, c \in Codes : ArrivesConfirm(a, c)
    PROVE  ClaimCore'
<1>1. hand = NoItem /\ hand.cmd = "none" /\ ConfirmInHand = 0 /\ step = "new" /\ tried = {}
  BY DEF ClaimCore, ClaimTypeOK, ArrivesClaim, ArrivesConfirm, NoItem, ConfirmInHand
<1>2. CASE \E a, b \in Accounts : ArrivesClaim(a, b)
  <2>1. PICK a \in Accounts, b \in Accounts : ArrivesClaim(a, b)
    BY <1>2
  <2>2. hand' \in Commands /\ hand'.cmd = "claim" /\ ConfirmInHand' = 0
    BY <2>1 DEF ArrivesClaim, Commands, ConfirmInHand
  <2> QED
    BY <1>1, <2>1, <2>2, CoreStep
    DEF ClaimCore, ClaimTypeOK, ArrivesClaim, history, Numbered, NoItem
<1>3. CASE \E a \in Accounts, c \in Codes : ArrivesConfirm(a, c)
  <2>1. PICK a \in Accounts, c \in Codes : ArrivesConfirm(a, c)
    BY <1>3
  <2>2. hand' \in Commands /\ hand'.cmd = "confirm" /\ ConfirmInHand' = 1
    BY <2>1 DEF ArrivesConfirm, Commands, ConfirmInHand
  <2>3. confirms' \in 0..MaxConfirms /\ confirms' = confirms + 1 /\ confirms \in Nat
    BY <2>1, ClaimAssumption DEF ArrivesConfirm, ClaimCore, ClaimTypeOK
  <2>4. \A k \in 1..MaxClaims : missed'[k] + ConfirmInHand' <= confirms'
    BY <1>1, <2>1, <2>2, <2>3, ClaimAssumption
    DEF ArrivesConfirm, ClaimCore, ClaimTypeOK, history
  <2> QED
    BY <1>1, <2>1, <2>2, <2>3, <2>4, CoreStep
    DEF ClaimCore, ClaimTypeOK, ArrivesConfirm, history, Numbered, NoItem
<1> QED
  BY <1>2, <1>3

LEMMA ClaimsCore == ASSUME ClaimCore, Claims PROVE ClaimCore'
<1>1. PICK code \in Codes :
         claims' = claims \cup {[id |-> made + 1, code |-> code,
                                 source |-> hand.source, target |-> hand.target,
                                 left |-> Lifetime, attempts |-> 0]}
  BY DEF Claims
<1> DEFINE new == [id |-> made + 1, code |-> code,
                   source |-> hand.source, target |-> hand.target,
                   left |-> Lifetime, attempts |-> 0]
<1>2. made \in Nat /\ made + 1 \in 1..MaxClaims /\ made' = made + 1
  BY ClaimAssumption DEF ClaimCore, ClaimTypeOK, Claims
<1>3. hand.source \in Accounts /\ hand.target \in Accounts /\ hand # NoItem
  BY CommandParts DEF ClaimCore, Claims, NoItem
<1>4. new \in ClaimType /\ new.id = made + 1
  BY <1>2, <1>3, ClaimAssumption DEF ClaimType
<1>5. \A c \in claims : c \in ClaimType /\ c.id <= made /\ c.id \in Nat
  BY DEF ClaimCore, Numbered, ClaimType
<1> HIDE DEF new
<1>6. claims' = claims \cup {new}
  BY <1>1 DEF new
<1>7. Numbered(claims', made')
  BY <1>2, <1>4, <1>5, <1>6 DEF ClaimCore, Numbered
<1>8. tried = {}
  BY DEF ClaimCore, Claims
<1>9. \A k \in 1..MaxClaims : k > made' => k > made
  BY <1>2
<1> QED
  BY <1>2, <1>3, <1>7, <1>8, <1>9, CoreStep
  DEF ClaimCore, ClaimTypeOK, Claims, history, ConfirmInHand

LEMMA MatchedParts ==
    ASSUME ClaimCore, Matched # {}
    PROVE  /\ Oldest(Matched) \in Matched
           /\ \A d \in Matched : Oldest(Matched).id <= d.id
           /\ Matched \subseteq claims /\ Matched \subseteq ClaimType
           /\ \A c \in Matched : Open(c) /\ c.code = hand.code
<1>1. Matched \subseteq claims /\ \A c \in Matched : Open(c) /\ c.code = hand.code
  BY DEF Matched, Matching, Candidates
<1>2. Matched \in SUBSET ClaimType
  BY <1>1 DEF ClaimCore, Numbered
<1> QED
  BY <1>1, <1>2, OldestIs

LEMMA ConfirmsCore == ASSUME ClaimCore, Confirms PROVE ClaimCore'
<1>1. Matched # {}
  BY DEF Confirms
<1>2. /\ Oldest(Matched) \in ClaimType
      /\ identity' = Merged(identity, Oldest(Matched).source, Oldest(Matched).target)
  BY <1>1, MatchedParts DEF Confirms
<1>3. identity' \in Seq(EntryType)
  BY <1>2, MergedIs DEF ClaimCore, ClaimType
<1>4. hand.cmd = "confirm" /\ step = "new" /\ hand # NoItem
  BY DEF Confirms, Confirming, NoItem
<1> QED
  BY <1>3, <1>4, CoreStep
  DEF ClaimCore, ClaimTypeOK, Confirms, ConfirmInHand, Numbered

LEMMA FewerNumbered ==
    ASSUME NEW S, NEW T \in SUBSET S, NEW n, Numbered(S, n)
    PROVE  Numbered(T, n)
BY DEF Numbered

LEMMA DeletesCore == ASSUME ClaimCore, Deletes PROVE ClaimCore'
<1>1. Numbered(claims', made')
  BY FewerNumbered DEF ClaimCore, Deletes
<1>2. hand # NoItem /\ tried = {}
  BY DEF ClaimCore, ClaimTypeOK, Deletes
<1> QED
  BY <1>1, <1>2, CoreStep
  DEF ClaimCore, ClaimTypeOK, Deletes, history, ConfirmInHand

LEMMA RefusesCore == ASSUME ClaimCore, Refuses PROVE ClaimCore'
<1>1. hand # NoItem /\ tried = {}
  BY DEF ClaimCore, ClaimTypeOK, Refuses, Confirming, NoItem
<1> QED
  BY <1>1, CoreStep
  DEF ClaimCore, ClaimTypeOK, Refuses, history, ConfirmInHand, Numbered

LEMMA MissesCore == ASSUME ClaimCore, Misses PROVE ClaimCore'
<1>1. Numbered(claims', made')
  BY TriedNumbered DEF ClaimCore, Misses
<1>2. hand # NoItem /\ hand.cmd = "confirm"
  BY DEF ClaimCore, Misses, Confirming, NoItem
<1>3. \A c \in claims : c.id \in 1..made
  BY DEF ClaimCore, Numbered, ClaimType
<1>4. tried' \subseteq 1..made'
  BY <1>3 DEF Misses, Ids, Candidates
<1> QED
  BY <1>1, <1>2, <1>4, CoreStep
  DEF ClaimCore, ClaimTypeOK, Misses, ConfirmInHand

LEMMA AnswersCore == ASSUME ClaimCore, Answers PROVE ClaimCore'
<1>1. hand' \in Commands /\ hand'.cmd = "none" /\ ConfirmInHand' = 0
  BY DEF Answers, Commands, NoItem, ConfirmInHand
<1>2. missed \in [1..MaxClaims -> Nat] /\ confirms \in 0..MaxConfirms /\ made \in 0..MaxClaims
  BY ClaimAssumption DEF ClaimCore, ClaimTypeOK
<1>3. ASSUME NEW k \in 1..MaxClaims
      PROVE  /\ missed'[k] = IF k \in tried THEN missed[k] + 1 ELSE missed[k]
             /\ missed'[k] \in Nat /\ missed'[k] <= confirms
             /\ k > made => missed'[k] = 0
  <2>1. missed'[k] = IF k \in tried THEN missed[k] + 1 ELSE missed[k]
    BY <1>2 DEF Answers
  <2>2. missed[k] \in Nat /\ k > made => missed[k] = 0
    BY DEF ClaimCore
  <2>3. CASE k \in tried
    <3>1. ConfirmInHand = 1 /\ k <= made
      BY <1>2, <2>3 DEF ClaimCore, ConfirmInHand
    <3>2. missed[k] + ConfirmInHand <= confirms
      BY DEF ClaimCore
    <3> QED
      BY <1>2, <2>1, <2>3, <3>1, <3>2
  <2>4. CASE k \notin tried
    <3>1. missed[k] + ConfirmInHand <= confirms /\ ConfirmInHand \in {0, 1}
      BY DEF ClaimCore, ConfirmInHand
    <3> QED
      BY <1>2, <2>1, <2>2, <2>4, <3>1
  <2> QED
    BY <2>3, <2>4
<1>4. missed' \in [1..MaxClaims -> 0..MaxConfirms]
  <2>1. \A k \in 1..MaxClaims : missed'[k] \in 0..MaxConfirms
    BY <1>2, <1>3, ClaimAssumption
  <2>2. missed' = [k \in 1..MaxClaims |-> IF k \in tried THEN missed[k] + 1 ELSE missed[k]]
    BY <1>2 DEF Answers
  <2> QED
    BY <2>1, <2>2
<1>5. \A k \in 1..MaxClaims : /\ k > made' => missed'[k] = 0
                              /\ missed'[k] + ConfirmInHand' <= confirms'
  BY <1>1, <1>2, <1>3 DEF Answers
<1> QED
  BY <1>1, <1>4, <1>5, CoreStep DEF ClaimCore, ClaimTypeOK, Answers, Numbered

LEMMA GivesUpCore == ASSUME ClaimCore, GivesUp PROVE ClaimCore'
<1>1. hand' \in Commands /\ ConfirmInHand' = 0 /\ ConfirmInHand = 0 /\ step = "new" /\ tried = {}
  BY DEF ClaimCore, GivesUp, Commands, NoItem, ConfirmInHand
<1> QED
  BY <1>1, CoreStep DEF ClaimCore, ClaimTypeOK, GivesUp, history, Numbered

LEMMA CleansUpCore == ASSUME ClaimCore, CleansUp PROVE ClaimCore'
<1>1. Numbered(claims', made')
  BY FewerNumbered DEF ClaimCore, CleansUp
<1> QED
  BY <1>1, CoreStep
  DEF ClaimCore, ClaimTypeOK, CleansUp, history, ConfirmInHand

LEMMA KillsCore == ASSUME ClaimCore, Kills PROVE ClaimCore'
<1>1. crashes' \in 0..MaxCrashes
  BY ClaimAssumption DEF ClaimCore, ClaimTypeOK, Kills
<1> QED
  BY <1>1, CoreStep
  DEF ClaimCore, ClaimTypeOK, Kills, ConfirmInHand, Numbered

LEMMA CoreInvariant == ClaimCore /\ [ClaimNext]_claimVars => ClaimCore'
<1> SUFFICES ASSUME ClaimCore, [ClaimNext]_claimVars
             PROVE  ClaimCore'
  OBVIOUS
<1>1. CASE UNCHANGED claimVars
  BY <1>1, CoreStep
  DEF ClaimCore, ClaimTypeOK, claimVars, ConfirmInHand, Numbered
<1>2. CASE ClaimNext
  BY <1>2, TickCore, ArrivesCore, ClaimsCore, ConfirmsCore, DeletesCore, RefusesCore,
     MissesCore, AnswersCore, GivesUpCore, CleansUpCore, KillsCore
  DEF ClaimNext, Command
<1> QED
  BY <1>1, <1>2

\* Type correctness: with claims below the cap of attempts, each with an id of its
\* own.
THEOREM ClaimTypeCorrect == ClaimSpec => []ClaimTypeOK
<1>1. ClaimCore => ClaimTypeOK
  BY DEF ClaimCore
<1> QED
  BY <1>1, InitClaims, CoreInvariant, PTL DEF ClaimSpec

----------------------------------------------------------------------------
(* Attempts are misses. *)

\* A claim that the wrong code in hand was tried on has counted it already.
AttemptsInv ==
    \A c \in claims :
        /\ c.attempts >= missed[c.id] + IF c.id \in tried THEN 1 ELSE 0
        /\ c.attempts <= missed[c.id] + crashes + IF c.id \in tried THEN 1 ELSE 0

LEMMA CountParts ==
    ASSUME ClaimCore, NEW c \in claims
    PROVE  /\ c \in ClaimType /\ c.attempts \in Nat /\ c.id \in 1..MaxClaims /\ c.id <= made
           /\ missed[c.id] \in Nat /\ crashes \in Nat /\ made \in Nat
BY ClaimAssumption DEF ClaimCore, ClaimTypeOK, Numbered, ClaimType

\* What makes no difference to the counts, claim by claim.
LEMMA SameAttempts ==
    ASSUME ClaimCore, AttemptsInv, missed' = missed, tried' = tried, crashes' = crashes,
           \A d \in claims' : \E c \in claims : d.id = c.id /\ d.attempts = c.attempts
    PROVE  AttemptsInv'
BY DEF AttemptsInv

LEMMA TickClaims ==
    ASSUME ClaimCore, Tick
    PROVE  \A d \in claims' : \E c \in claims :
              /\ d.id = c.id /\ d.attempts = c.attempts
              /\ d.code = c.code /\ d.target = c.target /\ (Open(d) => Open(c))
<1>1. claims' = Later(claims) /\ Numbered(claims, made)
  BY DEF Tick, ClaimCore
<1> SUFFICES ASSUME NEW d \in Later(claims)
             PROVE  \E c \in claims :
                       /\ d.id = c.id /\ d.attempts = c.attempts
                       /\ d.code = c.code /\ d.target = c.target /\ (Open(d) => Open(c))
  BY <1>1
<1>2. PICK c \in claims : d = Aged(c)
  BY <1>1, LaterNumbered
<1> QED
  BY <1>2, AgedIs, CountParts

LEMMA AttemptsStep == ClaimCore /\ AttemptsInv /\ [ClaimNext]_claimVars => AttemptsInv'
<1> SUFFICES ASSUME ClaimCore, AttemptsInv, [ClaimNext]_claimVars
             PROVE  AttemptsInv'
  OBVIOUS
<1>1. CASE Tick
  <2>1. \A d \in claims' : \E c \in claims : d.id = c.id /\ d.attempts = c.attempts
    BY <1>1, TickClaims
  <2> QED
    BY <1>1, <2>1, SameAttempts DEF Tick, history
<1>2. CASE Claims
  <2>1. PICK code \in Codes :
           claims' = claims \cup {[id |-> made + 1, code |-> code,
                                   source |-> hand.source, target |-> hand.target,
                                   left |-> Lifetime, attempts |-> 0]}
    BY <1>2 DEF Claims
  <2>2. /\ missed' = missed /\ tried' = tried /\ crashes' = crashes /\ tried = {}
        /\ made + 1 \in 1..MaxClaims /\ made \in Nat /\ crashes \in Nat
    BY <1>2, ClaimAssumption DEF Claims, history, ClaimCore, ClaimTypeOK
  <2>3. missed[made + 1] = 0
    BY <2>2 DEF ClaimCore
  <2>4. ASSUME NEW d \in claims'
        PROVE  d \in claims \/ (d.id = made + 1 /\ d.attempts = 0)
    BY <2>1
  <2> QED
    BY <2>2, <2>3, <2>4 DEF AttemptsInv
<1>3. CASE Misses
  <2> DEFINE bridge == hand.sender.bridge
  <2>1. tried = {} /\ missed' = missed /\ crashes' = crashes
    BY <1>3 DEF Misses, Confirming, ClaimCore
  <2>2. tried' = Ids(Candidates(bridge)) /\ claims' = AfterMiss(bridge)
    BY <1>3 DEF Misses
  <2> HIDE DEF bridge
  <2>3. ASSUME NEW d \in claims'
        PROVE  /\ d.attempts >= missed[d.id] + (IF d.id \in tried' THEN 1 ELSE 0)
               /\ d.attempts <= missed[d.id] + crashes + IF d.id \in tried' THEN 1 ELSE 0
    <3>1. PICK c \in claims : d = Tried(c, bridge)
      BY <2>2, TriedNumbered DEF ClaimCore
    <3>2. d.id = c.id /\ d.attempts = IF c \in Candidates(bridge) THEN c.attempts + 1 ELSE c.attempts
      BY <3>1, CountParts, TriedIs
    <3>3. c.id \in tried' <=> c \in Candidates(bridge)
      BY <2>2 DEF Ids, Candidates, ClaimCore, Numbered
    <3>4. c.attempts >= missed[c.id] /\ c.attempts <= missed[c.id] + crashes
      BY <2>1, CountParts DEF AttemptsInv
    <3> QED
      BY <3>2, <3>3, <3>4, CountParts
  <2> QED
    BY <2>1, <2>3 DEF AttemptsInv
<1>4. CASE Answers
  <2>1. claims' = claims /\ crashes' = crashes /\ tried' = {}
    BY <1>4 DEF Answers
  <2>2. ASSUME NEW c \in claims
        PROVE  missed'[c.id] = IF c.id \in tried THEN missed[c.id] + 1 ELSE missed[c.id]
    BY <1>4, CountParts DEF Answers, ClaimCore, ClaimTypeOK
  <2> QED
    BY <2>1, <2>2, CountParts DEF AttemptsInv
<1>5. CASE Kills
  <2>1. claims' = claims /\ crashes' = crashes + 1 /\ tried' = {} /\ missed' = missed
    BY <1>5 DEF Kills, ClaimCore
  <2> QED
    BY <2>1, CountParts DEF AttemptsInv
<1>6. CASE Deletes \/ CleansUp
  <2>1. /\ claims' \subseteq claims
        /\ missed' = missed /\ tried' = tried /\ crashes' = crashes
    BY <1>6 DEF Deletes, CleansUp, history
  <2> QED
    BY <2>1, SameAttempts
<1>7. CASE \/ Confirms \/ Refuses \/ GivesUp \/ UNCHANGED claimVars
           \/ \E a, b \in Accounts : ArrivesClaim(a, b)
           \/ \E a \in Accounts, c \in Codes : ArrivesConfirm(a, c)
  <2>1. claims' = claims /\ missed' = missed /\ tried' = tried /\ crashes' = crashes
    BY <1>7 DEF Confirms, Refuses, GivesUp, claimVars, ArrivesClaim, ArrivesConfirm, history
  <2> QED
    BY <2>1, SameAttempts
<1> QED
  BY <1>1, <1>2, <1>3, <1>4, <1>5, <1>6, <1>7 DEF ClaimNext, Command

\* What a claim has counted are the wrong codes answered while it was open, and
\* besides at most one for each kill.
THEOREM MissesCount == ClaimSpec => []AttemptsAreMisses
<1>1. ClaimInit => AttemptsInv
  BY DEF ClaimInit, AttemptsInv
<1>2. ASSUME ClaimCore, AttemptsInv PROVE AttemptsAreMisses
  BY <1>2, CountParts DEF AttemptsInv, AttemptsAreMisses
<1>3. ClaimCore /\ AttemptsInv => AttemptsAreMisses
  BY <1>2
<1> QED
  BY <1>1, <1>3, InitClaims, CoreInvariant, AttemptsStep, PTL DEF ClaimSpec

----------------------------------------------------------------------------
(* A confirmed claim stays closed. *)

\* An open claim for which the map was merged is about to be deleted, or, after a
\* kill, its confirm is run again and will find it.
ClosingInv ==
    /\ lastMerge.id \in 0..made
    /\ step = "merged" => Matched # {} /\ lastMerge.id = Oldest(Matched).id
    /\ \A c \in claims : c.id = lastMerge.id /\ Open(c) =>
          /\ hand.cmd = "confirm" /\ step \in {"new", "merged"}
          /\ c.target = hand.sender /\ c \in Matched
          /\ \A d \in Matched : c.id <= d.id

\* The claim's confirm is in hand and will be run again, by claims that were
\* there before.
RunsAgain ==
    /\ hand' = hand /\ step' = "new"
    /\ \A d \in claims' : \E c \in claims :
          /\ d.id = c.id /\ d.code = c.code /\ d.target = c.target /\ (Open(d) => Open(c))

\* Steps that neither start nor end a merge.
LEMMA ClosingKept ==
    ASSUME ClaimCore, ClosingInv, lastMerge' = lastMerge, made' \in Nat, made' >= made,
           step' # "merged",
           \/ \A d \in claims' : ~ (d.id = lastMerge.id /\ Open(d))
           \/ RunsAgain
    PROVE  ClosingInv'
<1>1. lastMerge'.id \in 0..made'
  BY ClaimAssumption DEF ClosingInv, ClaimCore, ClaimTypeOK
<1>2. ASSUME NEW d \in claims', d.id = lastMerge'.id, Open(d)
      PROVE  /\ hand'.cmd = "confirm" /\ step' \in {"new", "merged"}
             /\ d.target = hand'.sender /\ d \in Matched'
             /\ \A e \in Matched' : d.id <= e.id
  <2>1. RunsAgain
    BY <1>2
  <2>2. PICK c \in claims : /\ c.id = d.id /\ Open(c) /\ d.target = c.target
                            /\ d.code = c.code
    BY <1>2, <2>1 DEF RunsAgain
  <2>3. /\ hand.cmd = "confirm" /\ c.target = hand.sender /\ c \in Matched
        /\ \A x \in Matched : c.id <= x.id
    BY <1>2, <2>2 DEF ClosingInv
  <2>4. hand' = hand /\ step' = "new"
    BY <2>1 DEF RunsAgain
  <2>5. d \in Matched'
    BY <1>2, <2>2, <2>3, <2>4 DEF Matched, Matching, Candidates, Open
  <2>6. ASSUME NEW e \in Matched'
        PROVE  d.id <= e.id
    <3>1. /\ e \in claims' /\ Open(e) /\ e.code = hand.code
          /\ e.target.bridge = hand.sender.bridge
      BY <2>4, <2>6 DEF Matched, Matching, Candidates, Open
    <3>2. PICK x \in claims : /\ e.id = x.id /\ e.code = x.code /\ e.target = x.target
                              /\ (Open(e) => Open(x))
      BY <2>1, <3>1 DEF RunsAgain
    <3>3. x \in Matched
      BY <3>1, <3>2 DEF Matched, Matching, Candidates
    <3> QED
      BY <2>2, <2>3, <3>2, <3>3
  <2> QED
    BY <2>2, <2>3, <2>4, <2>5, <2>6
<1> QED
  BY <1>1, <1>2 DEF ClosingInv

LEMMA ClosingStep == ClaimCore /\ ClosingInv /\ [ClaimNext]_claimVars => ClosingInv'
<1> SUFFICES ASSUME ClaimCore, ClosingInv, [ClaimNext]_claimVars
             PROVE  ClosingInv'
  OBVIOUS
<1>0. /\ made \in Nat /\ made \in 0..MaxClaims /\ MaxClaims \in Nat
      /\ \A c \in claims : c \in ClaimType
      /\ hand = NoItem => step = "new"
      /\ hand.cmd = "none" <=> hand = NoItem
  BY ClaimAssumption, CommandParts DEF ClaimCore, ClaimTypeOK, Numbered
<1>1. CASE Tick
  <2>1. /\ lastMerge' = lastMerge /\ made' = made /\ step' = step /\ hand' = hand
        /\ step # "merged"
    BY <1>1 DEF Tick, history
  <2>2. CASE step = "new"
    BY <1>0, <1>1, <2>1, <2>2, TickClaims, ClosingKept DEF RunsAgain
  <2>3. CASE step # "new"
    <3>1. ASSUME NEW d \in claims', d.id = lastMerge.id, Open(d)
          PROVE  FALSE
      <4>1. PICK c \in claims : d.id = c.id /\ (Open(d) => Open(c))
        BY <1>1, TickClaims
      <4> QED
        BY <2>1, <2>3, <3>1, <4>1 DEF ClosingInv
    <3> QED
      BY <1>0, <2>1, <3>1, ClosingKept
  <2> QED
    BY <2>2, <2>3
<1>2. CASE Claims
  <2>1. PICK code \in Codes :
           claims' = claims \cup {[id |-> made + 1, code |-> code,
                                   source |-> hand.source, target |-> hand.target,
                                   left |-> Lifetime, attempts |-> 0]}
    BY <1>2 DEF Claims
  <2>2. /\ lastMerge' = lastMerge /\ made' = made + 1 /\ step' = "sending"
        /\ hand.cmd = "claim"
    BY <1>2 DEF Claims, history
  <2>3. ASSUME NEW d \in claims', d.id = lastMerge.id, Open(d)
        PROVE  FALSE
    <3>1. lastMerge.id \in 0..made
      BY DEF ClosingInv
    <3>2. d \in claims
      BY <1>0, <2>1, <2>3, <3>1
    <3> QED
      BY <2>2, <2>3, <3>2 DEF ClosingInv
  <2> QED
    BY <1>0, <2>2, <2>3, ClosingKept
<1>3. CASE Confirms
  <2> DEFINE c == Oldest(Matched)
  <2>1. /\ Matched # {} /\ lastMerge'.id = c.id /\ c.target = hand.sender
        /\ step' = "merged" /\ claims' = claims /\ hand' = hand /\ made' = made
        /\ hand.cmd = "confirm"
    BY <1>3 DEF Confirms, Confirming
  <2>2. c \in Matched /\ c \in claims /\ c \in ClaimType
    BY <2>1, MatchedParts
  <2>3. Matched' = Matched
    BY <2>1 DEF Matched, Matching, Candidates, Open
  <2>4. Oldest(Matched)' = c
    BY <2>3
  <2> HIDE DEF c
  <2>5. c.id \in 0..made
    BY <1>0, <2>2 DEF ClaimCore, Numbered, ClaimType
  <2>6. \A d \in claims : d.id = c.id => d = c
    BY <2>2 DEF ClaimCore, Numbered
  <2>7. \A d \in Matched : c.id <= d.id
    BY <2>1, MatchedParts DEF c
  <2> QED
    BY <2>1, <2>2, <2>3, <2>4, <2>5, <2>6, <2>7 DEF ClosingInv, Open
<1>4. CASE Deletes
  <2>1. /\ step = "merged" /\ step' = "answer" /\ claims' = claims \ {Oldest(Matched)}
        /\ lastMerge' = lastMerge /\ made' = made
    BY <1>4 DEF Deletes, history
  <2>2. Matched # {} /\ lastMerge.id = Oldest(Matched).id
    BY <2>1 DEF ClosingInv
  <2>3. Oldest(Matched) \in claims
    BY <2>2, MatchedParts
  <2>4. \A d \in claims' : d.id # lastMerge.id
    BY <2>1, <2>2, <2>3 DEF ClaimCore, Numbered
  <2> QED
    BY <1>0, <2>1, <2>4, ClosingKept
<1>5. CASE Misses
  <2> DEFINE bridge == hand.sender.bridge
  <2>1. /\ Matched = {} /\ claims' = AfterMiss(bridge) /\ lastMerge' = lastMerge
        /\ made' = made /\ step' = "answer"
    BY <1>5 DEF Misses
  <2> HIDE DEF bridge
  <2>2. ASSUME NEW d \in claims', d.id = lastMerge.id, Open(d)
        PROVE  FALSE
    <3>1. PICK c \in claims : d = Tried(c, bridge)
      BY <2>1, TriedNumbered DEF ClaimCore
    <3>2. c.id = lastMerge.id /\ Open(c)
      BY <1>0, <2>2, <3>1, TriedIs DEF Open
    <3> QED
      BY <2>1, <3>2 DEF ClosingInv
  <2> QED
    BY <1>0, <2>1, <2>2, ClosingKept
<1>6. CASE Refuses
  <2>1. /\ Matched # {} /\ Oldest(Matched).target # hand.sender /\ claims' = claims
        /\ lastMerge' = lastMerge /\ made' = made /\ step' = "answer" /\ step = "new"
        /\ hand' = hand
    BY <1>6 DEF Refuses, Confirming, history
  <2>2. ASSUME NEW d \in claims', d.id = lastMerge.id, Open(d)
        PROVE  FALSE
    <3>1. d \in Matched /\ d.target = hand.sender /\ \A e \in Matched : d.id <= e.id
      BY <2>1, <2>2 DEF ClosingInv
    <3>2. /\ Oldest(Matched) \in Matched /\ Oldest(Matched).id <= d.id
          /\ Matched \subseteq claims /\ Matched \subseteq ClaimType
      BY <2>1, <3>1, MatchedParts
    <3>3. Oldest(Matched).id = d.id
      BY <3>1, <3>2 DEF ClaimType
    <3>4. Oldest(Matched) = d
      BY <3>1, <3>2, <3>3 DEF ClaimCore, Numbered
    <3> QED
      BY <2>1, <3>1, <3>4
  <2> QED
    BY <1>0, <2>1, <2>2, ClosingKept
<1>7. CASE Kills
  <2>1. /\ claims' = claims /\ lastMerge' = lastMerge /\ made' = made /\ step' = "new"
        /\ hand' = hand
    BY <1>7 DEF Kills, ClaimCore
  <2> QED
    BY <1>0, <2>1, ClosingKept DEF RunsAgain
<1>8. CASE CleansUp
  <2>1. /\ claims' \subseteq claims /\ lastMerge' = lastMerge /\ made' = made /\ step' = step
        /\ hand' = hand /\ step # "merged"
    BY <1>8 DEF CleansUp, history
  <2>2. CASE step = "new"
    BY <1>0, <2>1, <2>2, ClosingKept DEF RunsAgain
  <2>3. CASE step # "new"
    <3>1. \A d \in claims' : ~ (d.id = lastMerge.id /\ Open(d))
      BY <2>1, <2>3 DEF ClosingInv
    <3> QED
      BY <1>0, <2>1, <3>1, ClosingKept
  <2> QED
    BY <2>2, <2>3
<1>9. CASE \/ Answers \/ GivesUp
           \/ \E a, b \in Accounts : ArrivesClaim(a, b)
           \/ \E a \in Accounts, c \in Codes : ArrivesConfirm(a, c)
  <2>1. /\ claims' = claims /\ lastMerge' = lastMerge /\ made' = made /\ step' = "new"
        /\ \/ hand.cmd # "confirm" \/ step \notin {"new", "merged"}
    BY <1>0, <1>9 DEF Answers, GivesUp, ArrivesClaim, ArrivesConfirm, history, NoItem
  <2>2. \A d \in claims : ~ (d.id = lastMerge.id /\ Open(d))
    BY <2>1 DEF ClosingInv
  <2> QED
    BY <1>0, <2>1, <2>2, ClosingKept
<1>10. CASE UNCHANGED claimVars
  <2>1. /\ claims' = claims /\ lastMerge' = lastMerge /\ made' = made /\ step' = step
        /\ hand' = hand
    BY <1>10 DEF claimVars
  <2>2. Matched' = Matched
    BY <2>1 DEF Matched, Matching, Candidates, Open
  <2>3. Oldest(Matched)' = Oldest(Matched)
    BY <2>2
  <2> QED
    BY <2>1, <2>2, <2>3 DEF ClosingInv, Open
<1> QED
  BY <1>1, <1>2, <1>3, <1>4, <1>5, <1>6, <1>7, <1>8, <1>9, <1>10 DEF ClaimNext, Command

\* A claim that was confirmed and answered is not open again, in memory or in the
\* file, however often the process is killed.
THEOREM ConfirmedStaysClosed == ClaimSpec => []ClosedStaysClosed
<1>1. ClaimInit => ClosingInv
  BY ClaimAssumption DEF ClaimInit, ClosingInv, NoClaim
<1>2. ASSUME ClaimCore, ClosingInv PROVE ClosedStaysClosed
  BY <1>2, CommandParts DEF ClosingInv, ClosedStaysClosed, ClaimCore, NoItem
<1>3. ClaimCore /\ ClosingInv => ClosedStaysClosed
  BY <1>2
<1> QED
  BY <1>1, <1>3, InitClaims, CoreInvariant, ClosingStep, PTL DEF ClaimSpec

----------------------------------------------------------------------------
(* The right code, and the merge. *)

LEMMA RightCodeStep ==
    ASSUME ClaimCore, ClaimNext, NEW c \in claims, Confirming, step' = "answer",
           Open(c), c.target = hand.sender, c.code = hand.code
    PROVE  \E d \in claims :
              /\ d.id < c.id
              /\ d.code = hand.code /\ d.target # hand.sender
              /\ d.target.bridge = hand.sender.bridge
<1> DEFINE d == Oldest(Matched)
<1>1. c \in Matched
  BY DEF Matched, Matching, Candidates
<1>2. d \in Matched /\ d.id <= c.id /\ Matched \subseteq claims /\ Matched \subseteq ClaimType
  BY <1>1, MatchedParts
<1>3. hand # NoItem /\ hand.cmd = "confirm" /\ step = "new"
  BY DEF Confirming, NoItem
<1>4. d.target # hand.sender
  <2>1. ~ Deletes /\ ~ Answers /\ ~ GivesUp /\ ~ Claims /\ ~ Misses
    BY <1>1, <1>3 DEF Deletes, Answers, GivesUp, Claims, Misses
  <2>2. ~ Tick /\ ~ CleansUp /\ ~ Kills /\ ~ Confirms
    BY <1>3 DEF Tick, CleansUp, Kills, Confirms
  <2>3. /\ ~ \E a, b \in Accounts : ArrivesClaim(a, b)
        /\ ~ \E a \in Accounts, k \in Codes : ArrivesConfirm(a, k)
    BY <1>3 DEF ArrivesClaim, ArrivesConfirm
  <2>4. Refuses
    BY <2>1, <2>2, <2>3 DEF ClaimNext, Command
  <2> QED
    BY <2>4 DEF Refuses
<1> HIDE DEF d
<1>5. d.id \in Nat /\ c.id \in Nat /\ d.id # c.id
  BY <1>1, <1>2, <1>4 DEF ClaimCore, Numbered, ClaimType
<1>6. d.code = hand.code /\ d.target.bridge = hand.sender.bridge
  BY <1>2 DEF Matched, Matching, Candidates
<1> QED
  BY <1>2, <1>4, <1>5, <1>6

\* The right code of an open claim's target is refused or counted as wrong only
\* for an older claim of its bridge with the same code.
THEOREM CodeConfirms == ClaimSpec => RightCodeConfirms
<1> DEFINE Right == \A c \in claims :
          /\ Confirming /\ step' = "answer"
          /\ Open(c) /\ c.target = hand.sender /\ c.code = hand.code
          => \E d \in claims :
                /\ d.id < c.id
                /\ d.code = hand.code /\ d.target # hand.sender
                /\ d.target.bridge = hand.sender.bridge
<1>1. ASSUME ClaimCore, ClaimNext PROVE Right
  BY <1>1, RightCodeStep
<1>2. ClaimCore /\ [ClaimNext]_claimVars => [Right]_claimVars
  BY <1>1
<1>3. RightCodeConfirms <=> [][Right]_claimVars
  BY DEF RightCodeConfirms
<1> HIDE DEF Right
<1> QED
  BY <1>2, <1>3, InitClaims, CoreInvariant, PTL DEF ClaimSpec

\* Who has not the target's user name stays who he is.
LEMMA OthersStay ==
    ASSUME NEW map \in Seq(EntryType), NEW s \in Accounts, NEW t \in Accounts,
           NEW a \in Accounts, a.user # t.user
    PROVE  Resolve(Merged(map, s, t), a) = Resolve(map, a)
<1> DEFINE new == Merged(map, s, t)
           p == Resolve(map, s)
<1>1. new \in Seq(EntryType)
  BY MergedIs
<1> HIDE DEF new, p
<1>2. CASE /\ DOMAIN new = DOMAIN map
           /\ \A i \in DOMAIN map :
                 new[i] = IF map[i].person = p THEN Joint(map[i], t) ELSE map[i]
  <2>1. ASSUME NEW i \in DOMAIN map
        PROVE  new[i].person = map[i].person /\ (Matches(new[i], a) <=> Matches(map[i], a))
    <3>1. map[i] \in EntryType /\ new[i] \in EntryType
      BY <1>1, <1>2, MapParts
    <3>2. /\ new[i].person = map[i].person
          /\ new[i].aliases \in {map[i].aliases, map[i].aliases \cup {t.user}}
      <4>1. new[i] = Joint(map[i], t) \/ new[i] = map[i]
        BY <1>2
      <4>2. CASE new[i] = Joint(map[i], t)
        BY <3>1, <4>2, JointIs
      <4> QED
        BY <4>1, <4>2
    <3>3. a.user \in new[i].aliases <=> a.user \in map[i].aliases
      BY <3>2
    <3> QED
      BY <3>1, <3>2, <3>3, MatchesAlias
  <2>2. Naming(new, a) = Naming(map, a)
    BY <1>2, <2>1 DEF Naming
  <2>3. Naming(map, a) \subseteq DOMAIN map
    BY DEF Naming
  <2>4. CASE Naming(map, a) = {}
    BY <1>1, <2>2, <2>4, ResolveIs DEF new
  <2>5. CASE Naming(map, a) # {}
    <3>1. First(Naming(map, a)) \in DOMAIN map
      BY <2>3, <2>5, ResolveIs
    <3> QED
      BY <1>1, <2>1, <2>2, <2>5, <3>1, ResolveIs DEF new
  <2> QED
    BY <2>4, <2>5
<1>3. CASE /\ \A i \in DOMAIN map : map[i].person # p
           /\ DOMAIN new = 1..(Len(map) + 1)
           /\ \A i \in DOMAIN map : new[i] = map[i]
           /\ new[Len(map) + 1] = Couple(p, s, t)
  <2> DEFINE n == Len(map) + 1
  <2>1. /\ DOMAIN map = 1..Len(map) /\ Len(map) \in Nat
        /\ \A i \in DOMAIN map : map[i] \in EntryType
    BY MapParts
  <2>2. n \in DOMAIN new /\ n \notin DOMAIN map /\ DOMAIN new = DOMAIN map \cup {n}
        /\ \A i \in DOMAIN map : i < n
    BY <1>3, <2>1
  <2>3. Couple(p, s, t).person = p /\ Couple(p, s, t) \in EntryType
        /\ Couple(p, s, t).aliases = {s.user, t.user} /\ p \in Users
    BY ResolveIs, CoupleIs DEF p
  <2>4. new[n].person = p /\ (Matches(new[n], a) <=> a.user = s.user)
    BY <1>3, <2>3, MatchesAlias
  <2> HIDE DEF n
  <2>5. \A i \in DOMAIN map : Matches(new[i], a) <=> Matches(map[i], a)
    BY <1>3
  <2>6. Naming(new, a) = IF a.user = s.user THEN Naming(map, a) \cup {n} ELSE Naming(map, a)
    BY <2>2, <2>4, <2>5 DEF Naming
  <2>7. Naming(map, s) = {} /\ p = s.user
    <3>1. Naming(map, s) # {} => First(Naming(map, s)) \in DOMAIN map
      BY ResolveIs DEF Naming
    <3> QED
      BY <1>3, <3>1, ResolveIs DEF p
  <2>8. a.user = s.user => Naming(map, a) = {}
    BY <2>1, <2>7, MatchesAlias DEF Naming
  <2>9. CASE Naming(map, a) # {}
    <3>1. Naming(new, a) = Naming(map, a) /\ First(Naming(map, a)) \in DOMAIN map
      BY <2>6, <2>8, <2>9, ResolveIs DEF Naming
    <3> QED
      BY <1>1, <1>3, <2>9, <3>1, ResolveIs DEF new
  <2>10. CASE Naming(map, a) = {} /\ a.user # s.user
    BY <1>1, <2>6, <2>10, ResolveIs DEF new
  <2>11. CASE a.user = s.user
    <3>1. Naming(new, a) = {n}
      BY <2>6, <2>8, <2>11
    <3>2. Resolve(new, a) = new[n].person
      BY <1>1, <3>1, ResolveIs
    <3> QED
      BY <2>4, <2>7, <2>8, <2>11, <3>2, ResolveIs DEF new
  <2> QED
    BY <2>9, <2>10, <2>11
<1>4. CASE \A i \in DOMAIN map : map[i].person # p
  <2>1. /\ \A i \in DOMAIN map : map[i].person # p
        /\ DOMAIN new = 1..(Len(map) + 1)
        /\ \A i \in DOMAIN map : new[i] = map[i]
        /\ new[Len(map) + 1] = Couple(p, s, t)
    BY <1>4, MergedIs DEF new, p
  <2> QED
    BY <1>3, <2>1 DEF new
<1>5. CASE \E i \in DOMAIN map : map[i].person = p
  <2>1. /\ DOMAIN new = DOMAIN map
        /\ \A i \in DOMAIN map :
              new[i] = IF map[i].person = p THEN Joint(map[i], t) ELSE map[i]
    BY <1>5, MergedIs DEF new, p
  <2> QED
    BY <1>2, <2>1 DEF new
<1> QED
  BY <1>4, <1>5

\* The target becomes who the source is, unless an entry in front of the source's
\* names it.
LEMMA TheTwoAreOne ==
    ASSUME NEW map \in Seq(EntryType), NEW c, c.source \in Accounts, c.target \in Accounts
    PROVE  \/ Resolve(Merged(map, c.source, c.target), c.target)
                = Resolve(Merged(map, c.source, c.target), c.source)
           \/ EarlierEntry(map, c)
<1> DEFINE s == c.source
           t == c.target
           new == Merged(map, s, t)
           p == Resolve(map, s)
<1> SUFFICES ASSUME ~ EarlierEntry(map, c)
             PROVE  Resolve(new, t) = Resolve(new, s)
  OBVIOUS
<1>0. /\ s \in Accounts /\ t \in Accounts /\ p \in Users
      /\ DOMAIN map = 1..Len(map) /\ Len(map) \in Nat
      /\ \A i \in DOMAIN map : map[i] \in EntryType
  BY ResolveIs, MapParts
<1>1. /\ new \in Seq(EntryType) /\ DOMAIN new = 1..Len(new) /\ Len(new) \in Nat
      /\ \A i \in DOMAIN new : new[i] \in EntryType
  BY <1>0, MergedIs, MapParts
<1>2. s.user = t.user => Resolve(new, t) = Resolve(new, s)
  <2>1. s.user = t.user => Naming(new, t) = Naming(new, s)
    BY <1>1, MatchesAlias DEF Naming
  <2> HIDE DEF s, t, new
  <2> QED
    BY <1>0, <1>1, <2>1, ResolveIs
<1>3. s.user # t.user => Resolve(new, s) = p
  BY <1>0, OthersStay
<1>4. ~ \E i \in DOMAIN map :
           /\ map[i].person # p /\ Matches(map[i], t)
           /\ \A k \in DOMAIN map : map[k].person = p => i < k
  BY DEF EarlierEntry
<1>5. \/ /\ \E i \in DOMAIN map : map[i].person = p
         /\ DOMAIN new = DOMAIN map
         /\ \A i \in DOMAIN map :
               new[i] = IF map[i].person = p THEN Joint(map[i], t) ELSE map[i]
      \/ /\ \A i \in DOMAIN map : map[i].person # p
         /\ DOMAIN new = 1..(Len(map) + 1)
         /\ \A i \in DOMAIN map : new[i] = map[i]
         /\ new[Len(map) + 1] = Couple(p, s, t)
  BY <1>0, MergedIs
<1> HIDE DEF s, t, new, p
<1> DEFINE f == First(Naming(new, t))
<1>6. ASSUME NEW k \in Naming(new, t)
      PROVE  /\ f \in Naming(new, t) /\ f \in DOMAIN new /\ f <= k /\ k \in DOMAIN new
             /\ Resolve(new, t) = new[f].person
  BY <1>0, <1>1, ResolveIs DEF Naming
<1> HIDE DEF f
<1>7. CASE /\ \E i \in DOMAIN map : map[i].person = p
           /\ DOMAIN new = DOMAIN map
           /\ \A i \in DOMAIN map :
                 new[i] = IF map[i].person = p THEN Joint(map[i], t) ELSE map[i]
  <2>1. ASSUME NEW k \in DOMAIN map, map[k].person = p
        PROVE  k \in Naming(new, t) /\ new[k].person = p
    <3>1. new[k] = Joint(map[k], t) /\ map[k] \in EntryType
      BY <1>0, <1>7, <2>1
    <3>2. new[k] \in EntryType /\ new[k].person = p /\ t.user \in new[k].aliases
      BY <1>0, <2>1, <3>1, JointIs
    <3> QED
      BY <1>7, <2>1, <3>2, MatchesAlias DEF Naming
  <2>2. PICK k \in DOMAIN map : map[k].person = p
    BY <1>7
  <2>3. /\ f \in Naming(new, t) /\ f \in DOMAIN map /\ Resolve(new, t) = new[f].person
        /\ \A j \in Naming(new, t) : f <= j
    BY <1>6, <1>7, <2>1, <2>2
  <2>4. map[f].person = p
    <3> SUFFICES ASSUME map[f].person # p
                 PROVE  FALSE
      OBVIOUS
    <3>1. new[f] = map[f]
      BY <1>7, <2>3
    <3>2. Matches(map[f], t)
      BY <2>3, <3>1 DEF Naming
    <3>3. \A j \in DOMAIN map : map[j].person = p => f < j
      BY <1>0, <2>1, <2>3
    <3> QED
      BY <1>4, <2>3, <3>2, <3>3
  <2>5. Resolve(new, t) = p
    BY <2>1, <2>3, <2>4
  <2> QED
    BY <1>2, <1>3, <2>5
<1>8. CASE /\ \A i \in DOMAIN map : map[i].person # p
           /\ DOMAIN new = 1..(Len(map) + 1)
           /\ \A i \in DOMAIN map : new[i] = map[i]
           /\ new[Len(map) + 1] = Couple(p, s, t)
  <2> DEFINE n == Len(map) + 1
  <2>1. n \in DOMAIN new /\ DOMAIN new = DOMAIN map \cup {n} /\ new[n] = Couple(p, s, t)
    BY <1>0, <1>8
  <2> HIDE DEF n
  <2>2. new[n].person = p /\ new[n] \in EntryType /\ t.user \in new[n].aliases
    BY <1>0, <2>1, CoupleIs
  <2>3. n \in Naming(new, t)
    BY <2>1, <2>2, MatchesAlias DEF Naming
  <2>4. \A i \in DOMAIN map : ~ Matches(map[i], t)
    BY <1>4, <1>8
  <2>5. Naming(new, t) = {n}
    BY <1>8, <2>1, <2>3, <2>4 DEF Naming
  <2>6. Resolve(new, t) = p
    BY <1>6, <2>2, <2>3, <2>5
  <2> QED
    BY <1>2, <1>3, <2>6
<1>9. Resolve(new, t) = Resolve(new, s)
  BY <1>5, <1>7, <1>8
<1> QED
  BY <1>9

LEMMA MergeStep ==
    ASSUME ClaimCore, ClaimNext
    PROVE  /\ \A a \in Accounts :
                 Resolve(identity', a) # Resolve(identity, a)
                 => a.user = lastMerge'.target.user
           /\ step = "new" /\ step' = "merged" =>
                 \/ Resolve(identity', lastMerge'.target) = Resolve(identity', lastMerge'.source)
                 \/ EarlierEntry(identity, lastMerge')
<1>1. CASE Confirms
  <2> DEFINE c == Oldest(Matched)
  <2>1. /\ Matched # {} /\ identity' = Merged(identity, c.source, c.target)
        /\ lastMerge' = [id |-> c.id, source |-> c.source, target |-> c.target]
    BY <1>1 DEF Confirms
  <2>2. c \in ClaimType
    BY <2>1, MatchedParts
  <2> HIDE DEF c
  <2>3. c.source \in Accounts /\ c.target \in Accounts /\ identity \in Seq(EntryType)
    BY <2>2 DEF ClaimType, ClaimCore
  <2>4. lastMerge'.source = c.source /\ lastMerge'.target = c.target
    BY <2>1
  <2>5. \A a \in Accounts : a.user # c.target.user => Resolve(identity', a) = Resolve(identity, a)
    BY <2>1, <2>3, OthersStay
  <2> DEFINE m == lastMerge'
  <2>6. m.source = c.source /\ m.target = c.target
    BY <2>4
  <2> HIDE DEF m
  <2>7. m.source \in Accounts /\ m.target \in Accounts
    BY <2>3, <2>6
  <2>8. \/ Resolve(Merged(identity, m.source, m.target), m.target)
             = Resolve(Merged(identity, m.source, m.target), m.source)
        \/ EarlierEntry(identity, m)
    BY <2>3, <2>7, TheTwoAreOne
  <2>9. \/ Resolve(identity', m.target) = Resolve(identity', m.source)
        \/ EarlierEntry(identity, m)
    BY <2>1, <2>6, <2>8
  <2> QED
    BY <2>4, <2>5, <2>9 DEF m
<1>2. CASE ~ Confirms
  <2>1. identity' = identity
    BY <1>2 DEF ClaimNext, Command, Tick, ArrivesClaim, ArrivesConfirm, Claims, Deletes,
                Refuses, Misses, Answers, GivesUp, CleansUp, Kills
  <2>2. step = "new" => step' # "merged"
    BY <1>2 DEF ClaimNext, Command, Tick, ArrivesClaim, ArrivesConfirm, Claims, Deletes,
                Refuses, Misses, Answers, GivesUp, CleansUp, Kills
  <2> QED
    BY <2>1, <2>2
<1> QED
  BY <1>1, <1>2

\* A confirmed claim moves nobody but accounts with the target's user name, and
\* makes its two accounts one person unless an earlier entry names the target.
THEOREM MergeIsOfTheTwo == ClaimSpec => ConfirmMergesTheTwo
<1> DEFINE Two ==
       /\ \A a \in Accounts :
             Resolve(identity', a) # Resolve(identity, a)
             => a.user = lastMerge'.target.user
       /\ step = "new" /\ step' = "merged" =>
             LET c == lastMerge'
             IN  \/ Resolve(identity', c.target) = Resolve(identity', c.source)
                 \/ EarlierEntry(identity, c)
<1>1. ASSUME ClaimCore, ClaimNext PROVE Two
  BY <1>1, MergeStep
<1>2. ClaimCore /\ [ClaimNext]_claimVars => [Two]_claimVars
  BY <1>1
<1>3. ConfirmMergesTheTwo <=> [][Two]_claimVars
  BY DEF ConfirmMergesTheTwo
<1> HIDE DEF Two
<1> QED
  BY <1>2, <1>3, InitClaims, CoreInvariant, PTL DEF ClaimSpec

=============================================================================
