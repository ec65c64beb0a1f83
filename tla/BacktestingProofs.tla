------------------------ MODULE BacktestingProofs ------------------------
(***************************************************************************)
(* What is proved of Backtesting for every set of channels, consumers,     *)
(* priorities, whitelists and bounds.                                      *)
(***************************************************************************)
EXTENDS Backtesting, PartialSumsProofs, FiniteSetTheorems

(* What holds whatever the constants: who is in the lists of consumers,    *)
(* whom the drain is about to serve, and when the clock was pushed.        *)
Listed ==
  /\ \A ch \in Channels : ToSet(consumers[ch]) \subseteq ConsumersOf(ch)
  /\ Consumers \ Late \subseteq Registered
  /\ \A c \in Consumers \ Registered : queue[c] = <<>>

Pending ==
  /\ loop.left \subseteq DOMAIN served
  /\ loop.pc = "drain" => loop.level \in DOMAIN served
  /\ \A c \in ToSet(loop.todo) : PriorityOf[c] <= loop.level

Ticked == now % Interval = 0 /\ (loop.pc \in {"level", "drain", "cycle"} => now \in triggered)

Basis == TypeOK /\ Listed /\ Pending /\ Ticked

-----------------------------------------------------------------------------
(* The whitelists no timestamp of the clock falls into a gap of.           *)
Gapless ==
  \A W \in Whitelists : \A v, w \in W : \A t \in Nat :
    t % Interval = 0 /\ v < t /\ t < w => t \in W

Covered ==
  /\ whitelist \in Whitelists
  /\ \A w \in whitelist : w > now => w \in ahead
  /\ WhitelistedAreTriggered

-----------------------------------------------------------------------------
(* The drain: the producers that serve a registered consumer, and what the *)
(* levels that are behind left in the queues.                              *)
UpwardClosed(S) == \A k \in S : \A l \in Levels : k <= l => l \in S

ServesAll ==
  /\ now = 0 => kept = Producers /\ served = [l \in Levels |-> Producers]
  /\ UpwardClosed(DOMAIN served)
  /\ \A c \in Consumers \ Late : Served(c)
  /\ \A k \in DOMAIN served : \A ch \in ToSet(served[k]) :
       /\ ch \in ToSet(kept)
       /\ \A l \in Levels : k <= l => l \in DOMAIN served /\ ch \in ToSet(served[l])

LevelsInOrder ==
  /\ UpwardClosed(loop.left)
  /\ loop.pc \in {"drain", "cycle"} => \A l \in Levels : l > loop.level => l \in loop.left

Fine(m) == m.by = "task" \/ m.at \in cut

LevelsBehind ==
  /\ loop.pc \in {"level", "cycle"} /\ ~shouldStop =>
       \A c \in Registered : Served(c) /\ PriorityOf[c] \notin loop.left =>
         \A m \in Queued(c) : Fine(m)
  /\ loop.pc = "drain" =>
       \A c \in Registered : Served(c) /\ PriorityOf[c] < loop.level =>
         \A m \in Queued(c) : Fine(m) \/ (m.at = now /\ m.level = loop.level)

\* A level with a message for a listener of the time is ahead: tasks that an
\* error left behind run in its drain.
ClockIsHeard ==
  \E c \in Registered : /\ Served(c) /\ ChannelOf[c] = TimeChannel /\ queue[c] # <<>>
                        /\ PriorityOf[c] \in loop.left

TasksBehind ==
  loop.pc = "level" /\ ~shouldStop => ClockIsHeard \/ \A t \in tasks : t.at \in cut

Drained ==
  /\ ServesAll /\ LevelsInOrder /\ LevelsBehind /\ TasksBehind
  /\ NothingLeftBehind /\ TasksRunInTime

-----------------------------------------------------------------------------
(* Filtered sequences.                                                     *)
IsOnly(o, s, S, n) ==
  o = [i \in 0 .. n |-> IF i = 0 THEN <<>>
                       ELSE IF s[i] \in S THEN Append(o[i - 1], s[i]) ELSE o[i - 1]]

\* The elements of a prefix of a sequence.
Prefix(s, i) == {s[j] : j \in 1 .. i}

LEMMA RangeOfSequence ==
  ASSUME NEW T, NEW s \in Seq(T)
  PROVE  ToSet(s) = {s[j] : j \in 1 .. Len(s)} /\ ToSet(s) \subseteq T
BY DEF ToSet

LEMMA RangeOfAppend ==
  ASSUME NEW T, NEW s \in Seq(T), NEW e \in T
  PROVE  Append(s, e) \in Seq(T) /\ ToSet(Append(s, e)) = ToSet(s) \cup {e}
<1>1. /\ Append(s, e) \in Seq(T) /\ Len(Append(s, e)) = Len(s) + 1
      /\ \A j \in 1 .. Len(s) : Append(s, e)[j] = s[j]
      /\ Append(s, e)[Len(s) + 1] = e /\ Len(s) \in Nat
  OBVIOUS
<1>2. ToSet(Append(s, e)) = {Append(s, e)[j] : j \in 1 .. Len(s) + 1}
  BY <1>1, RangeOfSequence
<1>3. ToSet(s) = {s[j] : j \in 1 .. Len(s)}
  BY RangeOfSequence
<1>4. \A j \in 1 .. Len(s) + 1 : j \in 1 .. Len(s) \/ j = Len(s) + 1
  BY <1>1
<1>5. 1 .. Len(s) \subseteq 1 .. Len(s) + 1 /\ Len(s) + 1 \in 1 .. Len(s) + 1
  BY <1>1
<1> DEFINE a == Append(s, e)
<1> HIDE DEF a
<1>6. ToSet(a) = ToSet(s) \cup {e}
  BY <1>1, <1>2, <1>3, <1>4, <1>5 DEF a
<1>7. QED BY <1>1, <1>6 DEF a

LEMMA RangeOfTail ==
  ASSUME NEW T, NEW s \in Seq(T), s # <<>>
  PROVE  /\ Head(s) \in T /\ Head(s) \in ToSet(s)
         /\ Tail(s) \in Seq(T) /\ ToSet(Tail(s)) \subseteq ToSet(s)
<1>1. /\ Len(s) \in Nat \ {0} /\ Head(s) = s[1] /\ Head(s) \in T
      /\ Tail(s) \in Seq(T) /\ Len(Tail(s)) = Len(s) - 1
      /\ \A j \in 1 .. Len(s) - 1 : Tail(s)[j] = s[j + 1]
  OBVIOUS
<1>2. ToSet(s) = {s[j] : j \in 1 .. Len(s)}
  BY RangeOfSequence
<1>3. ToSet(Tail(s)) = {Tail(s)[j] : j \in 1 .. Len(s) - 1}
  BY <1>1, RangeOfSequence
<1>4. 1 \in 1 .. Len(s) /\ \A j \in 1 .. Len(s) - 1 : j + 1 \in 1 .. Len(s)
  BY <1>1
<1>5. QED BY <1>1, <1>2, <1>3, <1>4

LEMMA RangeOfEmpty ==
  ASSUME NEW T, NEW s \in Seq(T)
  PROVE  s = <<>> <=> ToSet(s) = {}
<1>1. CASE s = <<>>
  <2>1. ToSet(s) = {s[j] : j \in 1 .. Len(s)}
    BY RangeOfSequence
  <2>2. 1 .. Len(s) = {}
    BY <1>1
  <2>3. QED BY <2>1, <2>2, <1>1
<1>2. CASE s # <<>>
  BY <1>2, RangeOfTail
<1>3. QED BY <1>1, <1>2

\* The filtered prefixes of s exist.
LEMMA OnlyExists ==
  ASSUME NEW T, NEW s \in Seq(T), NEW S
  PROVE  \E o : IsOnly(o, s, S, Len(s))
<1> DEFINE bad == {m \in Nat : ~ \E o : IsOnly(o, s, S, m)}
<1>1. bad = {}
  <2>1. SUFFICES ASSUME bad # {} PROVE FALSE
    OBVIOUS
  <2>2. PICK m \in bad : \A k \in bad : m <= k
    <3>1. bad \subseteq Nat
      OBVIOUS
    <3> HIDE DEF bad
    <3>2. QED BY <2>1, <3>1, NatMin
  <2>3. m # 0
    <3>1. IsOnly([i \in 0 .. 0 |-> <<>>], s, S, 0)
      BY DEF IsOnly
    <3>2. QED BY <3>1, <2>2
  <2>4. m - 1 \in Nat /\ m - 1 \notin bad
    BY <2>2, <2>3
  <2>5. PICK o : IsOnly(o, s, S, m - 1)
    BY <2>4
  <2> DEFINE last == IF s[m] \in S THEN Append(o[m - 1], s[m]) ELSE o[m - 1]
             p == [i \in 0 .. m |-> IF i = m THEN last ELSE o[i]]
  <2>6. \A i \in 0 .. m - 1 : o[i] = IF i = 0 THEN <<>>
                    ELSE IF s[i] \in S THEN Append(o[i - 1], s[i]) ELSE o[i - 1]
    BY <2>5 DEF IsOnly
  <2>7. p[m] = last /\ \A i \in 0 .. m - 1 : i \in 0 .. m /\ p[i] = o[i]
    BY <2>4
  <2>8. p[m - 1] = o[m - 1]
    BY <2>7, <2>4
  <2>9. \A i \in 0 .. m : p[i] = IF i = 0 THEN <<>>
                    ELSE IF s[i] \in S THEN Append(p[i - 1], s[i]) ELSE p[i - 1]
    <3>1. SUFFICES ASSUME NEW i \in 0 .. m
                   PROVE  p[i] = IF i = 0 THEN <<>>
                      ELSE IF s[i] \in S THEN Append(p[i - 1], s[i]) ELSE p[i - 1]
      OBVIOUS
    <3> HIDE DEF p
    <3>2. CASE i = m
      BY <3>2, <2>3, <2>7, <2>8
    <3>3. CASE i # m
      <4>1. i \in 0 .. m - 1 /\ (i # 0 => i - 1 \in 0 .. m - 1)
        BY <3>3, <2>2
      <4>2. p[i] = o[i] /\ (i # 0 => p[i - 1] = o[i - 1])
        BY <4>1, <2>7
      <4>3. QED BY <4>1, <4>2, <2>6
    <3>4. QED BY <3>2, <3>3
  <2>10. IsOnly(p, s, S, m)
    BY <2>9 DEF IsOnly
  <2>11. QED BY <2>10, <2>2
<1>2. Len(s) \in Nat
  OBVIOUS
<1>3. QED BY <1>1, <1>2

\* Filtering keeps the elements that are in the set, and only those.
LEMMA OnlyRange ==
  ASSUME NEW T, NEW s \in Seq(T), NEW S
  PROVE  Only(s, S) \in Seq(T) /\ ToSet(Only(s, S)) = ToSet(s) \cap S
<1> DEFINE o == CHOOSE o : IsOnly(o, s, S, Len(s))
           Right(i) == o[i] \in Seq(T) /\ ToSet(o[i]) = Prefix(s, i) \cap S
           bad == {i \in 0 .. Len(s) : ~ Right(i)}
<1>1. Only(s, S) = o[Len(s)]
  BY Zenon DEF Only, IsOnly
<1>2. IsOnly(o, s, S, Len(s))
  BY OnlyExists
<1>3. \A i \in 0 .. Len(s) : o[i] = IF i = 0 THEN <<>>
                      ELSE IF s[i] \in S THEN Append(o[i - 1], s[i]) ELSE o[i - 1]
  BY <1>2 DEF IsOnly
<1> HIDE DEF o
<1>4. Len(s) \in Nat /\ \A j \in 1 .. Len(s) : s[j] \in T
  OBVIOUS
<1>5. bad = {}
  <2>1. SUFFICES ASSUME bad # {} PROVE FALSE
    OBVIOUS
  <2>2. PICK i \in bad : \A k \in bad : i <= k
    <3>1. bad \subseteq Nat
      OBVIOUS
    <3> HIDE DEF bad
    <3>2. QED BY <2>1, <3>1, NatMin
  <2>3. i \in 0 .. Len(s) /\ ~ Right(i)
    BY <2>2
  <2>4. CASE i = 0
    <3>1. o[i] = <<>> /\ Prefix(s, i) = {} /\ <<>> \in Seq(T)
      BY <2>3, <2>4, <1>3 DEF Prefix
    <3>2. ToSet(<<>>) = {}
      BY <3>1, RangeOfEmpty
    <3>3. QED BY <3>1, <3>2, <2>3
  <2>5. CASE i # 0
    <3>1. i - 1 \in 0 .. Len(s) /\ i \in 1 .. Len(s) /\ i - 1 \notin bad
      BY <2>2, <2>3, <2>5, <1>4
    <3>2. Right(i - 1)
      BY <3>1
    <3>3. s[i] \in T
      BY <3>1, <1>4
    <3>4. Prefix(s, i) = Prefix(s, i - 1) \cup {s[i]}
      <4>1. 1 .. i = 1 .. (i - 1) \cup {i}
        BY <3>1, <1>4
      <4>2. QED BY <4>1 DEF Prefix
    <3>5. CASE s[i] \in S
      <4>1. o[i] = Append(o[i - 1], s[i])
        BY <3>5, <2>3, <2>5, <1>3
      <4>2. o[i] \in Seq(T) /\ ToSet(o[i]) = ToSet(o[i - 1]) \cup {s[i]}
        BY <4>1, <3>2, <3>3, RangeOfAppend
      <4>3. QED BY <4>2, <3>2, <3>4, <3>5, <2>3
    <3>6. CASE s[i] \notin S
      <4>1. o[i] = o[i - 1]
        BY <3>6, <2>3, <2>5, <1>3
      <4>2. QED BY <4>1, <3>2, <3>4, <3>6, <2>3
    <3>7. QED BY <3>5, <3>6
  <2>6. QED BY <2>4, <2>5
<1>6. Len(s) \in 0 .. Len(s)
  BY <1>4
<1>7. Right(Len(s))
  <2>1. QED BY <1>5, <1>6
<1>8. ToSet(s) = Prefix(s, Len(s))
  BY RangeOfSequence DEF Prefix
<1>9. QED BY <1>1, <1>7, <1>8

\* The sequence of a finite set lists its elements.
LEMMA ListOfSet ==
  ASSUME NEW S, IsFiniteSet(S)
  PROVE  SetToSeq(S) \in Seq(S) /\ ToSet(SetToSeq(S)) = S
<1> DEFINE n == Cardinality(S)
           f == SetToSeq(S)
<1>1. n \in Nat /\ \E g \in [1 .. n -> S] : IsInjective(g)
  BY FS_CardinalityType DEF ExistsBijection, Bijection, Injection
<1>2. f \in [1 .. n -> S] /\ IsInjective(f)
  BY <1>1 DEF SetToSeq
<1> HIDE DEF f
<1>3. f \in Injection(1 .. n, S)
  BY <1>2 DEF Injection
<1>4. IsFiniteSet(1 .. n) /\ Cardinality(1 .. n) = n
  BY <1>1, FS_Interval
<1>5. f \in Surjection(1 .. n, S)
  BY <1>3, <1>4, FS_Injection
<1>6. \A e \in S : \E j \in 1 .. n : f[j] = e
  BY <1>5 DEF Surjection
<1> HIDE DEF n
<1>7. f \in Seq(S) /\ Len(f) = n
  BY <1>1, <1>2
<1>8. ToSet(f) = {f[j] : j \in 1 .. n} /\ ToSet(f) \subseteq S
  BY <1>7, RangeOfSequence
<1>9. QED BY <1>6, <1>7, <1>8 DEF f

-----------------------------------------------------------------------------
(* The jump of the clock.                                                  *)
LEMMA NextTick ==
  ASSUME NEW t \in Nat, t % Interval = 0
  PROVE  t + Interval \in Nat /\ (t + Interval) % Interval = 0
<1>1. Interval \in Nat \ {0}
  BY TimeAssumption
<1>2. PICK k \in Nat : t = k * Interval
  BY <1>1
<1>3. t + Interval = (k + 1) * Interval /\ k + 1 \in Nat
  BY <1>1, <1>2
<1>4. QED BY <1>1, <1>3

LEMMA NothingBetweenTicks ==
  ASSUME NEW t \in Nat, t % Interval = 0, NEW w \in Nat, w % Interval = 0, t < w
  PROVE  t + Interval <= w
<1>1. Interval \in Nat \ {0}
  BY TimeAssumption
<1>2. PICK k \in Nat : t = k * Interval
  BY <1>1
<1>3. PICK l \in Nat : w = l * Interval
  BY <1>1
<1>4. k + 1 <= l
  BY <1>1, <1>2, <1>3
<1>5. k * Interval + Interval <= l * Interval
  BY <1>1, <1>4
<1>6. QED BY <1>2, <1>3, <1>5

\* One look of next_timestamp at the timestamp t, jump being the next ones.
Look(jump, accepted, t) ==
  [q \in SUBSET whitelist |->
     IF t \in accepted THEN [now |-> t, ahead |-> q]
     ELSE IF t \in q \/ t > Finish THEN [now |-> t, ahead |-> Pop(t, q)]
     ELSE jump[t + Interval][Pop(t, q)]]

\* The looks at the timestamps that k - 1 steps of one bring to the end.
IsJump(jump, accepted, from) == jump = [t \in from |-> Look(jump, accepted, t)]
FromTheEnd(k) == {t \in Nat : t + k > Finish}

LEMMA JumpFromTheEnd ==
  ASSUME NEW accepted
  PROVE  \A k \in Nat : \E jump : IsJump(jump, accepted, FromTheEnd(k))
<1> DEFINE bad == {k \in Nat : ~ \E jump : IsJump(jump, accepted, FromTheEnd(k))}
<1>1. SUFFICES ASSUME bad # {} PROVE FALSE
  OBVIOUS
<1>2. PICK k \in bad : \A l \in bad : k <= l
  <2>1. bad \subseteq Nat
    OBVIOUS
  <2> HIDE DEF bad
  <2>2. QED BY <1>1, <2>1, NatMin
<1>3. Interval \in Nat \ {0} /\ Finish \in Nat
  BY TimeAssumption
<1>4. k # 0
  <2> DEFINE jump == [t \in FromTheEnd(0) |-> Look([u \in {} |-> 0], accepted, t)]
  <2>1. \A t \in FromTheEnd(0) : Look(jump, accepted, t) = Look([u \in {} |-> 0], accepted, t)
    <3>1. SUFFICES ASSUME NEW t \in FromTheEnd(0)
                   PROVE  Look(jump, accepted, t) = Look([u \in {} |-> 0], accepted, t)
      OBVIOUS
    <3>2. t > Finish
      BY <1>3 DEF FromTheEnd
    <3>3. QED BY <3>2, Zenon DEF Look
  <2>2. IsJump(jump, accepted, FromTheEnd(0))
    BY <2>1, Zenon DEF IsJump
  <2>3. QED BY <2>2, <1>2
<1>5. k \in Nat /\ k - 1 \in Nat /\ k - 1 \notin bad
  BY <1>2, <1>4
<1>6. PICK rest : IsJump(rest, accepted, FromTheEnd(k - 1))
  BY <1>5
<1> DEFINE jump == [t \in FromTheEnd(k) |->
                      IF t \in FromTheEnd(k - 1) THEN rest[t] ELSE Look(rest, accepted, t)]
<1>7. \A t \in FromTheEnd(k - 1) : t \in FromTheEnd(k) /\ rest[t] = Look(rest, accepted, t)
  <2>1. FromTheEnd(k - 1) \subseteq FromTheEnd(k)
    BY <1>3, <1>5 DEF FromTheEnd
  <2>2. QED BY <2>1, <1>6 DEF IsJump
<1>8. \A t \in FromTheEnd(k) : t + Interval \in FromTheEnd(k - 1)
  BY <1>3, <1>5 DEF FromTheEnd
<1>9. \A t \in FromTheEnd(k - 1) : jump[t] = rest[t]
  BY <1>7
<1>10. \A t \in FromTheEnd(k) : jump[t] = Look(rest, accepted, t)
  BY <1>7
<1> HIDE DEF jump
<1>11. \A t \in FromTheEnd(k) : Look(jump, accepted, t) = Look(rest, accepted, t)
  <2>1. SUFFICES ASSUME NEW t \in FromTheEnd(k)
                 PROVE  Look(jump, accepted, t) = Look(rest, accepted, t)
    OBVIOUS
  <2>2. jump[t + Interval] = rest[t + Interval]
    BY <1>8, <1>9
  <2>3. QED BY <2>2, Zenon DEF Look
<1>12. IsJump(jump, accepted, FromTheEnd(k))
  <2>1. jump = [t \in FromTheEnd(k) |-> jump[t]]
    BY DEF jump
  <2>2. \A t \in FromTheEnd(k) : jump[t] = Look(jump, accepted, t)
    BY <1>10, <1>11
  <2>3. QED BY <2>1, <2>2, Zenon DEF IsJump
<1>13. QED BY <1>12, <1>2

\* The recursion of next_timestamp ends: after finishing_timestamp at the latest.
LEMMA JumpExists ==
  ASSUME NEW accepted
  PROVE  \E jump : IsJump(jump, accepted, Nat)
<1>1. FromTheEnd(Finish + 1) = Nat /\ Finish + 1 \in Nat
  BY TimeAssumption DEF FromTheEnd
<1>2. QED BY <1>1, JumpFromTheEnd

\* Popping loses no entry after t when t is an entry, and none at all when every
\* entry is at or after t.
LEMMA PopKeeps ==
  ASSUME NEW t \in Nat, NEW q \in SUBSET Nat
  PROVE  /\ Pop(t, q) \subseteq q
         /\ t \in q => \A w \in q : w > t => w \in Pop(t, q)
         /\ (\A w \in q : t <= w) => Pop(t, q) = q
<1>1. Pop(t, q) \subseteq q
  BY DEF Pop
<1>2. ASSUME t \in q, NEW w \in q, w > t PROVE w \in Pop(t, q)
  BY <1>2 DEF Pop
<1>3. ASSUME \A w \in q : t <= w PROVE Pop(t, q) = q
  <2>1. CASE q = {}
    BY <2>1 DEF Pop
  <2>2. CASE q # {}
    <3>1. \E w \in q : \A v \in q : w <= v
      BY <2>2, NatMin
    <3>2. Earliest(q) \in q
      BY <3>1 DEF Earliest
    <3>3. Earliest(q) >= t
      BY <3>2, <1>3
    <3>4. QED BY <3>3 DEF Pop
  <2>3. QED BY <2>1, <2>2
<1>4. QED BY <1>1, <1>2, <1>3

\* Where next_timestamp arrives when it starts with a look at t.
Arrives(r, t, q) ==
  /\ r.now \in Nat /\ t <= r.now /\ r.ahead \subseteq q
  /\ t % Interval = 0 => r.now % Interval = 0

\* It jumps over no timestamp of the whitelist, and still has those to come.
JumpsOverNone(r, t, q) ==
  t % Interval = 0 /\ (\A w \in whitelist : t <= w => w \in q) =>
    \A w \in whitelist : /\ w > r.now => w \in r.ahead
                         /\ w % Interval = 0 /\ t <= w => r.now <= w

LEMMA GapStays ==
  ASSUME Gapless, whitelist \in Whitelists, whitelist \in SUBSET Nat,
         NEW t \in Nat, t % Interval = 0, NEW q \in SUBSET whitelist, t \notin q,
         \A w \in whitelist : t <= w => w \in q,
         NEW w \in whitelist, t <= w
  PROVE  t < w /\ w \in Pop(t, q)
<1>1. t \notin whitelist /\ t < w
  OBVIOUS
<1>2. \A v \in q : t <= v
  <2>1. SUFFICES ASSUME NEW v \in q, v < t PROVE FALSE
    OBVIOUS
  <2>2. t \in whitelist
    BY <2>1, <1>1 DEF Gapless
  <2>3. QED BY <2>2, <1>1
<1>3. Pop(t, q) = q
  BY <1>2, PopKeeps
<1>4. QED BY <1>1, <1>3

Jump(accepted) == CHOOSE jump : IsJump(jump, accepted, Nat)

LEMMA NextTimestampIsJump ==
  ASSUME NEW accepted
  PROVE  NextTimestamp(accepted) =
           IF whitelist = {} THEN [now |-> now + Interval, ahead |-> {}]
           ELSE Jump(accepted)[now + Interval][ahead]
BY Zenon DEF NextTimestamp, Jump, IsJump, Look

\* What the jumps do, from the end of the backtesting backwards.
Lands(accepted, t, q) ==
  /\ Arrives(Jump(accepted)[t][q], t, q)
  /\ Gapless /\ whitelist \in Whitelists => JumpsOverNone(Jump(accepted)[t][q], t, q)

LEMMA JumpLooks ==
  ASSUME NEW accepted, NEW t \in Nat
  PROVE  Jump(accepted)[t] = Look(Jump(accepted), accepted, t)
<1>1. IsJump(Jump(accepted), accepted, Nat)
  BY JumpExists DEF Jump
<1>2. QED BY <1>1 DEF IsJump

LEMMA LandsHere ==
  ASSUME whitelist \in SUBSET Nat, NEW accepted, NEW t \in Nat, NEW q \in SUBSET whitelist,
         t \in accepted \/ t \in q \/ t > Finish
  PROVE  Lands(accepted, t, q)
<1>1. PICK r : r = Jump(accepted)[t][q]
  OBVIOUS
<1>2. q \in SUBSET Nat
  OBVIOUS
<1>3. Pop(t, q) \subseteq q /\ (t \in q => \A w \in q : w > t => w \in Pop(t, q))
  BY <1>2, PopKeeps
<1>4. r.now = t /\ (r.ahead = q \/ r.ahead = Pop(t, q))
  <2>1. PICK jump : jump = Jump(accepted)
    OBVIOUS
  <2>2. jump[t] = Look(jump, accepted, t) /\ r = jump[t][q]
    BY <2>1, <1>1, JumpLooks
  <2>3. r = [now |-> t, ahead |-> q] \/ r = [now |-> t, ahead |-> Pop(t, q)]
    BY <2>2 DEF Look
  <2>4. QED BY <2>3
<1>5. Arrives(r, t, q)
  BY <1>3, <1>4 DEF Arrives
<1>6. ASSUME Gapless, whitelist \in Whitelists PROVE JumpsOverNone(r, t, q)
  <2>1. SUFFICES ASSUME t % Interval = 0, \A w \in whitelist : t <= w => w \in q,
                        NEW w \in whitelist
                 PROVE  /\ w > r.now => w \in r.ahead
                        /\ w % Interval = 0 /\ t <= w => r.now <= w
    BY DEF JumpsOverNone
  <2>2. w > t => w \in q /\ w \in Pop(t, q)
    <3>1. CASE t \in q
      BY <3>1, <2>1, <1>3
    <3>2. CASE t \notin q
      BY <3>2, <2>1, <1>6, GapStays
    <3>3. QED BY <3>1, <3>2
  <2>3. QED BY <2>2, <1>4
<1>7. QED BY <1>1, <1>5, <1>6 DEF Lands

LEMMA LandsLater ==
  ASSUME whitelist \in SUBSET Nat, NEW accepted, NEW t \in Nat, NEW q \in SUBSET whitelist,
         ~ (t \in accepted \/ t \in q \/ t > Finish),
         Lands(accepted, t + Interval, Pop(t, q))
  PROVE  Lands(accepted, t, q)
<1>1. PICK r : r = Jump(accepted)[t][q]
  OBVIOUS
<1>2. q \in SUBSET Nat /\ Pop(t, q) \subseteq q /\ Interval \in Nat \ {0}
  BY PopKeeps, TimeAssumption
<1>3. r = Jump(accepted)[t + Interval][Pop(t, q)]
  <2>1. PICK jump : jump = Jump(accepted)
    OBVIOUS
  <2>2. jump[t] = Look(jump, accepted, t) /\ r = jump[t][q]
    BY <2>1, <1>1, JumpLooks
  <2>3. r = jump[t + Interval][Pop(t, q)]
    BY <2>2 DEF Look
  <2>4. QED BY <2>1, <2>3
<1>4. Arrives(r, t, q)
  <2>1. Arrives(r, t + Interval, Pop(t, q))
    BY <1>3 DEF Lands
  <2>2. t % Interval = 0 => (t + Interval) % Interval = 0
    BY NextTick
  <2>3. QED BY <2>1, <2>2, <1>2 DEF Arrives
<1>5. ASSUME Gapless, whitelist \in Whitelists PROVE JumpsOverNone(r, t, q)
  <2>1. SUFFICES ASSUME t % Interval = 0, \A w \in whitelist : t <= w => w \in q,
                        NEW w \in whitelist
                 PROVE  /\ w > r.now => w \in r.ahead
                        /\ w % Interval = 0 /\ t <= w => r.now <= w
    BY DEF JumpsOverNone
  <2>2. t + Interval \in Nat /\ (t + Interval) % Interval = 0
    BY <2>1, NextTick
  <2>3. \A v \in whitelist : t <= v => t < v /\ v \in Pop(t, q)
    BY <2>1, <1>5, GapStays
  <2>4. \A v \in whitelist : t + Interval <= v => v \in Pop(t, q)
    BY <2>3, <1>2
  <2>5. JumpsOverNone(r, t + Interval, Pop(t, q))
    BY <1>3, <1>5 DEF Lands
  <2>6. /\ w > r.now => w \in r.ahead
        /\ w % Interval = 0 /\ t + Interval <= w => r.now <= w
    BY <2>2, <2>4, <2>5 DEF JumpsOverNone
  <2>7. ASSUME w % Interval = 0, t <= w PROVE t + Interval <= w
    <3>1. t < w /\ w \in Nat
      BY <2>3, <2>7
    <3>2. QED BY <3>1, <2>1, <2>7, NothingBetweenTicks
  <2>8. QED BY <2>6, <2>7
<1>6. QED BY <1>1, <1>4, <1>5 DEF Lands

LEMMA JumpLands ==
  ASSUME whitelist \in SUBSET Nat, NEW accepted
  PROVE  \A t \in Nat : \A q \in SUBSET whitelist : Lands(accepted, t, q)
<1> DEFINE bad == {k \in Nat : \E t \in FromTheEnd(k) : \E q \in SUBSET whitelist :
                                ~ Lands(accepted, t, q)}
<1>1. bad = {}
  <2>1. SUFFICES ASSUME bad # {} PROVE FALSE
    OBVIOUS
  <2>2. PICK k \in bad : \A l \in bad : k <= l
    <3>1. bad \subseteq Nat
      OBVIOUS
    <3> HIDE DEF bad
    <3>2. QED BY <2>1, <3>1, NatMin
  <2>3. PICK t \in FromTheEnd(k) : \E q \in SUBSET whitelist : ~ Lands(accepted, t, q)
    BY <2>2
  <2>4. PICK q \in SUBSET whitelist : ~ Lands(accepted, t, q)
    BY <2>3
  <2>5. t \in Nat /\ t + k > Finish /\ k \in Nat /\ Finish \in Nat /\ Interval \in Nat \ {0}
    BY <2>2, TimeAssumption DEF FromTheEnd
  <2>6. ~ (t \in accepted \/ t \in q \/ t > Finish)
    BY <2>4, <2>5, LandsHere
  <2>7. k - 1 \in Nat /\ k - 1 \notin bad
    BY <2>2, <2>5, <2>6
  <2>8. t + Interval \in FromTheEnd(k - 1)
    BY <2>5 DEF FromTheEnd
  <2>9. Pop(t, q) \in SUBSET whitelist
    BY DEF Pop
  <2>10. Lands(accepted, t + Interval, Pop(t, q))
    BY <2>7, <2>8, <2>9
  <2>11. QED BY <2>4, <2>5, <2>6, <2>10, LandsLater
<1>2. ASSUME NEW t \in Nat, NEW q \in SUBSET whitelist PROVE Lands(accepted, t, q)
  <2>1. Finish + 1 \in Nat /\ t \in FromTheEnd(Finish + 1)
    BY TimeAssumption DEF FromTheEnd
  <2>2. QED BY <2>1, <1>1
<1>3. QED BY <1>2

-----------------------------------------------------------------------------
(* What the operators of the drain return.                                 *)
LEMMA ConstantsInRange ==
  /\ Interval \in Nat \ {0} /\ Finish \in Nat /\ MaxPushes \in Nat /\ MaxErrors \in Nat
  /\ \A c \in Consumers : /\ ChannelOf[c] \in Channels /\ PriorityOf[c] \in Levels
                          /\ Forwards[c] \subseteq Channels
  /\ Producers \in Seq(Channels) /\ TimeChannel \in Channels /\ Late \subseteq Consumers
  /\ \A W \in Whitelists : W \subseteq Nat
BY TimeAssumption, ConsumersAssumption, ChannelsAssumption

LEMMA AtFields ==
  ASSUME NEW pc \in {"push", "level", "drain", "cycle", "ended"},
         NEW left \in SUBSET Levels, NEW level \in Levels
  PROVE  /\ At(pc, left, level) \in Loop
         /\ At(pc, left, level).pc = pc /\ At(pc, left, level).left = left
         /\ At(pc, left, level).level = level
         /\ At(pc, left, level).next = <<>> /\ At(pc, left, level).todo = <<>>
BY DEF At, Loop

LEMMA LoopFields ==
  ASSUME loop \in Loop
  PROVE  /\ loop.pc \in {"push", "level", "drain", "cycle", "ended"}
         /\ loop.left \in SUBSET Levels /\ loop.level \in Levels
         /\ loop.next \in Seq(Channels) /\ loop.todo \in Seq(Consumers)
BY DEF Loop

LEMMA LowestOf ==
  ASSUME NEW left \in SUBSET Levels, left # {}
  PROVE  Lowest(left) \in left /\ \A k \in left : Lowest(left) <= k
<1>1. left \subseteq Nat
  BY DEF Levels
<1>2. \E l \in left : \A k \in left : l <= k
  BY <1>1, NatMin
<1>3. QED BY <1>2 DEF Lowest

LEMMA Prioritized ==
  ASSUME TypeOK, NEW ch \in Channels, NEW l \in Levels
  PROVE  /\ GetPrioritizedConsumers(ch, l) \in Seq(Consumers)
         /\ \A c : c \in ToSet(GetPrioritizedConsumers(ch, l)) <=>
                    c \in ToSet(consumers[ch]) /\ PriorityOf[c] <= l
<1>1. consumers[ch] \in Seq(Consumers)
  BY DEF TypeOK
<1>2. ToSet(consumers[ch]) \subseteq Consumers
  BY <1>1, RangeOfSequence
<1>3. /\ GetPrioritizedConsumers(ch, l) \in Seq(Consumers)
      /\ ToSet(GetPrioritizedConsumers(ch, l)) =
           ToSet(consumers[ch]) \cap {c \in Consumers : PriorityOf[c] <= l}
  BY <1>1, OnlyRange DEF GetPrioritizedConsumers
<1>4. QED BY <1>2, <1>3

\* A registered consumer is in the list of its channel.
LEMMA RegisteredWhere ==
  ASSUME TypeOK, Listed, NEW c
  PROVE  c \in Registered <=> c \in Consumers /\ c \in ToSet(consumers[ChannelOf[c]])
<1>1. ASSUME c \in Registered PROVE c \in Consumers /\ c \in ToSet(consumers[ChannelOf[c]])
  <2>1. PICK ch \in Channels : c \in ToSet(consumers[ch])
    BY <1>1 DEF Registered
  <2>2. c \in Consumers /\ ChannelOf[c] = ch
    BY <2>1 DEF Listed, ConsumersOf
  <2>3. QED BY <2>1, <2>2
<1>2. ASSUME c \in Consumers, c \in ToSet(consumers[ChannelOf[c]]) PROVE c \in Registered
  BY <1>2, ConstantsInRange DEF Registered
<1>3. QED BY <1>1, <1>2

\* Empty queues of some producers: no message for their consumers of that level.
LEMMA EmptinessMeans ==
  ASSUME TypeOK, Listed, NEW producers, NEW l \in Levels, CheckEmptiness(producers, l),
         NEW c \in Registered, ChannelOf[c] \in ToSet(producers), PriorityOf[c] <= l
  PROVE  queue[c] = <<>>
<1>1. c \in Consumers /\ c \in ToSet(consumers[ChannelOf[c]])
  BY RegisteredWhere
<1>2. ChannelOf[c] \in Channels
  BY <1>1, ConstantsInRange
<1>3. c \in ToSet(GetPrioritizedConsumers(ChannelOf[c], l))
  BY <1>1, <1>2, Prioritized
<1>4. QED BY <1>3 DEF CheckEmptiness

\* A message is appended to the queues of the registered consumers of a channel.
LEMMA SentQueues ==
  ASSUME TypeOK, Listed, NEW q \in [Consumers -> Seq(Message)], NEW ch \in Channels,
         NEW m \in Message
  PROVE  /\ Sent(q, ch, m) \in [Consumers -> Seq(Message)]
         /\ \A c \in Consumers \ Registered : Sent(q, ch, m)[c] = q[c]
         /\ \A c \in Consumers : ToSet(Sent(q, ch, m)[c]) \subseteq ToSet(q[c]) \cup {m}
         /\ \A c \in Registered : ChannelOf[c] = ch => Sent(q, ch, m)[c] # <<>>
<1>1. \A c \in Consumers :
        /\ q[c] \in Seq(Message)
        /\ Append(q[c], m) \in Seq(Message)
        /\ ToSet(Append(q[c], m)) = ToSet(q[c]) \cup {m}
  BY RangeOfAppend
<1>2. \A c \in Consumers :
        Sent(q, ch, m)[c] = IF c \in ToSet(consumers[ch]) THEN Append(q[c], m) ELSE q[c]
  BY DEF Sent
<1>3. Sent(q, ch, m) \in [Consumers -> Seq(Message)]
  BY <1>1 DEF Sent
<1>4. \A c \in Consumers : c \in ToSet(consumers[ch]) => c \in Registered
  BY DEF Registered
<1>5. \A c \in Consumers : ToSet(Sent(q, ch, m)[c]) \subseteq ToSet(q[c]) \cup {m}
  BY <1>1, <1>2
<1>6. ASSUME NEW c \in Registered, ChannelOf[c] = ch PROVE Sent(q, ch, m)[c] # <<>>
  <2>1. c \in Consumers /\ c \in ToSet(consumers[ch])
    BY <1>6, RegisteredWhere
  <2>2. m \in ToSet(Sent(q, ch, m)[c]) /\ Sent(q, ch, m)[c] \in Seq(Message)
    BY <2>1, <1>1, <1>2
  <2>3. QED BY <2>2, RangeOfEmpty
<1>7. QED BY <1>2, <1>3, <1>4, <1>5, <1>6

LEMMA PoppedQueues ==
  ASSUME TypeOK, Listed, HasMessage
  PROVE  /\ Current \in Registered /\ Current \in Consumers /\ Current \in ToSet(loop.todo)
         /\ Popped \in [Consumers -> Seq(Message)]
         /\ \A c \in Consumers \ Registered : Popped[c] = queue[c]
         /\ \A c \in Consumers : ToSet(Popped[c]) \subseteq ToSet(queue[c])
<1>1. loop.todo \in Seq(Consumers) /\ loop.todo # <<>>
  BY LoopFields DEF TypeOK, HasMessage
<1>2. Current \in Consumers /\ Current \in ToSet(loop.todo)
  BY <1>1, RangeOfTail DEF Current
<1>3. Current \in Registered
  BY <1>2 DEF Listed, HasMessage
<1>4. queue \in [Consumers -> Seq(Message)]
  BY DEF TypeOK
<1>5. /\ Tail(queue[Current]) \in Seq(Message)
      /\ ToSet(Tail(queue[Current])) \subseteq ToSet(queue[Current])
  BY <1>2, <1>4, RangeOfTail DEF HasMessage
<1> DEFINE cur == Current
<1> HIDE DEF cur
<1>6. Popped = [queue EXCEPT ![cur] = Tail(queue[cur])]
  BY <1>4, <1>2 DEF Popped, cur
<1>7. /\ Popped \in [Consumers -> Seq(Message)]
      /\ \A c \in Consumers : Popped[c] = IF c = cur THEN Tail(queue[cur]) ELSE queue[c]
  BY <1>4, <1>5, <1>6 DEF cur
<1>8. QED BY <1>2, <1>3, <1>5, <1>7 DEF cur

LEMMA MessageType ==
  ASSUME TypeOK, NEW by \in {"time", "callback", "task"}, NEW l \in Levels
  PROVE  [at |-> now, by |-> by, level |-> l] \in Message
BY DEF TypeOK, Message

\* Where the clock goes.
LEMMA NextTimestampArrives ==
  ASSUME TypeOK, NEW accepted
  PROVE  LET r == NextTimestamp(accepted) IN
         /\ r.now \in Nat /\ r.now # 0 /\ r.ahead \in SUBSET whitelist
         /\ now % Interval = 0 => r.now % Interval = 0
<1>1. PICK r : r = NextTimestamp(accepted)
  OBVIOUS
<1>2. now \in Nat /\ whitelist \in SUBSET Nat /\ ahead \in SUBSET whitelist
  BY DEF TypeOK
<1>3. now + Interval \in Nat \ {0}
  BY <1>2, ConstantsInRange
<1>4. now % Interval = 0 => (now + Interval) % Interval = 0
  BY <1>2, NextTick
<1>5. CASE whitelist = {}
  <2>1. r = [now |-> now + Interval, ahead |-> {}]
    BY <1>1, <1>5, NextTimestampIsJump
  <2>2. r.now = now + Interval /\ r.ahead = {}
    BY <2>1
  <2>3. QED BY <1>1, <1>3, <1>4, <2>2
<1>6. CASE whitelist # {}
  <2>1. r = Jump(accepted)[now + Interval][ahead]
    BY <1>1, <1>6, NextTimestampIsJump
  <2>2. Lands(accepted, now + Interval, ahead)
    BY <1>2, <1>3, JumpLands
  <2>3. Arrives(r, now + Interval, ahead)
    BY <2>1, <2>2 DEF Lands
  <2>4. /\ r.now \in Nat /\ now + Interval <= r.now /\ r.ahead \subseteq ahead
        /\ (now + Interval) % Interval = 0 => r.now % Interval = 0
    BY <2>3 DEF Arrives
  <2>5. \A m \in Nat \ {0}, n \in Nat : m <= n => n # 0
    OBVIOUS
  <2>6. r.now # 0
    BY <2>4, <2>5, <1>3
  <2>7. r.ahead \in SUBSET whitelist
    BY <2>4, <1>2
  <2>8. QED BY <1>1, <1>4, <2>4, <2>6, <2>7
<1>7. QED BY <1>5, <1>6

LEMMA ServedByLevels ==
  ASSUME TypeOK, NEW producers \in Seq(Channels)
  PROVE  LET s == UpdateProducersByPriorityLevels(producers) IN
         /\ DOMAIN s \subseteq Levels /\ \A l \in DOMAIN s : s[l] \in Seq(Channels)
<1>1. \A l \in Levels : WithConsumers(producers, l) \in Seq(Channels)
  BY OnlyRange DEF WithConsumers
<1>2. QED BY <1>1 DEF UpdateProducersByPriorityLevels

LEMMA ChannelsKept ==
  /\ ClearEmptyChannelsProducers \in Seq(Channels)
  /\ \A ch \in Channels : consumers[ch] # <<>> => ch \in ToSet(ClearEmptyChannelsProducers)
<1>1. Producers \in Seq(Channels) /\ ToSet(Producers) = Channels
  BY ConstantsInRange DEF Channels
<1>2. QED BY <1>1, OnlyRange DEF ClearEmptyChannelsProducers

-----------------------------------------------------------------------------
(* The basis: the initial state, then every step.                          *)
LEMMA InitBasis == Init => Basis
<1>1. SUFFICES ASSUME Init PROVE Basis
  OBVIOUS
<1>2. /\ now = 0 /\ whitelist \in Whitelists /\ ahead = whitelist
      /\ queue = [c \in Consumers |-> <<>>]
      /\ kept = Producers /\ served = [l \in Levels |-> Producers]
      /\ loop = At("push", {}, 0)
      /\ tasks = {} /\ shouldStop = FALSE /\ pushes = 0 /\ errors = 0
      /\ triggered = {} /\ cut = {}
  BY <1>1 DEF Init
<1> DEFINE list == SetToSeq(Consumers \ Late)
<1>3. list \in Seq(Consumers \ Late) /\ ToSet(list) = Consumers \ Late
  <2>1. IsFiniteSet(Consumers \ Late)
    BY ConsumersAssumption, FS_Difference
  <2>2. QED BY <2>1, ListOfSet
<1> HIDE DEF list
<1>4. list \in Seq(Consumers)
  BY <1>3
<1>5. \A ch \in Channels :
        /\ Only(list, ConsumersOf(ch)) \in Seq(Consumers)
        /\ ToSet(Only(list, ConsumersOf(ch))) = (Consumers \ Late) \cap ConsumersOf(ch)
  BY <1>3, <1>4, OnlyRange
<1>6. consumers = [ch \in Channels |-> Only(list, ConsumersOf(ch))]
  BY <1>1 DEF Init, list
<1>7. /\ consumers \in [Channels -> Seq(Consumers)]
      /\ \A ch \in Channels :
           ToSet(consumers[ch]) = (Consumers \ Late) \cap ConsumersOf(ch)
  BY <1>5, <1>6
<1>8. /\ loop \in Loop /\ loop.pc = "push" /\ loop.left = {} /\ loop.todo = <<>>
      /\ {} \in SUBSET Levels /\ 0 \in Levels
  <2>1. {} \in SUBSET Levels /\ 0 \in Levels
    BY DEF Levels
  <2>2. QED BY <1>2, <2>1, AtFields
<1>9. TypeOK
  <2>1. /\ now \in Nat /\ whitelist \in SUBSET Nat /\ ahead \in SUBSET whitelist
        /\ pushes \in 0 .. MaxPushes /\ errors \in 0 .. MaxErrors
    BY <1>2, ConstantsInRange
  <2>2. queue \in [Consumers -> Seq(Message)]
    BY <1>2
  <2>3. /\ kept \in Seq(Channels)
        /\ DOMAIN served \subseteq Levels /\ \A l \in DOMAIN served : served[l] \in Seq(Channels)
    BY <1>2, ConstantsInRange
  <2>4. QED BY <1>2, <1>7, <1>8, <2>1, <2>2, <2>3 DEF TypeOK
<1>10. Listed
  <2>1. \A ch \in Channels : ToSet(consumers[ch]) \subseteq ConsumersOf(ch)
    BY <1>7
  <2>2. \A c \in Consumers \ Late : c \in Registered
    <3>1. SUFFICES ASSUME NEW c \in Consumers \ Late PROVE c \in Registered
      OBVIOUS
    <3>2. ChannelOf[c] \in Channels /\ c \in ConsumersOf(ChannelOf[c])
      BY ConstantsInRange DEF ConsumersOf
    <3>3. c \in ToSet(consumers[ChannelOf[c]])
      BY <3>2, <1>7
    <3>4. QED BY <3>2, <3>3 DEF Registered
  <2>3. QED BY <1>2, <2>1, <2>2 DEF Listed
<1>11. Pending
  <2>1. ToSet(loop.todo) = {}
    BY <1>8, RangeOfEmpty, LoopFields
  <2>2. QED BY <1>8, <2>1 DEF Pending
<1>12. Ticked
  <2>1. 0 % Interval = 0
    BY ConstantsInRange
  <2>2. QED BY <1>2, <1>8, <2>1 DEF Ticked
<1>13. QED BY <1>9, <1>10, <1>11, <1>12 DEF Basis

\* Who is registered changes only when a consumer is added.
LEMMA ListedStays ==
  ASSUME Listed, consumers' = consumers,
         \A c \in Consumers \ Registered : queue'[c] = queue[c]
  PROVE  Listed' /\ Registered' = Registered
BY DEF Listed, Registered

\* A loop that is at the start of an iteration, of a level or of a cycle.
LEMMA LoopRestarts ==
  ASSUME TypeOK, NEW pc \in {"push", "level", "cycle", "ended"},
         NEW left \in SUBSET Levels, NEW level \in Levels,
         left \subseteq DOMAIN served', loop' = At(pc, left, level)
  PROVE  /\ loop' \in Loop /\ loop'.pc = pc /\ loop'.left = left /\ loop'.level = level
         /\ Pending'
<1>1. /\ loop' \in Loop /\ loop'.pc = pc /\ loop'.left = left /\ loop'.level = level
      /\ loop'.todo = <<>>
  BY AtFields
<1>2. ToSet(loop'.todo) = {}
  <2>1. <<>> \in Seq(Consumers)
    OBVIOUS
  <2>2. QED BY <1>1, <2>1, RangeOfEmpty
<1>3. QED BY <1>1, <1>2 DEF Pending

LEMMA PushBasis == ASSUME Basis, Push PROVE Basis'
<1>1. TypeOK /\ Listed /\ Pending /\ Ticked
  BY DEF Basis
<1>2. [at |-> now, by |-> "time", level |-> 0] \in Message
  BY <1>1, MessageType DEF Levels
<1>3. queue \in [Consumers -> Seq(Message)] /\ TimeChannel \in Channels
  BY <1>1, ConstantsInRange DEF TypeOK
<1>4. queue' = Sent(queue, TimeChannel, [at |-> now, by |-> "time", level |-> 0])
  BY DEF Push
<1>5. /\ queue' \in [Consumers -> Seq(Message)]
      /\ \A c \in Consumers \ Registered : queue'[c] = queue[c]
  BY <1>1, <1>2, <1>3, <1>4, SentQueues
<1>6. /\ loop' = At("level", DOMAIN served, 0) /\ DOMAIN served \in SUBSET Levels
      /\ 0 \in Levels /\ served' = served /\ consumers' = consumers
  BY <1>1 DEF Push, channels, TypeOK, Levels
<1>7. loop' \in Loop /\ loop'.pc = "level" /\ Pending'
  BY <1>1, <1>6, LoopRestarts
<1>8. TypeOK'
  BY <1>1, <1>5, <1>7 DEF Push, TypeOK, channels, counters
<1>9. Listed'
  BY <1>1, <1>5, <1>6, ListedStays
<1>10. Ticked'
  BY <1>1 DEF Push, Ticked
<1>11. QED BY <1>7, <1>8, <1>9, <1>10 DEF Basis

\* Steps of the drain that only move the loop.
LEMMA LoopMoves ==
  ASSUME Basis, loop' \in Loop, Pending',
         loop'.pc \in {"level", "drain", "cycle"} => loop.pc \in {"level", "drain", "cycle"},
         clock' = clock, channels' = channels, queue' = queue, tasks' = tasks,
         shouldStop' \in BOOLEAN, counters' = counters
  PROVE  Basis'
<1>1. TypeOK'
  BY DEF Basis, TypeOK, clock, channels, counters
<1>2. Listed'
  BY DEF Basis, Listed, Registered, channels
<1>3. Ticked'
  BY DEF Basis, Ticked, clock
<1>4. QED BY <1>1, <1>2, <1>3 DEF Basis

LEMMA SkipLevelBasis == ASSUME Basis, SkipLevel PROVE Basis'
<1>1. TypeOK /\ Pending
  BY DEF Basis
<1>2. loop.left \in SUBSET Levels /\ loop.left # {} /\ loop.pc = "level"
  BY <1>1, LoopFields DEF TypeOK, SkipLevel
<1>3. PICK l : l = Lowest(loop.left)
  OBVIOUS
<1>4. l \in loop.left /\ l \in Levels
  BY <1>2, <1>3, LowestOf
<1>5. /\ loop' = At("level", loop.left \ {l}, l) /\ channels' = channels
      /\ clock' = clock /\ queue' = queue /\ tasks' = tasks /\ shouldStop' = shouldStop
      /\ counters' = counters
  BY <1>3 DEF SkipLevel
<1>6. loop.left \ {l} \in SUBSET Levels /\ loop.left \ {l} \subseteq DOMAIN served'
  BY <1>1, <1>2, <1>5 DEF Pending, channels
<1>7. loop' \in Loop /\ Pending'
  BY <1>1, <1>4, <1>5, <1>6, LoopRestarts
<1>8. shouldStop' \in BOOLEAN
  BY <1>1, <1>5 DEF TypeOK
<1>9. QED BY <1>2, <1>5, <1>7, <1>8, LoopMoves

\* What the loop is when a level starts.
LEMMA StartLevelLoop ==
  ASSUME Basis, StartLevel
  PROVE  /\ loop.pc = "level" /\ Lowest(loop.left) \in loop.left
         /\ \A k \in loop.left : Lowest(loop.left) <= k
         /\ ~ CheckEmptiness(served[Lowest(loop.left)], Lowest(loop.left))
         /\ loop' \in Loop /\ Pending'
         /\ loop'.pc = (IF shouldStop THEN "cycle" ELSE "drain")
         /\ loop'.left = loop.left \ {Lowest(loop.left)} /\ loop'.level = Lowest(loop.left)
         /\ clock' = clock /\ channels' = channels /\ queue' = queue /\ tasks' = tasks
         /\ shouldStop' = shouldStop /\ counters' = counters
<1>1. TypeOK /\ Pending
  BY DEF Basis
<1>2. loop.left \in SUBSET Levels /\ loop.left # {} /\ loop.pc = "level"
  BY <1>1, LoopFields DEF TypeOK, StartLevel
<1>3. PICK l : l = Lowest(loop.left)
  OBVIOUS
<1>4. l \in loop.left /\ l \in Levels /\ \A k \in loop.left : l <= k
  BY <1>2, <1>3, LowestOf
<1>5. PICK pc : pc = IF shouldStop THEN "cycle" ELSE "drain"
  OBVIOUS
<1>6. /\ loop' = [At(pc, loop.left \ {l}, l) EXCEPT !.next = served[l]]
      /\ channels' = channels /\ clock' = clock /\ queue' = queue /\ tasks' = tasks
      /\ shouldStop' = shouldStop /\ counters' = counters /\ ~ CheckEmptiness(served[l], l)
  BY <1>3, <1>5, Zenon DEF StartLevel
<1>7. l \in DOMAIN served /\ served[l] \in Seq(Channels) /\ served' = served
  BY <1>1, <1>4, <1>6 DEF Pending, TypeOK, channels
<1>8. loop.left \ {l} \in SUBSET Levels
  BY <1>2
<1>9. loop' = [pc |-> pc, left |-> loop.left \ {l}, level |-> l, next |-> served[l], todo |-> <<>>]
  BY <1>6 DEF At
<1>10. loop' \in Loop
  BY <1>4, <1>5, <1>7, <1>8, <1>9 DEF Loop
<1>11. Pending'
  <2>1. loop'.todo = <<>> /\ <<>> \in Seq(Consumers)
    BY <1>9
  <2>2. ToSet(loop'.todo) = {}
    BY <2>1, RangeOfEmpty
  <2>3. loop'.left = loop.left \ {l} /\ loop'.level = l
    BY <1>9
  <2>4. QED BY <2>2, <2>3, <1>1, <1>7 DEF Pending
<1>12. loop'.pc = pc /\ loop'.left = loop.left \ {l} /\ loop'.level = l
  BY <1>9
<1>13. QED BY <1>2, <1>3, <1>4, <1>5, <1>6, <1>10, <1>11, <1>12

LEMMA StartLevelBasis == ASSUME Basis, StartLevel PROVE Basis'
<1>1. shouldStop' \in BOOLEAN
  BY StartLevelLoop DEF Basis, TypeOK
<1>2. QED BY <1>1, StartLevelLoop, LoopMoves

LEMMA NextProducerBasis ==
  ASSUME Basis, NextProducer
  PROVE  /\ Basis' /\ loop'.pc = loop.pc /\ loop'.left = loop.left /\ loop'.level = loop.level
<1>1. TypeOK /\ Pending
  BY DEF Basis
<1>2. /\ loop \in Loop /\ loop.left \in SUBSET Levels /\ loop.level \in Levels
      /\ loop.next \in Seq(Channels) /\ loop.next # <<>> /\ loop.pc = "drain"
  BY <1>1, LoopFields DEF TypeOK, NextProducer
<1>3. Head(loop.next) \in Channels /\ Tail(loop.next) \in Seq(Channels)
  BY <1>2, RangeOfTail
<1>4. PICK list : list = GetPrioritizedConsumers(Head(loop.next), loop.level)
  OBVIOUS
<1>5. list \in Seq(Consumers) /\ \A c \in ToSet(list) : PriorityOf[c] <= loop.level
  BY <1>1, <1>2, <1>3, <1>4, Prioritized
<1>6. /\ loop' = [loop EXCEPT !.todo = list, !.next = Tail(loop.next)]
      /\ channels' = channels /\ clock' = clock /\ queue' = queue /\ tasks' = tasks
      /\ shouldStop' = shouldStop /\ counters' = counters
  BY <1>2, <1>4 DEF NextProducer, Loop
<1>7. /\ loop' \in Loop /\ loop'.pc = loop.pc /\ loop'.left = loop.left
      /\ loop'.level = loop.level /\ loop'.todo = list
  BY <1>2, <1>3, <1>5, <1>6 DEF Loop
<1>8. Pending'
  BY <1>1, <1>5, <1>6, <1>7 DEF Pending, channels
<1>9. shouldStop' \in BOOLEAN
  BY <1>1, <1>6 DEF TypeOK
<1>10. QED BY <1>2, <1>6, <1>7, <1>8, <1>9, LoopMoves

LEMMA NextConsumerBasis ==
  ASSUME Basis, NextConsumer
  PROVE  /\ Basis' /\ loop'.pc = loop.pc /\ loop'.left = loop.left /\ loop'.level = loop.level
<1>1. TypeOK /\ Pending
  BY DEF Basis
<1>2. /\ loop \in Loop /\ loop.left \in SUBSET Levels /\ loop.level \in Levels
      /\ loop.todo \in Seq(Consumers) /\ loop.todo # <<>> /\ loop.pc = "drain"
  BY <1>1, LoopFields DEF TypeOK, NextConsumer
<1>3. PICK list : list = Tail(loop.todo)
  OBVIOUS
<1>4. list \in Seq(Consumers) /\ ToSet(list) \subseteq ToSet(loop.todo)
  BY <1>2, <1>3, RangeOfTail
<1>5. /\ loop' = [loop EXCEPT !.todo = list]
      /\ channels' = channels /\ clock' = clock /\ queue' = queue /\ tasks' = tasks
      /\ shouldStop' = shouldStop /\ counters' = counters
  BY <1>2, <1>3 DEF NextConsumer, Loop
<1>6. /\ loop' \in Loop /\ loop'.pc = loop.pc /\ loop'.left = loop.left
      /\ loop'.level = loop.level /\ loop'.todo = list
  BY <1>2, <1>4, <1>5 DEF Loop
<1>7. Pending'
  BY <1>1, <1>4, <1>5, <1>6 DEF Pending, channels
<1>8. shouldStop' \in BOOLEAN
  BY <1>1, <1>5 DEF TypeOK
<1>9. QED BY <1>2, <1>5, <1>6, <1>7, <1>8, LoopMoves

LEMMA RecheckBasis ==
  ASSUME Basis, Recheck
  PROVE  /\ Basis' /\ loop'.left = loop.left /\ loop'.level = loop.level
         /\ IF shouldStop \/ CheckEmptiness(kept, loop.level)
            THEN loop'.pc = "cycle" ELSE loop'.pc = "drain"
<1>1. TypeOK /\ Pending
  BY DEF Basis
<1>2. /\ loop \in Loop /\ loop.left \in SUBSET Levels /\ loop.level \in Levels
      /\ loop.left \subseteq DOMAIN served /\ loop.level \in DOMAIN served
      /\ loop.todo = <<>> /\ loop.pc = "drain"
  BY <1>1, LoopFields DEF TypeOK, Recheck, Pending
<1>3. /\ channels' = channels /\ clock' = clock /\ queue' = queue /\ tasks' = tasks
      /\ shouldStop' = shouldStop /\ counters' = counters /\ served' = served
      /\ shouldStop' \in BOOLEAN
  BY <1>1 DEF Recheck, channels, TypeOK
<1>4. CASE shouldStop \/ CheckEmptiness(kept, loop.level)
  <2>1. loop' = At("cycle", loop.left, loop.level)
    BY <1>4 DEF Recheck
  <2>2. /\ loop' \in Loop /\ Pending' /\ loop'.pc = "cycle" /\ loop'.left = loop.left
        /\ loop'.level = loop.level
    BY <2>1, <1>1, <1>2, <1>3, LoopRestarts
  <2>3. QED BY <2>2, <1>2, <1>3, <1>4, LoopMoves
<1>5. CASE ~ (shouldStop \/ CheckEmptiness(kept, loop.level))
  <2>1. loop' = [loop EXCEPT !.next = served[loop.level]]
    BY <1>5 DEF Recheck
  <2>2. served[loop.level] \in Seq(Channels)
    BY <1>1, <1>2 DEF TypeOK
  <2>3. /\ loop' \in Loop /\ loop'.pc = "drain" /\ loop'.left = loop.left
        /\ loop'.level = loop.level /\ loop'.todo = <<>>
    BY <2>1, <2>2, <1>2 DEF Loop
  <2>4. Pending'
    BY <2>3, <1>1, <1>2, <1>3 DEF Pending
  <2>5. QED BY <2>3, <2>4, <1>2, <1>3, <1>5, LoopMoves
<1>6. QED BY <1>4, <1>5

\* Steps that take or add messages of registered consumers, at the same time.
LEMMA QueuesMove ==
  ASSUME Basis, loop' \in Loop, Pending',
         loop'.pc \in {"level", "drain", "cycle"} => loop.pc \in {"level", "drain", "cycle"},
         queue' \in [Consumers -> Seq(Message)],
         \A c \in Consumers \ Registered : queue'[c] = queue[c],
         clock' = clock, channels' = channels, tasks' \subseteq Task,
         shouldStop' = shouldStop,
         pushes' \in 0 .. MaxPushes, errors' \in 0 .. MaxErrors, cut' \subseteq Nat
  PROVE  Basis'
<1>1. TypeOK'
  BY DEF Basis, TypeOK, clock, channels
<1>2. Listed'
  BY ListedStays DEF Basis, channels
<1>3. Ticked'
  BY DEF Basis, Ticked, clock
<1>4. QED BY <1>1, <1>2, <1>3 DEF Basis

\* What a callback that returns does.
LEMMA PerformEffect ==
  ASSUME Basis, Perform
  PROVE  /\ HasMessage /\ loop.pc = "drain" /\ Current \in Registered
         /\ PriorityOf[Current] <= loop.level
         /\ loop' = loop /\ clock' = clock /\ channels' = channels /\ shouldStop' = shouldStop
         /\ errors' = errors /\ cut' = cut
         /\ queue' \in [Consumers -> Seq(Message)]
         /\ \A c \in Consumers \ Registered : queue'[c] = queue[c]
         /\ \A c \in Consumers : \A m \in ToSet(queue'[c]) :
              m \in ToSet(queue[c]) \/ (m.at = now /\ m.level = loop.level)
         /\ tasks' \subseteq Task /\ \A t \in tasks' : t \in tasks \/ t.at = now
         /\ pushes' \in 0 .. MaxPushes
<1>1. TypeOK /\ Listed /\ Pending
  BY DEF Basis
<1>2. /\ HasMessage /\ (Returns \/ Pushes \/ CreatesTask) /\ loop.pc = "drain"
      /\ loop' = loop /\ clock' = clock /\ channels' = channels /\ shouldStop' = shouldStop
      /\ errors' = errors /\ cut' = cut
  BY DEF Perform, HasMessage
<1>3. /\ Current \in Registered /\ Current \in Consumers /\ Current \in ToSet(loop.todo)
      /\ Popped \in [Consumers -> Seq(Message)]
      /\ \A c \in Consumers \ Registered : Popped[c] = queue[c]
      /\ \A c \in Consumers : ToSet(Popped[c]) \subseteq ToSet(queue[c])
  BY <1>1, <1>2, PoppedQueues
<1>4. PriorityOf[Current] <= loop.level
  BY <1>1, <1>3 DEF Pending
<1>5. Forwards[Current] \subseteq Channels
  BY <1>3, ConstantsInRange
<1>6. /\ loop.level \in Levels /\ now \in Nat /\ tasks \subseteq Task /\ pushes \in 0 .. MaxPushes
      /\ MaxPushes \in Nat
  BY <1>1, LoopFields, ConstantsInRange DEF TypeOK
<1> DEFINE Moves ==
             /\ queue' \in [Consumers -> Seq(Message)]
             /\ \A c \in Consumers \ Registered : queue'[c] = queue[c]
             /\ \A c \in Consumers : \A m \in ToSet(queue'[c]) :
                  m \in ToSet(queue[c]) \/ (m.at = now /\ m.level = loop.level)
             /\ tasks' \subseteq Task /\ \A t \in tasks' : t \in tasks \/ t.at = now
             /\ pushes' \in 0 .. MaxPushes
<1>7. CASE Returns
  <2>1. queue' = Popped /\ tasks' = tasks /\ pushes' = pushes
    BY <1>7 DEF Returns
  <2>2. QED BY <2>1, <1>2, <1>3, <1>4, <1>6
<1>8. CASE Pushes
  <2>1. /\ pushes' \in 0 .. MaxPushes /\ tasks' = tasks
    BY <1>6, <1>8 DEF Pushes
  <2>2. PICK m : m = [at |-> now, by |-> "callback", level |-> loop.level]
    OBVIOUS
  <2>3. PICK ch \in Forwards[Current] : queue' = Sent(Popped, ch, m)
    BY <1>8, <2>2 DEF Pushes
  <2>4. m \in Message /\ m.at = now /\ m.level = loop.level /\ ch \in Channels
    <3>1. m \in Message
      BY <1>1, <1>6, <2>2, MessageType
    <3>2. m.at = now /\ m.level = loop.level
      BY <2>2
    <3>3. QED BY <3>1, <3>2, <1>5, <2>3
  <2> DEFINE popped == Popped
  <2>5. popped \in [Consumers -> Seq(Message)]
    BY <1>3
  <2> HIDE DEF popped
  <2>6. m \in Message /\ ch \in Channels
    BY <2>4
  <2>7. /\ Sent(popped, ch, m) \in [Consumers -> Seq(Message)]
        /\ \A c \in Consumers \ Registered : Sent(popped, ch, m)[c] = popped[c]
    BY <1>1, <2>5, <2>6, SentQueues
  <2>8. \A c \in Consumers : ToSet(Sent(popped, ch, m)[c]) \subseteq ToSet(popped[c]) \cup {m}
    BY <1>1, <2>5, <2>6, SentQueues
  <2>9. queue' = Sent(popped, ch, m)
    BY <2>3 DEF popped
  <2>10. \A c \in Consumers : ToSet(popped[c]) \subseteq ToSet(queue[c])
    BY <1>3 DEF popped
  <2>11. \A c \in Consumers \ Registered : queue'[c] = queue[c]
    BY <1>3, <2>7, <2>9 DEF popped
  <2>12. \A c \in Consumers : \A k \in ToSet(queue'[c]) :
          k \in ToSet(queue[c]) \/ (k.at = now /\ k.level = loop.level)
    BY <2>4, <2>8, <2>9, <2>10
  <2>13. Moves
    BY <1>6, <2>1, <2>7, <2>9, <2>11, <2>12
  <2>14. QED BY <1>2, <1>3, <1>4, <2>13
<1>9. CASE CreatesTask
  <2>1. queue' = Popped /\ pushes' \in 0 .. MaxPushes
    BY <1>6, <1>9 DEF CreatesTask
  <2>2. PICK ch \in Forwards[Current] : tasks' = tasks \cup {[channel |-> ch, at |-> now]}
    BY <1>9 DEF CreatesTask
  <2>3. [channel |-> ch, at |-> now] \in Task
    BY <1>5, <1>6, <2>2 DEF Task
  <2>4. tasks' \subseteq Task /\ \A t \in tasks' : t \in tasks \/ t.at = now
    BY <1>6, <2>2, <2>3
  <2>5. QED BY <1>2, <1>3, <1>4, <2>1, <2>4
<1>10. QED BY <1>2, <1>7, <1>8, <1>9

LEMMA PerformBasis == ASSUME Basis, Perform PROVE Basis'
<1>1. loop' \in Loop /\ errors' \in 0 .. MaxErrors /\ cut' \subseteq Nat
  BY PerformEffect DEF Basis, TypeOK
<1>2. Pending'
  BY PerformEffect DEF Basis, Pending, channels
<1>3. QED BY <1>1, <1>2, PerformEffect, QueuesMove

\* What a callback that raises does, whatever the error.
LEMMA ErrorEffect ==
  ASSUME Basis, PerformRaises \/ PerformTimesOut
  PROVE  /\ Current \in Registered /\ loop.pc = "drain"
         /\ queue' \in [Consumers -> Seq(Message)]
         /\ \A c \in Consumers \ Registered : queue'[c] = queue[c]
         /\ \A c \in Consumers : ToSet(queue'[c]) \subseteq ToSet(queue[c])
         /\ clock' = clock /\ channels' = channels /\ tasks' = tasks /\ shouldStop' = shouldStop
         /\ pushes' = pushes /\ errors' \in 0 .. MaxErrors
<1>1. TypeOK /\ Listed
  BY DEF Basis
<1>2. /\ HasMessage /\ queue' = Popped /\ errors < MaxErrors /\ errors' = errors + 1
      /\ clock' = clock /\ channels' = channels /\ tasks' = tasks /\ shouldStop' = shouldStop
      /\ pushes' = pushes
  BY DEF PerformRaises, PerformTimesOut
<1>3. errors' \in 0 .. MaxErrors
  BY <1>1, <1>2, ConstantsInRange DEF TypeOK
<1>4. loop.pc = "drain"
  BY <1>2 DEF HasMessage
<1>5. QED BY <1>1, <1>2, <1>3, <1>4, PoppedQueues

LEMMA PerformRaisesBasis ==
  ASSUME Basis, PerformRaises
  PROVE  Basis' /\ loop'.pc = "push" /\ loop'.left = {} /\ cut' = cut
<1>1. TypeOK
  BY DEF Basis
<1>2. loop' = At("push", {}, 0) /\ cut' = cut
  BY DEF PerformRaises
<1>3. {} \in SUBSET Levels /\ 0 \in Levels /\ {} \subseteq DOMAIN served'
  BY DEF Levels
<1>4. loop' \in Loop /\ loop'.pc = "push" /\ loop'.left = {} /\ Pending'
  BY <1>1, <1>2, <1>3, LoopRestarts
<1>5. tasks' \subseteq Task /\ pushes' \in 0 .. MaxPushes /\ cut' \subseteq Nat
  BY <1>1, <1>2, ErrorEffect DEF TypeOK
<1>6. QED BY <1>2, <1>4, <1>5, ErrorEffect, QueuesMove

LEMMA PerformTimesOutBasis ==
  ASSUME Basis, PerformTimesOut
  PROVE  Basis' /\ loop'.pc = "level" /\ loop'.left = loop.left /\ cut' = cut \cup {now}
<1>1. TypeOK /\ Pending
  BY DEF Basis
<1>2. loop' = At("level", loop.left, loop.level) /\ cut' = cut \cup {now}
  BY DEF PerformTimesOut
<1>3. loop.left \in SUBSET Levels /\ loop.level \in Levels
  BY <1>1, LoopFields DEF TypeOK
<1>4. served' = served /\ loop.left \subseteq DOMAIN served'
  BY <1>1, ErrorEffect DEF channels, Pending
<1>5. loop' \in Loop /\ loop'.pc = "level" /\ loop'.left = loop.left /\ Pending'
  BY <1>1, <1>2, <1>3, <1>4, LoopRestarts
<1>6. tasks' \subseteq Task /\ pushes' \in 0 .. MaxPushes /\ cut' \subseteq Nat
  BY <1>1, <1>2, ErrorEffect DEF TypeOK
<1>7. QED BY <1>2, <1>5, <1>6, ErrorEffect, QueuesMove

\* What a task does.
LEMMA RunEffect ==
  ASSUME Basis, Run
  PROVE  /\ loop.pc \in {"drain", "cycle"} /\ loop' = loop /\ clock' = clock
         /\ channels' = channels /\ shouldStop' = shouldStop /\ counters' = counters
         /\ tasks' \subseteq tasks
         /\ queue' \in [Consumers -> Seq(Message)]
         /\ \A c \in Consumers \ Registered : queue'[c] = queue[c]
         /\ \A c \in Consumers : \A m \in ToSet(queue'[c]) :
              m \in ToSet(queue[c]) \/ m.by = "task"
<1>1. TypeOK /\ Listed
  BY DEF Basis
<1>2. PICK t \in tasks : RunTask(t)
  BY DEF Run
<1>3. /\ loop.pc \in {"drain", "cycle"} /\ loop' = loop /\ clock' = clock
      /\ channels' = channels /\ shouldStop' = shouldStop /\ counters' = counters
      /\ tasks' = tasks \ {t}
  BY <1>2 DEF RunTask
<1>4. t.channel \in Channels /\ queue \in [Consumers -> Seq(Message)] /\ loop.level \in Levels
  BY <1>1, LoopFields DEF TypeOK, Task
<1>5. PICK m : m = [at |-> now, by |-> "task", level |-> loop.level]
  OBVIOUS
<1>6. m \in Message /\ m.by = "task"
  <2>1. m \in Message
    BY <1>1, <1>4, <1>5, MessageType
  <2>2. QED BY <2>1, <1>5
<1>7. queue' = Sent(queue, t.channel, m)
  BY <1>2, <1>5 DEF RunTask
<1>8. /\ queue' \in [Consumers -> Seq(Message)]
      /\ \A c \in Consumers \ Registered : queue'[c] = queue[c]
      /\ \A c \in Consumers : ToSet(queue'[c]) \subseteq ToSet(queue[c]) \cup {m}
  <2>1. PICK ch : ch = t.channel
    OBVIOUS
  <2>2. m \in Message /\ ch \in Channels /\ queue \in [Consumers -> Seq(Message)]
    BY <1>4, <1>6, <2>1
  <2>3. /\ Sent(queue, ch, m) \in [Consumers -> Seq(Message)]
        /\ \A c \in Consumers \ Registered : Sent(queue, ch, m)[c] = queue[c]
    BY <1>1, <2>2, SentQueues
  <2>4. \A c \in Consumers : ToSet(Sent(queue, ch, m)[c]) \subseteq ToSet(queue[c]) \cup {m}
    BY <1>1, <2>2, SentQueues
  <2>5. QED BY <1>7, <2>1, <2>3, <2>4
<1>9. QED BY <1>3, <1>6, <1>8

LEMMA RunBasis == ASSUME Basis, Run PROVE Basis'
<1>1. /\ loop' \in Loop /\ tasks' \subseteq Task /\ pushes' \in 0 .. MaxPushes
      /\ errors' \in 0 .. MaxErrors /\ cut' \subseteq Nat
  BY RunEffect DEF Basis, TypeOK, counters
<1>2. Pending'
  BY RunEffect DEF Basis, Pending, channels
<1>3. QED BY <1>1, <1>2, RunEffect, QueuesMove

\* What it means to add a consumer.
LEMMA NewConsumerEffect ==
  ASSUME Basis, NEW c \in Late, NewConsumer(c)
  PROVE  /\ c \in Consumers /\ c \notin Registered /\ queue[c] = <<>>
         /\ consumers' \in [Channels -> Seq(Consumers)]
         /\ \A ch \in Channels : ToSet(consumers'[ch]) =
                                   ToSet(consumers[ch]) \cup (IF ch = ChannelOf[c] THEN {c} ELSE {})
         /\ Registered' = Registered \cup {c}
         /\ loop.pc = "drain" /\ loop' = loop /\ clock' = clock /\ queue' = queue
         /\ kept' = kept /\ served' = served
         /\ tasks' = tasks /\ shouldStop' = shouldStop /\ counters' = counters
<1>1. TypeOK /\ Listed
  BY DEF Basis
<1>2. /\ c \notin Registered /\ loop.pc = "drain" /\ loop' = loop /\ clock' = clock
      /\ queue' = queue /\ kept' = kept /\ served' = served
      /\ tasks' = tasks /\ shouldStop' = shouldStop /\ counters' = counters
  BY DEF NewConsumer
<1>3. c \in Consumers /\ ChannelOf[c] \in Channels
  BY ConstantsInRange
<1>4. queue[c] = <<>>
  BY <1>1, <1>2, <1>3 DEF Listed
<1>5. consumers \in [Channels -> Seq(Consumers)]
  BY <1>1 DEF TypeOK
<1>6. PICK here : here = ChannelOf[c]
  OBVIOUS
<1>7. PICK list : list = Append(consumers[here], c)
  OBVIOUS
<1>8. consumers[here] \in Seq(Consumers) /\ here \in Channels
  BY <1>3, <1>5, <1>6
<1>9. list \in Seq(Consumers) /\ ToSet(list) = ToSet(consumers[here]) \cup {c}
  BY <1>3, <1>7, <1>8, RangeOfAppend
<1>10. consumers' = [consumers EXCEPT ![here] = list]
  BY <1>6, <1>7 DEF NewConsumer
<1>11. /\ consumers' \in [Channels -> Seq(Consumers)]
       /\ \A ch \in Channels : consumers'[ch] = IF ch = here THEN list ELSE consumers[ch]
  BY <1>5, <1>8, <1>9, <1>10
<1>12. \A ch \in Channels : ToSet(consumers'[ch]) =
                              ToSet(consumers[ch]) \cup (IF ch = here THEN {c} ELSE {})
  BY <1>9, <1>11
<1>13. Registered' = Registered \cup {c}
  <2>1. \A d : d \in Registered' <=> d \in Registered \/ d = c
    <3>1. \A d : d \in Registered' <=> \E ch \in Channels : d \in ToSet(consumers'[ch])
      BY DEF Registered
    <3>2. \A d : d \in Registered <=> \E ch \in Channels : d \in ToSet(consumers[ch])
      BY DEF Registered
    <3>3. QED BY <3>1, <3>2, <1>8, <1>12
  <2>2. QED BY <2>1
<1>14. QED BY <1>2, <1>3, <1>4, <1>6, <1>11, <1>12, <1>13

LEMMA NewConsumerBasis == ASSUME Basis, NEW c \in Late, NewConsumer(c) PROVE Basis'
<1>1. TypeOK /\ Listed /\ Pending /\ Ticked
  BY DEF Basis
<1>2. TypeOK'
  BY <1>1, NewConsumerEffect DEF TypeOK, clock, counters
<1>3. Listed'
  <2>1. c \in ConsumersOf(ChannelOf[c])
    BY NewConsumerEffect DEF ConsumersOf
  <2>2. \A ch \in Channels : ToSet(consumers'[ch]) \subseteq ConsumersOf(ch)
    <3>1. SUFFICES ASSUME NEW ch \in Channels PROVE ToSet(consumers'[ch]) \subseteq ConsumersOf(ch)
      OBVIOUS
    <3>2. ToSet(consumers'[ch]) =
            ToSet(consumers[ch]) \cup (IF ch = ChannelOf[c] THEN {c} ELSE {})
      BY NewConsumerEffect
    <3>3. ToSet(consumers[ch]) \subseteq ConsumersOf(ch)
      BY <1>1 DEF Listed
    <3>4. QED BY <2>1, <3>2, <3>3
  <2>3. Consumers \ Late \subseteq Registered'
    BY <1>1, NewConsumerEffect DEF Listed
  <2>4. \A d \in Consumers \ Registered' : queue'[d] = <<>>
    BY <1>1, NewConsumerEffect DEF Listed
  <2>5. QED BY <2>2, <2>3, <2>4 DEF Listed
<1>4. Pending'
  BY <1>1, NewConsumerEffect DEF Pending
<1>5. Ticked'
  BY <1>1, NewConsumerEffect DEF Ticked, clock
<1>6. QED BY <1>2, <1>3, <1>4, <1>5 DEF Basis

LEMMA NextCycleBasis ==
  ASSUME Basis, NextCycle
  PROVE  Basis' /\ loop'.pc = "level" /\ loop'.left = loop.left
<1>1. TypeOK /\ Pending
  BY DEF Basis
<1>2. /\ loop.pc = "cycle" /\ loop' = At("level", loop.left, loop.level)
      /\ clock' = clock /\ channels' = channels /\ queue' = queue /\ tasks' = tasks
      /\ shouldStop' = shouldStop /\ counters' = counters
  BY DEF NextCycle
<1>3. loop.left \in SUBSET Levels /\ loop.level \in Levels /\ shouldStop' \in BOOLEAN
  BY <1>1, <1>2, LoopFields DEF TypeOK
<1>4. loop.left \subseteq DOMAIN served'
  BY <1>1, <1>2 DEF Pending, channels
<1>5. loop' \in Loop /\ loop'.pc = "level" /\ loop'.left = loop.left /\ Pending'
  BY <1>1, <1>2, <1>3, <1>4, LoopRestarts
<1>6. QED BY <1>2, <1>3, <1>5, LoopMoves

LEMMA AdvanceBasis ==
  ASSUME Basis, Advance
  PROVE  Basis' /\ loop'.pc = "push" /\ loop'.left = {} /\ loop.pc = "level" /\ loop.left = {}
<1>1. TypeOK /\ Listed /\ Ticked
  BY DEF Basis
<1>2. PICK accepted \in SUBSET (1 .. Finish) :
        now' = NextTimestamp(accepted).now /\ ahead' = NextTimestamp(accepted).ahead
  BY DEF Advance
<1>3. /\ now' \in Nat /\ ahead' \in SUBSET whitelist
      /\ now % Interval = 0 => now' % Interval = 0
  BY <1>1, <1>2, NextTimestampArrives
<1>4. /\ kept' \in Seq(Channels) /\ DOMAIN served' \subseteq Levels
      /\ \A l \in DOMAIN served' : served'[l] \in Seq(Channels)
  <2>1. CASE now = 0
    <3>1. kept' = ClearEmptyChannelsProducers /\ served' = UpdateProducersByPriorityLevels(kept')
      BY <2>1 DEF Advance
    <3>2. kept' \in Seq(Channels)
      BY <3>1, ChannelsKept
    <3>3. QED BY <1>1, <3>1, <3>2, ServedByLevels
  <2>2. CASE now # 0
    BY <1>1, <2>2 DEF Advance, TypeOK
  <2>3. QED BY <2>1, <2>2
<1>5. /\ loop' = At("push", {}, 0) /\ pushes' = 0 /\ whitelist' = whitelist
      /\ triggered' = triggered /\ consumers' = consumers /\ queue' = queue /\ tasks' = tasks
      /\ shouldStop' = shouldStop /\ errors' = errors /\ cut' = cut
      /\ loop.pc = "level" /\ loop.left = {}
  BY DEF Advance
<1>6. {} \in SUBSET Levels /\ 0 \in Levels /\ {} \subseteq DOMAIN served'
  BY DEF Levels
<1>7. loop' \in Loop /\ loop'.pc = "push" /\ loop'.left = {} /\ Pending'
  BY <1>1, <1>5, <1>6, LoopRestarts
<1>8. pushes' \in 0 .. MaxPushes
  BY <1>5, ConstantsInRange
<1>9. TypeOK'
  BY <1>1, <1>3, <1>4, <1>5, <1>7, <1>8 DEF TypeOK
<1>10. Listed'
  BY <1>1, <1>5, ListedStays
<1>11. Ticked'
  BY <1>1, <1>3, <1>7 DEF Ticked
<1>12. QED BY <1>5, <1>7, <1>9, <1>10, <1>11 DEF Basis

LEMMA FinishesBasis ==
  ASSUME Basis, Finishes
  PROVE  Basis' /\ loop'.pc = "push" /\ loop'.left = {} /\ shouldStop'
<1>1. TypeOK
  BY DEF Basis
<1>2. /\ loop' = At("push", {}, 0) /\ shouldStop' = TRUE
      /\ clock' = clock /\ channels' = channels /\ queue' = queue /\ tasks' = tasks
      /\ counters' = counters
  BY DEF Finishes
<1>3. {} \in SUBSET Levels /\ 0 \in Levels /\ {} \subseteq DOMAIN served'
  BY DEF Levels
<1>4. loop' \in Loop /\ loop'.pc = "push" /\ loop'.left = {} /\ Pending'
  BY <1>1, <1>2, <1>3, LoopRestarts
<1>5. QED BY <1>2, <1>4, LoopMoves

LEMMA EndBasis ==
  ASSUME Basis, End
  PROVE  Basis' /\ loop'.pc = "ended" /\ loop'.left = {}
<1>1. TypeOK
  BY DEF Basis
<1>2. /\ loop' = At("ended", {}, 0) /\ shouldStop' = shouldStop
      /\ clock' = clock /\ channels' = channels /\ queue' = queue /\ tasks' = tasks
      /\ counters' = counters
  BY DEF End
<1>3. {} \in SUBSET Levels /\ 0 \in Levels /\ {} \subseteq DOMAIN served'
  BY DEF Levels
<1>4. loop' \in Loop /\ loop'.pc = "ended" /\ loop'.left = {} /\ Pending'
  BY <1>1, <1>2, <1>3, LoopRestarts
<1>5. shouldStop' \in BOOLEAN
  BY <1>1, <1>2 DEF TypeOK
<1>6. QED BY <1>2, <1>4, <1>5, LoopMoves

LEMMA StopBasis == ASSUME Basis, Stop PROVE Basis'
<1>1. /\ loop' = loop /\ shouldStop' \in BOOLEAN
      /\ clock' = clock /\ channels' = channels /\ queue' = queue /\ tasks' = tasks
      /\ counters' = counters
  BY DEF Stop
<1>2. loop' \in Loop /\ Pending'
  BY <1>1 DEF Basis, TypeOK, Pending, channels
<1>3. QED BY <1>1, <1>2, LoopMoves

LEMMA StutterBasis == ASSUME Basis, UNCHANGED vars PROVE Basis'
<1>1. /\ loop' = loop /\ shouldStop' = shouldStop
      /\ clock' = clock /\ channels' = channels /\ queue' = queue /\ tasks' = tasks
      /\ counters' = counters
  BY DEF vars, clock, channels, counters
<1>2. loop' \in Loop /\ Pending' /\ shouldStop' \in BOOLEAN
  BY <1>1 DEF Basis, TypeOK, Pending, channels
<1>3. QED BY <1>1, <1>2, LoopMoves

LEMMA NextBasis == Basis /\ [Next]_vars => Basis'
<1>1. SUFFICES ASSUME Basis, [Next]_vars PROVE Basis'
  OBVIOUS
<1>2. CASE Iterate
  BY <1>1, <1>2, PushBasis, SkipLevelBasis, StartLevelBasis, NextProducerBasis,
     NextConsumerBasis, RecheckBasis, PerformBasis, NextCycleBasis, AdvanceBasis,
     FinishesBasis, EndBasis DEF Iterate
<1>3. CASE Run
  BY <1>1, <1>3, RunBasis
<1>4. CASE PerformRaises
  BY <1>1, <1>4, PerformRaisesBasis
<1>5. CASE PerformTimesOut
  BY <1>1, <1>5, PerformTimesOutBasis
<1>6. CASE Stop
  BY <1>1, <1>6, StopBasis
<1>7. CASE \E c \in Late : NewConsumer(c)
  BY <1>1, <1>7, NewConsumerBasis
<1>8. CASE UNCHANGED vars
  BY <1>1, <1>8, StutterBasis
<1>9. QED BY <1>1, <1>2, <1>3, <1>4, <1>5, <1>6, <1>7, <1>8 DEF Next

LEMMA BasisHolds == Spec => []Basis
<1>1. QED BY InitBasis, NextBasis, PTL DEF Spec

\* Every variable keeps its type: no step of the drain, no error and no consumer
\* that is added meanwhile leaves the queues, the loop or the clock malformed.
THEOREM TypeCorrect == Spec => []TypeOK
<1>1. Basis => TypeOK
  BY DEF Basis
<1>2. QED BY <1>1, BasisHolds, PTL

-----------------------------------------------------------------------------
(* The whitelist.                                                          *)
LEMMA NextTimestampSkipsNone ==
  ASSUME Basis, Gapless, Covered, NEW accepted, NEW r, r = NextTimestamp(accepted),
         NEW w \in whitelist
  PROVE  /\ w > r.now => w \in r.ahead
         /\ w % Interval = 0 /\ now < w => r.now <= w
<1>1. /\ now \in Nat /\ whitelist \in SUBSET Nat /\ ahead \in SUBSET whitelist
      /\ now % Interval = 0 /\ Interval \in Nat \ {0}
  BY ConstantsInRange DEF Basis, TypeOK, Ticked
<1>2. PICK t : t = now + Interval
  OBVIOUS
<1>3. t \in Nat /\ t % Interval = 0 /\ now < t
  BY <1>1, <1>2, NextTick
<1>4. r = Jump(accepted)[t][ahead]
  BY <1>2, NextTimestampIsJump
<1>5. Lands(accepted, t, ahead)
  BY <1>1, <1>3, JumpLands
<1>6. JumpsOverNone(r, t, ahead)
  BY <1>4, <1>5 DEF Lands, Covered
<1>7. \A v \in whitelist : t <= v => v \in ahead
  BY <1>1, <1>3 DEF Covered
<1>8. /\ w > r.now => w \in r.ahead
      /\ w % Interval = 0 /\ t <= w => r.now <= w
  BY <1>3, <1>6, <1>7 DEF JumpsOverNone
<1>9. w % Interval = 0 /\ now < w => t <= w
  BY <1>1, <1>2, NothingBetweenTicks
<1>10. QED BY <1>8, <1>9

LEMMA ClockStays ==
  ASSUME [Next]_vars, ~ Push, ~ Advance
  PROVE  clock' = clock
BY Zenon DEF Next, Iterate, SkipLevel, StartLevel, NextProducer, NextConsumer, Recheck, Perform,
   NextCycle, Finishes, End, Run, RunTask, PerformRaises, PerformTimesOut, Stop, NewConsumer,
   vars, clock

LEMMA InitCovered == Init => Covered
<1>1. SUFFICES ASSUME Init PROVE Covered
  OBVIOUS
<1>2. now = 0 /\ whitelist \in Whitelists /\ ahead = whitelist
  BY <1>1 DEF Init
<1>3. whitelist \subseteq Nat
  BY <1>2, ConstantsInRange
<1>4. WhitelistedAreTriggered
  BY <1>2, <1>3 DEF WhitelistedAreTriggered
<1>5. QED BY <1>2, <1>4 DEF Covered

LEMMA NextCovered == Gapless /\ Basis /\ Covered /\ [Next]_vars => Covered'
<1>1. SUFFICES ASSUME Gapless, Basis, Covered, [Next]_vars PROVE Covered'
  OBVIOUS
<1>2. CASE Push
  <2>1. now' = now /\ whitelist' = whitelist /\ ahead' = ahead /\ triggered \subseteq triggered'
    BY <1>2 DEF Push
  <2>2. QED BY <1>1, <2>1 DEF Covered, WhitelistedAreTriggered
<1>3. CASE Advance
  <2>1. PICK accepted \in SUBSET (1 .. Finish) :
          now' = NextTimestamp(accepted).now /\ ahead' = NextTimestamp(accepted).ahead
    BY <1>3 DEF Advance
  <2>2. PICK r : r = NextTimestamp(accepted)
    OBVIOUS
  <2>3. now' = r.now /\ ahead' = r.ahead /\ whitelist' = whitelist /\ triggered' = triggered
    BY <1>3, <2>1, <2>2 DEF Advance
  <2>4. now \in Nat /\ r.now \in Nat /\ whitelist \in SUBSET Nat /\ now \in triggered
    BY <1>1, <1>3, <2>2, NextTimestampArrives DEF Basis, TypeOK, Ticked, Advance
  <2>5. \A w \in whitelist : w > r.now => w \in r.ahead
    BY <1>1, <2>2, NextTimestampSkipsNone
  <2>6. ASSUME NEW w \in whitelist, w % Interval = 0, w < r.now PROVE w \in triggered
    <3>1. ~ (now < w)
      BY <1>1, <2>2, <2>4, <2>6, NextTimestampSkipsNone
    <3>2. w < now \/ w = now
      BY <3>1, <2>4
    <3>3. QED BY <1>1, <2>4, <2>6, <3>2 DEF Covered, WhitelistedAreTriggered
  <2>7. WhitelistedAreTriggered'
    BY <2>3, <2>6 DEF WhitelistedAreTriggered
  <2>8. QED BY <1>1, <2>3, <2>5, <2>7 DEF Covered
<1>4. CASE ~ Push /\ ~ Advance
  <2>1. clock' = clock
    BY <1>1, <1>4, ClockStays
  <2>2. now' = now /\ whitelist' = whitelist /\ ahead' = ahead /\ triggered' = triggered
    BY <2>1 DEF clock
  <2>3. QED BY <1>1, <2>2 DEF Covered, WhitelistedAreTriggered
<1>5. QED BY <1>2, <1>3, <1>4

\* No timestamp of the whitelist that the clock can reach is jumped over, when no
\* timestamp of the clock falls into a gap of the whitelist: next_timestamp pops
\* one entry too many at each timestamp it skips before the last of them.
THEOREM WhitelistTriggered == Gapless => (Spec => []WhitelistedAreTriggered)
<1>1. SUFFICES ASSUME Gapless PROVE Spec => []WhitelistedAreTriggered
  OBVIOUS
<1>2. Basis /\ Covered /\ [Next]_vars => Covered'
  BY <1>1, NextCovered
<1>3. Covered => WhitelistedAreTriggered
  BY DEF Covered
<1>4. QED BY <1>2, <1>3, InitCovered, BasisHolds, PTL DEF Spec

-----------------------------------------------------------------------------
(* The drain: the producers serve every registered consumer.               *)
LEMMA RegisteredType ==
  ASSUME Basis, NEW c \in Registered
  PROVE  /\ c \in Consumers /\ c \in ToSet(consumers[ChannelOf[c]])
         /\ ChannelOf[c] \in Channels /\ PriorityOf[c] \in Levels
<1>1. c \in Consumers /\ c \in ToSet(consumers[ChannelOf[c]])
  BY RegisteredWhere DEF Basis
<1>2. QED BY <1>1, ConstantsInRange

LEMMA ServesAllStays ==
  ASSUME ServesAll, now' = now, channels' = channels
  PROVE  ServesAll'
BY DEF ServesAll, Served, channels

\* Who is served at its level is served at every lower one, by a producer that is kept.
LEMMA ServedFrom ==
  ASSUME ServesAll, NEW c \in Consumers, Served(c)
  PROVE  /\ ChannelOf[c] \in ToSet(kept) /\ PriorityOf[c] \in DOMAIN served
         /\ \A l \in Levels : PriorityOf[c] <= l =>
              l \in DOMAIN served /\ ChannelOf[c] \in ToSet(served[l])
BY DEF ServesAll, Served

\* Until the first jump every channel is served at every level.
LEMMA ServedAtFirst == ASSUME ServesAll, now = 0, NEW c \in Consumers PROVE Served(c)
<1>1. ChannelOf[c] \in Channels /\ PriorityOf[c] \in Levels
  BY ConstantsInRange
<1>2. served = [l \in Levels |-> Producers]
  BY DEF ServesAll
<1>3. QED BY <1>1, <1>2 DEF Served, Channels

LEMMA ServedStays ==
  ASSUME served' = served
  PROVE  \A c : Served(c)' <=> Served(c)
BY DEF Served

\* The producers of a level: those with a consumer of that level or a higher one.
LEMMA ServedLevel ==
  ASSUME TypeOK, NEW producers \in Seq(Channels), NEW l \in Levels
  PROVE  /\ WithConsumers(producers, l) \in Seq(Channels)
         /\ \A ch : ch \in ToSet(WithConsumers(producers, l)) <=>
              ch \in ToSet(producers) /\ \E c \in ToSet(consumers[ch]) : PriorityOf[c] <= l
<1>1. ToSet(producers) \subseteq Channels
  BY RangeOfSequence
<1>2. \A ch \in Channels : GetPrioritizedConsumers(ch, l) # <<>> <=>
                           \E c \in ToSet(consumers[ch]) : PriorityOf[c] <= l
  <2>1. SUFFICES ASSUME NEW ch \in Channels
                 PROVE  GetPrioritizedConsumers(ch, l) # <<>> <=>
                        \E c \in ToSet(consumers[ch]) : PriorityOf[c] <= l
    OBVIOUS
  <2>2. GetPrioritizedConsumers(ch, l) = <<>> <=> ToSet(GetPrioritizedConsumers(ch, l)) = {}
    BY Prioritized, RangeOfEmpty
  <2>3. QED BY <2>2, Prioritized
<1>3. /\ WithConsumers(producers, l) \in Seq(Channels)
      /\ ToSet(WithConsumers(producers, l)) =
           ToSet(producers) \cap {ch \in Channels : GetPrioritizedConsumers(ch, l) # <<>>}
  BY OnlyRange DEF WithConsumers
<1>4. QED BY <1>1, <1>2, <1>3

LEMMA AdvanceServes == ASSUME Basis, ServesAll, Advance PROVE ServesAll'
<1>1. TypeOK /\ Listed
  BY DEF Basis
<1>2. now' # 0
  <2>1. PICK accepted \in SUBSET (1 .. Finish) : now' = NextTimestamp(accepted).now
    BY DEF Advance
  <2>2. QED BY <1>1, <2>1, NextTimestampArrives
<1>3. consumers' = consumers /\ Registered' = Registered
  BY DEF Advance, Registered
<1>4. CASE now # 0
  <2>1. kept' = kept /\ served' = served
    BY <1>4 DEF Advance
  <2>2. QED BY <1>2, <2>1 DEF ServesAll, Served
<1>5. CASE now = 0
  <2>1. kept' = ClearEmptyChannelsProducers /\ served' = UpdateProducersByPriorityLevels(kept')
    BY <1>5 DEF Advance
  <2>2. kept' \in Seq(Channels)
    BY <2>1, ChannelsKept
  <2>3. PICK producers \in Seq(Channels) : producers = kept'
    BY <2>2
  <2>4. /\ DOMAIN served' = {l \in Levels : WithConsumers(producers, l) # <<>>}
        /\ \A l \in DOMAIN served' : served'[l] = WithConsumers(producers, l)
    BY <2>1, <2>3 DEF UpdateProducersByPriorityLevels
  <2>5. \A l \in Levels : \A ch \in ToSet(producers) : \A c \in ToSet(consumers[ch]) :
          PriorityOf[c] <= l => l \in DOMAIN served' /\ ch \in ToSet(served'[l])
    <3>1. SUFFICES ASSUME NEW l \in Levels, NEW ch \in ToSet(producers),
                          NEW c \in ToSet(consumers[ch]), PriorityOf[c] <= l
                   PROVE  l \in DOMAIN served' /\ ch \in ToSet(served'[l])
      OBVIOUS
    <3>2. ch \in ToSet(WithConsumers(producers, l)) /\ WithConsumers(producers, l) \in Seq(Channels)
      BY <1>1, <3>1, ServedLevel
    <3>3. WithConsumers(producers, l) # <<>>
      BY <3>2, RangeOfEmpty
    <3>4. QED BY <2>4, <3>2, <3>3
  <2>6. UpwardClosed(DOMAIN served')
    <3>1. SUFFICES ASSUME NEW k \in DOMAIN served', NEW l \in Levels, k <= l
                   PROVE  l \in DOMAIN served'
      BY DEF UpwardClosed
    <3>2. k \in Levels /\ WithConsumers(producers, k) # <<>>
      BY <2>4
    <3>3. WithConsumers(producers, k) \in Seq(Channels)
      BY <1>1, <3>2, ServedLevel
    <3>4. PICK ch : ch \in ToSet(WithConsumers(producers, k))
      BY <3>2, <3>3, RangeOfTail
    <3>5. PICK c \in ToSet(consumers[ch]) : ch \in ToSet(producers) /\ PriorityOf[c] <= k
      BY <1>1, <3>2, <3>4, ServedLevel
    <3>6. ch \in Channels /\ c \in Consumers
      <4>1. ch \in Channels
        BY <3>5, RangeOfSequence
      <4>2. consumers[ch] \in Seq(Consumers)
        BY <4>1, <1>1 DEF TypeOK
      <4>3. QED BY <3>5, <4>1, <4>2, RangeOfSequence
    <3>7. PriorityOf[c] <= l
      <4>1. PriorityOf[c] \in Nat /\ k \in Nat /\ l \in Nat
        BY <3>2, <3>6, ConstantsInRange DEF Levels
      <4>2. QED BY <3>1, <3>5, <4>1
    <3>8. QED BY <2>5, <3>5, <3>7
  <2>7. ASSUME NEW c \in Consumers \ Late PROVE Served(c)'
    <3>1. c \in Registered /\ PriorityOf[c] \in Levels
      BY <1>1, RegisteredType DEF Listed
    <3>2. c \in ToSet(consumers[ChannelOf[c]]) /\ ChannelOf[c] \in Channels
      BY <3>1, RegisteredType
    <3>3. consumers[ChannelOf[c]] \in Seq(Consumers)
      BY <1>1, <3>2 DEF TypeOK
    <3>4. consumers[ChannelOf[c]] # <<>>
      BY <3>2, <3>3, RangeOfEmpty
    <3>5. ChannelOf[c] \in ToSet(producers)
      BY <2>1, <2>3, <3>2, <3>4, ChannelsKept
    <3>6. PriorityOf[c] <= PriorityOf[c]
      BY <3>1 DEF Levels
    <3>7. PriorityOf[c] \in DOMAIN served' /\ ChannelOf[c] \in ToSet(served'[PriorityOf[c]])
      BY <2>5, <3>1, <3>2, <3>5, <3>6
    <3>8. QED BY <3>7 DEF Served
  <2>8. ASSUME NEW k \in DOMAIN served', NEW ch \in ToSet(served'[k])
        PROVE  /\ ch \in ToSet(kept')
               /\ \A l \in Levels : k <= l => l \in DOMAIN served' /\ ch \in ToSet(served'[l])
    <3>1. k \in Levels /\ ch \in ToSet(WithConsumers(producers, k))
      BY <2>4, <2>8
    <3>2. PICK c \in ToSet(consumers[ch]) : ch \in ToSet(producers) /\ PriorityOf[c] <= k
      BY <1>1, <3>1, ServedLevel
    <3>3. ch \in Channels
      BY <3>2, RangeOfSequence
    <3>4. consumers[ch] \in Seq(Consumers)
      BY <3>3, <1>1 DEF TypeOK
    <3>5. c \in Consumers
      BY <3>2, <3>4, RangeOfSequence
    <3>6. ASSUME NEW l \in Levels, k <= l PROVE PriorityOf[c] <= l
      <4>1. PriorityOf[c] \in Nat /\ k \in Nat /\ l \in Nat
        BY <3>1, <3>5, ConstantsInRange DEF Levels
      <4>2. QED BY <3>2, <3>6, <4>1
    <3>7. QED BY <2>3, <2>5, <3>2, <3>6
  <2>9. QED BY <1>2, <2>6, <2>7, <2>8 DEF ServesAll
<1>6. QED BY <1>4, <1>5

-----------------------------------------------------------------------------
(* The drain: what each step leaves in the queues.                         *)
LEMMA MessagesStay ==
  ASSUME NothingLeftBehind, now' = now, cut \subseteq cut', shouldStop => shouldStop',
         served' = served, Registered \subseteq Registered',
         \A c \in Consumers : \A m \in ToSet(queue'[c]) :
           m \in ToSet(queue[c]) \/ m.at = now \/ m.by = "task"
  PROVE  NothingLeftBehind'
<1>1. \A c : Stranded(c) => Stranded(c)'
  BY DEF Stranded, Served
<1>2. QED BY <1>1 DEF NothingLeftBehind, Queued

LEMMA TasksStay ==
  ASSUME TasksRunInTime, now' = now, cut \subseteq cut', shouldStop => shouldStop',
         \A t \in tasks' : t \in tasks \/ t.at = now
  PROVE  TasksRunInTime'
BY DEF TasksRunInTime

LEMMA LevelOrder ==
  ASSUME NEW left \in SUBSET Levels, UpwardClosed(left), NEW l \in left, \A k \in left : l <= k
  PROVE  /\ UpwardClosed(left \ {l})
         /\ \A k \in Levels : k > l => k \in left \ {l}
         /\ \A k \in Levels : k < l => k \notin left
         /\ \A k \in Levels : k \notin left \ {l} => k \notin left \/ k = l
<1>1. left \subseteq Nat /\ Levels \subseteq Nat
  BY DEF Levels
<1>2. ASSUME NEW k \in Levels, k > l PROVE k \in left \ {l}
  BY <1>1, <1>2 DEF UpwardClosed
<1>3. ASSUME NEW k \in left \ {l}, NEW j \in Levels, k <= j PROVE j \in left \ {l}
  <2>1. l < k
    BY <1>1, <1>3
  <2>2. j > l
    BY <2>1, <1>1, <1>3
  <2>3. QED BY <1>2, <2>2
<1>4. ASSUME NEW k \in Levels, k < l PROVE k \notin left
  BY <1>1, <1>4
<1>5. UpwardClosed(left \ {l})
  BY <1>3 DEF UpwardClosed
<1>6. QED BY <1>2, <1>4, <1>5

LEMMA InitDrained == Init => Drained
<1>1. SUFFICES ASSUME Init PROVE Drained
  OBVIOUS
<1>2. /\ now = 0 /\ queue = [c \in Consumers |-> <<>>]
      /\ kept = Producers /\ served = [l \in Levels |-> Producers]
      /\ loop = At("push", {}, 0) /\ tasks = {}
  BY <1>1 DEF Init
<1>3. {} \in SUBSET Levels /\ 0 \in Levels
  BY DEF Levels
<1>4. loop.pc = "push" /\ loop.left = {}
  BY <1>2, <1>3, AtFields
<1>5. Basis
  BY <1>1, InitBasis
<1>6. ServesAll
  <2>1. DOMAIN served = Levels /\ \A l \in Levels : served[l] = Producers
    BY <1>2
  <2>2. \A c \in Consumers : Served(c)
    BY <2>1, ConstantsInRange DEF Served, Channels
  <2>3. UpwardClosed(DOMAIN served)
    BY <2>1 DEF UpwardClosed
  <2>4. QED BY <1>2, <2>1, <2>2, <2>3 DEF ServesAll
<1>7. LevelsInOrder /\ LevelsBehind /\ TasksBehind
  BY <1>4 DEF LevelsInOrder, UpwardClosed, LevelsBehind, TasksBehind
<1>8. NothingLeftBehind
  <2>1. \A c \in Consumers : Queued(c) = {}
    <3>1. ASSUME NEW c \in Consumers PROVE ToSet(queue[c]) = {}
      <4>1. queue[c] = <<>> /\ <<>> \in Seq(Message)
        BY <1>2
      <4>2. QED BY <4>1, RangeOfEmpty
    <3>2. QED BY <3>1 DEF Queued
  <2>2. QED BY <2>1 DEF NothingLeftBehind
<1>9. TasksRunInTime
  BY <1>2 DEF TasksRunInTime
<1>10. QED BY <1>6, <1>7, <1>8, <1>9 DEF Drained

LEMMA PushDrained == ASSUME Basis, Drained, Push PROVE Drained'
<1>1. TypeOK /\ Listed
  BY DEF Basis
<1>2. /\ loop' = At("level", DOMAIN served, 0) /\ DOMAIN served \in SUBSET Levels /\ 0 \in Levels
      /\ now' = now /\ channels' = channels /\ tasks' = tasks /\ shouldStop' = shouldStop
      /\ cut' = cut /\ served' = served /\ consumers' = consumers
  BY <1>1 DEF Push, channels, counters, TypeOK, Levels
<1>3. loop'.pc = "level" /\ loop'.left = DOMAIN served
  BY <1>2, AtFields
<1>4. PICK m : m = [at |-> now, by |-> "time", level |-> 0]
  OBVIOUS
<1>5. m \in Message /\ m.at = now
  <2>1. m \in Message
    BY <1>1, <1>2, <1>4, MessageType
  <2>2. QED BY <2>1, <1>4
<1>6. queue' = Sent(queue, TimeChannel, m)
  BY <1>4 DEF Push
<1>7. queue \in [Consumers -> Seq(Message)] /\ TimeChannel \in Channels
  BY <1>1, ConstantsInRange DEF TypeOK
<1>8. \A c \in Consumers : ToSet(queue'[c]) \subseteq ToSet(queue[c]) \cup {m}
  BY <1>1, <1>5, <1>6, <1>7, SentQueues
<1>9. \A c \in Registered : ChannelOf[c] = TimeChannel => queue'[c] # <<>>
  BY <1>1, <1>5, <1>6, <1>7, SentQueues
<1>10. Registered' = Registered
  BY <1>2 DEF Registered
<1>11. \A c \in Registered : Served(c) => PriorityOf[c] \in DOMAIN served
  BY DEF Served
<1>12. ServesAll'
  BY <1>2, ServesAllStays DEF Drained
<1>13. LevelsInOrder'
  BY <1>3 DEF LevelsInOrder, Drained, ServesAll
<1>14. LevelsBehind'
  BY <1>2, <1>3, <1>10, <1>11, ServedStays DEF LevelsBehind
<1>15. TasksBehind'
  <2>1. PICK c \in Consumers \ Late : ChannelOf[c] = TimeChannel
    BY ConsumersAssumption
  <2>2. c \in Registered /\ Served(c)
    BY <1>1 DEF Listed, Drained, ServesAll
  <2>3. ClockIsHeard'
    BY <1>2, <1>3, <1>9, <1>10, <1>11, <2>1, <2>2, ServedStays DEF ClockIsHeard
  <2>4. QED BY <2>3 DEF TasksBehind
<1>16. NothingLeftBehind'
  BY <1>2, <1>5, <1>8, <1>10, MessagesStay DEF Drained
<1>17. TasksRunInTime'
  BY <1>2, TasksStay DEF Drained
<1>18. QED BY <1>12, <1>13, <1>14, <1>15, <1>16, <1>17 DEF Drained

LEMMA SkipLevelDrained == ASSUME Basis, Drained, SkipLevel PROVE Drained'
<1>1. TypeOK /\ Listed
  BY DEF Basis
<1>2. PICK l : l = Lowest(loop.left)
  OBVIOUS
<1>3. loop.left \in SUBSET Levels /\ loop.left # {} /\ loop.pc = "level"
  BY <1>1, LoopFields DEF TypeOK, SkipLevel
<1>4. l \in loop.left /\ l \in Levels /\ \A k \in loop.left : l <= k
  BY <1>2, <1>3, LowestOf
<1>5. /\ loop' = At("level", loop.left \ {l}, l) /\ CheckEmptiness(served[l], l)
      /\ now' = now /\ channels' = channels /\ queue' = queue /\ tasks' = tasks
      /\ shouldStop' = shouldStop /\ cut' = cut
  BY <1>2 DEF SkipLevel, clock, counters
<1>6. loop'.pc = "level" /\ loop'.left = loop.left \ {l}
  BY <1>3, <1>4, <1>5, AtFields
<1>7. Registered' = Registered
  BY <1>5 DEF Registered, channels
<1>8. \A c \in Registered : Served(c) /\ PriorityOf[c] = l => queue[c] = <<>>
  <2>1. SUFFICES ASSUME NEW c \in Registered, Served(c), PriorityOf[c] = l PROVE queue[c] = <<>>
    OBVIOUS
  <2>2. PriorityOf[c] <= l
    BY <1>4, <2>1 DEF Levels
  <2>3. ChannelOf[c] \in ToSet(served[l])
    BY <2>1 DEF Served
  <2>4. QED BY <1>1, <1>4, <1>5, <2>2, <2>3, EmptinessMeans
<1>9. ServesAll'
  BY <1>5, ServesAllStays DEF Drained
<1>10. LevelsInOrder'
  BY <1>3, <1>4, <1>6, LevelOrder DEF LevelsInOrder, Drained
<1>11. LevelsBehind'
  <2>1. SUFFICES ASSUME ~ shouldStop, NEW c \in Registered, Served(c),
                        PriorityOf[c] \notin loop.left \ {l}, NEW m \in ToSet(queue[c])
                 PROVE  Fine(m)
    BY <1>5, <1>6, <1>7, ServedStays DEF LevelsBehind, Queued, Fine, channels
  <2>2. c \in Consumers /\ queue[c] \in Seq(Message)
    BY <1>1, RegisteredType DEF TypeOK, Basis
  <2>3. PriorityOf[c] \notin loop.left
    <3>1. queue[c] # <<>>
      BY <2>1, <2>2, RangeOfEmpty
    <3>2. QED BY <1>8, <2>1, <3>1
  <2>4. QED BY <1>3, <2>1, <2>3 DEF Drained, LevelsBehind, Queued
<1>12. TasksBehind'
  <2>1. ClockIsHeard => ClockIsHeard'
    BY <1>5, <1>6, <1>7, <1>8, ServedStays DEF ClockIsHeard, channels
  <2>2. QED BY <1>3, <1>5, <1>6, <2>1 DEF Drained, TasksBehind
<1>13. NothingLeftBehind'
  BY <1>5, <1>7, MessagesStay DEF Drained, channels
<1>14. TasksRunInTime'
  BY <1>5, TasksStay DEF Drained
<1>15. QED BY <1>9, <1>10, <1>11, <1>12, <1>13, <1>14 DEF Drained

LEMMA StartLevelDrained == ASSUME Basis, Drained, StartLevel PROVE Drained'
<1>1. TypeOK /\ Listed
  BY DEF Basis
<1>2. PICK l : l = Lowest(loop.left)
  OBVIOUS
<1>3. /\ loop.pc = "level" /\ l \in loop.left /\ \A k \in loop.left : l <= k
      /\ loop'.pc = (IF shouldStop THEN "cycle" ELSE "drain")
      /\ loop'.left = loop.left \ {l} /\ loop'.level = l
      /\ clock' = clock /\ channels' = channels /\ queue' = queue /\ tasks' = tasks
      /\ shouldStop' = shouldStop /\ counters' = counters
  BY <1>2, StartLevelLoop
<1>4. loop.left \in SUBSET Levels /\ now' = now /\ cut' = cut
  BY <1>1, <1>3, LoopFields DEF TypeOK, clock, counters
<1>5. Registered' = Registered
  BY <1>3 DEF Registered, channels
<1>6. ServesAll'
  BY <1>3, <1>4, ServesAllStays DEF Drained
<1>7. LevelsInOrder'
  BY <1>3, <1>4, LevelOrder DEF LevelsInOrder, Drained
<1>8. LevelsBehind'
  <2>1. CASE shouldStop
    BY <1>3, <2>1 DEF LevelsBehind
  <2>2. CASE ~ shouldStop
    <3>1. SUFFICES ASSUME NEW c \in Registered, Served(c), PriorityOf[c] < l,
                          NEW m \in ToSet(queue[c])
                   PROVE  Fine(m)
      BY <1>3, <1>4, <1>5, <2>2, ServedStays DEF LevelsBehind, Queued, Fine, channels
    <3>2. PriorityOf[c] \notin loop.left
      BY <1>3, <1>4, <3>1, RegisteredType, LevelOrder DEF Drained, LevelsInOrder
    <3>3. QED BY <1>3, <2>2, <3>1, <3>2 DEF Drained, LevelsBehind, Queued
  <2>3. QED BY <2>1, <2>2
<1>9. TasksBehind'
  BY <1>3 DEF TasksBehind
<1>10. NothingLeftBehind'
  BY <1>3, <1>4, <1>5, MessagesStay DEF Drained, channels
<1>11. TasksRunInTime'
  BY <1>3, <1>4, TasksStay DEF Drained
<1>12. QED BY <1>6, <1>7, <1>8, <1>9, <1>10, <1>11 DEF Drained

\* Steps of the drain that do not touch the queues.
LEMMA LoopDrains ==
  ASSUME Basis, Drained, loop'.pc = loop.pc, loop'.left = loop.left, loop'.level = loop.level,
         clock' = clock, channels' = channels, queue' = queue, tasks' = tasks,
         shouldStop' = shouldStop \/ shouldStop' = TRUE, counters' = counters
  PROVE  Drained'
<1>1. now' = now /\ cut' = cut /\ served' = served /\ Registered' = Registered
  BY DEF clock, counters, channels, Registered
<1>2. shouldStop => shouldStop'
  BY DEF Basis, TypeOK
<1>3. ServesAll'
  BY <1>1, ServesAllStays DEF Drained
<1>4. LevelsInOrder'
  BY DEF Drained, LevelsInOrder
<1>5. LevelsBehind'
  BY <1>1, <1>2, ServedStays DEF Drained, LevelsBehind, Queued, Fine
<1>6. TasksBehind'
  BY <1>1, <1>2, ServedStays DEF Drained, TasksBehind, ClockIsHeard
<1>7. NothingLeftBehind'
  BY <1>1, <1>2, MessagesStay DEF Drained
<1>8. TasksRunInTime'
  BY <1>1, <1>2, TasksStay DEF Drained
<1>9. QED BY <1>3, <1>4, <1>5, <1>6, <1>7, <1>8 DEF Drained

LEMMA NextProducerDrained == ASSUME Basis, Drained, NextProducer PROVE Drained'
<1>1. /\ clock' = clock /\ channels' = channels /\ queue' = queue /\ tasks' = tasks
      /\ shouldStop' = shouldStop /\ counters' = counters
  BY DEF NextProducer
<1>2. QED BY <1>1, NextProducerBasis, LoopDrains

LEMMA NextConsumerDrained == ASSUME Basis, Drained, NextConsumer PROVE Drained'
<1>1. /\ clock' = clock /\ channels' = channels /\ queue' = queue /\ tasks' = tasks
      /\ shouldStop' = shouldStop /\ counters' = counters
  BY DEF NextConsumer
<1>2. QED BY <1>1, NextConsumerBasis, LoopDrains

LEMMA StopDrained == ASSUME Basis, Drained, Stop PROVE Drained'
<1>1. /\ clock' = clock /\ channels' = channels /\ queue' = queue /\ tasks' = tasks
      /\ loop' = loop /\ shouldStop' = TRUE /\ counters' = counters
  BY DEF Stop
<1>2. QED BY <1>1, LoopDrains

LEMMA StutterDrained == ASSUME Basis, Drained, UNCHANGED vars PROVE Drained'
<1>1. /\ clock' = clock /\ channels' = channels /\ queue' = queue /\ tasks' = tasks
      /\ loop' = loop /\ shouldStop' = shouldStop /\ counters' = counters
  BY DEF vars, clock, channels, counters
<1>2. QED BY <1>1, LoopDrains

LEMMA RecheckDrained == ASSUME Basis, Drained, Recheck PROVE Drained'
<1>1. /\ clock' = clock /\ channels' = channels /\ queue' = queue /\ tasks' = tasks
      /\ shouldStop' = shouldStop /\ counters' = counters /\ loop.pc = "drain"
  BY DEF Recheck
<1>2. CASE ~ (shouldStop \/ CheckEmptiness(kept, loop.level))
  BY <1>1, <1>2, RecheckBasis, LoopDrains
<1>3. CASE shouldStop \/ CheckEmptiness(kept, loop.level)
  <2>1. loop'.pc = "cycle" /\ loop'.left = loop.left /\ loop'.level = loop.level
    BY <1>3, RecheckBasis
  <2>2. now' = now /\ cut' = cut /\ Registered' = Registered
    BY <1>1 DEF clock, counters, channels, Registered
  <2>3. ServesAll'
    BY <1>1, <2>2, ServesAllStays DEF Drained
  <2>4. LevelsInOrder'
    BY <1>1, <2>1 DEF Drained, LevelsInOrder
  <2>5. LevelsBehind'
    <3>1. SUFFICES ASSUME ~ shouldStop, NEW c \in Registered, Served(c),
                          PriorityOf[c] \notin loop.left, NEW m \in ToSet(queue[c])
                   PROVE  FALSE
      BY <1>1, <2>1, <2>2, ServedStays DEF LevelsBehind, Queued, channels
    <3>2. /\ TypeOK /\ Listed /\ c \in Consumers /\ PriorityOf[c] \in Levels
          /\ loop.level \in Levels
      BY RegisteredType, LoopFields DEF Basis, TypeOK
    <3>3. ~ (PriorityOf[c] > loop.level)
      BY <1>1, <3>1, <3>2 DEF Drained, LevelsInOrder
    <3>4. PriorityOf[c] <= loop.level
      BY <3>2, <3>3 DEF Levels
    <3>5. ChannelOf[c] \in ToSet(kept)
      BY <3>1, <3>2, ServedFrom DEF Drained
    <3>6. queue[c] = <<>> /\ queue[c] \in Seq(Message)
      <4>1. queue[c] = <<>>
        BY <1>3, <3>1, <3>2, <3>4, <3>5, EmptinessMeans
      <4>2. QED BY <3>2, <4>1
    <3>7. QED BY <3>1, <3>6, RangeOfEmpty
  <2>6. TasksBehind'
    BY <2>1 DEF TasksBehind
  <2>7. NothingLeftBehind'
    BY <1>1, <2>2, MessagesStay DEF Drained, channels
  <2>8. TasksRunInTime'
    BY <1>1, <2>2, TasksStay DEF Drained
  <2>9. QED BY <2>3, <2>4, <2>5, <2>6, <2>7, <2>8 DEF Drained
<1>4. QED BY <1>2, <1>3

LEMMA PerformDrained == ASSUME Basis, Drained, Perform PROVE Drained'
<1>1. /\ loop' = loop /\ loop.pc = "drain" /\ now' = now /\ cut' = cut /\ channels' = channels
      /\ shouldStop' = shouldStop /\ Registered' = Registered /\ served' = served
  BY PerformEffect DEF clock, channels, Registered
<1>2. \A c \in Consumers : \A m \in ToSet(queue'[c]) :
        m \in ToSet(queue[c]) \/ (m.at = now /\ m.level = loop.level)
  BY PerformEffect
<1>3. \A t \in tasks' : t \in tasks \/ t.at = now
  BY PerformEffect
<1>4. ServesAll'
  BY <1>1, ServesAllStays DEF Drained
<1>5. LevelsInOrder'
  BY <1>1 DEF Drained, LevelsInOrder
<1>6. LevelsBehind'
  <2>1. SUFFICES ASSUME NEW c \in Registered, Served(c), PriorityOf[c] < loop.level,
                        NEW m \in ToSet(queue'[c])
                 PROVE  Fine(m) \/ (m.at = now /\ m.level = loop.level)
    BY <1>1, ServedStays DEF LevelsBehind, Queued, Fine
  <2>2. c \in Consumers
    BY RegisteredType
  <2>3. QED BY <1>1, <1>2, <2>1, <2>2 DEF Drained, LevelsBehind, Queued
<1>7. TasksBehind'
  BY <1>1 DEF TasksBehind
<1>8. NothingLeftBehind'
  BY <1>1, <1>2, MessagesStay DEF Drained
<1>9. TasksRunInTime'
  BY <1>1, <1>3, TasksStay DEF Drained
<1>10. QED BY <1>4, <1>5, <1>6, <1>7, <1>8, <1>9 DEF Drained

LEMMA RunDrained == ASSUME Basis, Drained, Run PROVE Drained'
<1>1. /\ loop' = loop /\ loop.pc \in {"drain", "cycle"} /\ now' = now /\ cut' = cut
      /\ channels' = channels /\ shouldStop' = shouldStop /\ Registered' = Registered
      /\ served' = served
  BY RunEffect DEF clock, counters, channels, Registered
<1>2. \A c \in Consumers : \A m \in ToSet(queue'[c]) : m \in ToSet(queue[c]) \/ m.by = "task"
  BY RunEffect
<1>3. \A t \in tasks' : t \in tasks \/ t.at = now
  BY RunEffect
<1>4. ServesAll'
  BY <1>1, ServesAllStays DEF Drained
<1>5. LevelsInOrder'
  BY <1>1 DEF Drained, LevelsInOrder
<1>6. LevelsBehind'
  <2>1. \A c \in Registered : \A m \in ToSet(queue'[c]) : m \in ToSet(queue[c]) \/ Fine(m)
    BY <1>2, RegisteredType DEF Fine
  <2>2. \A m : Fine(m)' <=> Fine(m)
    BY <1>1 DEF Fine
  <2>3. QED BY <1>1, <2>1, <2>2, ServedStays DEF Drained, LevelsBehind, Queued
<1>7. TasksBehind'
  BY <1>1 DEF TasksBehind
<1>8. NothingLeftBehind'
  BY <1>1, <1>2, MessagesStay DEF Drained
<1>9. TasksRunInTime'
  BY <1>1, <1>3, TasksStay DEF Drained
<1>10. QED BY <1>4, <1>5, <1>6, <1>7, <1>8, <1>9 DEF Drained

LEMMA NewConsumerDrained ==
  ASSUME Basis, Drained, NEW c \in Late, NewConsumer(c)
  PROVE  Drained'
<1>1. /\ loop' = loop /\ loop.pc = "drain" /\ now' = now /\ cut' = cut /\ queue' = queue
      /\ served' = served /\ kept' = kept /\ tasks' = tasks /\ shouldStop' = shouldStop
      /\ Registered' = Registered \cup {c} /\ queue[c] = <<>> /\ c \in Consumers
  BY NewConsumerEffect DEF clock, counters
<1>2. ServesAll'
  BY <1>1 DEF Drained, ServesAll, Served
<1>3. LevelsInOrder'
  BY <1>1 DEF Drained, LevelsInOrder
<1>4. LevelsBehind'
  <2>1. ToSet(queue[c]) = {}
    <3>1. queue[c] \in Seq(Message)
      BY <1>1
    <3>2. QED BY <1>1, <3>1, RangeOfEmpty
  <2>2. SUFFICES ASSUME NEW d \in Registered \cup {c}, Served(d),
                        PriorityOf[d] < loop.level, NEW m \in ToSet(queue[d])
                 PROVE  Fine(m) \/ (m.at = now /\ m.level = loop.level)
    BY <1>1, ServedStays DEF LevelsBehind, Queued, Fine
  <2>3. d \in Registered
    BY <2>1, <2>2
  <2>4. QED BY <1>1, <2>2, <2>3 DEF Drained, LevelsBehind, Queued
<1>5. TasksBehind'
  BY <1>1 DEF TasksBehind
<1>6. NothingLeftBehind'
  BY <1>1, MessagesStay DEF Drained
<1>7. TasksRunInTime'
  BY <1>1, TasksStay DEF Drained
<1>8. QED BY <1>2, <1>3, <1>4, <1>5, <1>6, <1>7 DEF Drained

LEMMA NextCycleDrained == ASSUME Basis, Drained, NextCycle PROVE Drained'
<1>1. /\ loop.pc = "cycle" /\ tasks = {} /\ tasks' = tasks /\ queue' = queue
      /\ now' = now /\ cut' = cut /\ channels' = channels /\ shouldStop' = shouldStop
      /\ Registered' = Registered /\ served' = served
  BY DEF NextCycle, clock, counters, channels, Registered
<1>2. loop'.pc = "level" /\ loop'.left = loop.left
  BY NextCycleBasis
<1>3. ServesAll'
  BY <1>1, ServesAllStays DEF Drained
<1>4. LevelsInOrder'
  BY <1>1, <1>2 DEF Drained, LevelsInOrder
<1>5. LevelsBehind'
  BY <1>1, <1>2, ServedStays DEF Drained, LevelsBehind, Queued, Fine
<1>6. TasksBehind'
  BY <1>1 DEF TasksBehind
<1>7. NothingLeftBehind'
  BY <1>1, MessagesStay DEF Drained
<1>8. TasksRunInTime'
  BY <1>1, TasksStay DEF Drained
<1>9. QED BY <1>3, <1>4, <1>5, <1>6, <1>7, <1>8 DEF Drained

LEMMA PerformRaisesDrained == ASSUME Basis, Drained, PerformRaises PROVE Drained'
<1>1. /\ loop'.pc = "push" /\ loop'.left = {} /\ cut' = cut /\ now' = now
      /\ channels' = channels /\ tasks' = tasks /\ shouldStop' = shouldStop
      /\ \A c \in Consumers : ToSet(queue'[c]) \subseteq ToSet(queue[c])
  BY PerformRaisesBasis, ErrorEffect DEF clock
<1>2. ServesAll'
  BY <1>1, ServesAllStays DEF Drained
<1>3. LevelsInOrder' /\ LevelsBehind' /\ TasksBehind'
  BY <1>1 DEF LevelsInOrder, UpwardClosed, LevelsBehind, TasksBehind
<1>4. NothingLeftBehind'
  BY <1>1, MessagesStay DEF Drained, channels, Registered
<1>5. TasksRunInTime'
  BY <1>1, TasksStay DEF Drained
<1>6. QED BY <1>2, <1>3, <1>4, <1>5 DEF Drained

LEMMA PerformTimesOutDrained == ASSUME Basis, Drained, PerformTimesOut PROVE Drained'
<1>1. /\ loop'.pc = "level" /\ loop'.left = loop.left /\ cut' = cut \cup {now} /\ now' = now
      /\ channels' = channels /\ tasks' = tasks /\ shouldStop' = shouldStop
      /\ \A c \in Consumers : ToSet(queue'[c]) \subseteq ToSet(queue[c])
  BY PerformTimesOutBasis, ErrorEffect DEF clock
<1>2. Registered' = Registered /\ served' = served
  BY <1>1 DEF Registered, channels
<1>3. ServesAll'
  BY <1>1, ServesAllStays DEF Drained
<1>4. LevelsInOrder'
  BY <1>1 DEF Drained, LevelsInOrder
<1>5. LevelsBehind'
  <2>1. SUFFICES ASSUME ~ shouldStop, NEW c \in Registered, Served(c), NEW m \in ToSet(queue'[c])
                 PROVE  m.by = "task" \/ m.at \in cut \cup {now}
    BY <1>1, <1>2, ServedStays DEF LevelsBehind, Queued, Fine
  <2>2. m \in ToSet(queue[c]) /\ c \in Consumers
    BY <1>1, <2>1, RegisteredType
  <2>3. QED BY <2>1, <2>2 DEF Drained, NothingLeftBehind, Queued, Stranded
<1>6. TasksBehind'
  BY <1>1 DEF TasksBehind, Drained, TasksRunInTime
<1>7. NothingLeftBehind'
  BY <1>1, <1>2, MessagesStay DEF Drained
<1>8. TasksRunInTime'
  BY <1>1, TasksStay DEF Drained
<1>9. QED BY <1>3, <1>4, <1>5, <1>6, <1>7, <1>8 DEF Drained

\* The clock moves on only when every level is behind.
LEMMA AdvanceDrained == ASSUME Basis, Drained, Advance PROVE Drained'
<1>1. /\ loop'.pc = "push" /\ loop'.left = {} /\ loop.pc = "level" /\ loop.left = {}
      /\ queue' = queue /\ tasks' = tasks /\ shouldStop' = shouldStop /\ cut' = cut
  BY AdvanceBasis DEF Advance
<1>2. ServesAll'
  BY AdvanceServes DEF Drained
<1>3. LevelsInOrder' /\ LevelsBehind' /\ TasksBehind'
  BY <1>1 DEF LevelsInOrder, UpwardClosed, LevelsBehind, TasksBehind
<1>4. NothingLeftBehind'
  <2>1. SUFFICES ASSUME ~ shouldStop, NEW c \in Consumers, NEW m \in ToSet(queue[c]),
                        ~ Stranded(c)'
                 PROVE  m.by = "task" \/ m.at \in cut
    BY <1>1 DEF NothingLeftBehind, Queued
  <2>2. c \in Registered
    <3>1. queue[c] \in Seq(Message)
      BY DEF Basis, TypeOK
    <3>2. queue[c] # <<>>
      BY <2>1, <3>1, RangeOfEmpty
    <3>3. QED BY <3>2 DEF Basis, Listed
  <2>3. Served(c)
    <3>1. CASE now = 0
      BY <3>1, ServedAtFirst DEF Drained
    <3>2. CASE now # 0
      <4>1. served' = served /\ consumers' = consumers
        BY <3>2 DEF Advance
      <4>2. Registered' = Registered
        BY <4>1 DEF Registered
      <4>3. QED BY <2>1, <2>2, <4>1, <4>2 DEF Stranded, Served
    <3>3. QED BY <3>1, <3>2
  <2>4. QED BY <1>1, <2>1, <2>2, <2>3 DEF Drained, LevelsBehind, Queued, Fine
<1>5. TasksRunInTime'
  BY <1>1 DEF Drained, TasksBehind, ClockIsHeard, TasksRunInTime
<1>6. QED BY <1>2, <1>3, <1>4, <1>5 DEF Drained

LEMMA EndsDrained == ASSUME Basis, Drained, Finishes \/ End PROVE Drained'
<1>1. /\ now' = now /\ channels' = channels /\ queue' = queue /\ tasks' = tasks /\ cut' = cut
      /\ shouldStop' = shouldStop \/ shouldStop' = TRUE
  BY DEF Finishes, End, clock, counters
<1>2. loop'.pc \in {"push", "ended"} /\ loop'.left = {} /\ (shouldStop => shouldStop')
  BY FinishesBasis, EndBasis, <1>1
<1>3. ServesAll'
  BY <1>1, ServesAllStays DEF Drained
<1>4. LevelsInOrder' /\ LevelsBehind' /\ TasksBehind'
  BY <1>2 DEF LevelsInOrder, UpwardClosed, LevelsBehind, TasksBehind
<1>5. NothingLeftBehind'
  BY <1>1, <1>2, MessagesStay DEF Drained, channels, Registered
<1>6. TasksRunInTime'
  BY <1>1, <1>2, TasksStay DEF Drained
<1>7. QED BY <1>3, <1>4, <1>5, <1>6 DEF Drained

LEMMA NextDrained == Basis /\ Drained /\ [Next]_vars => Drained'
<1>1. SUFFICES ASSUME Basis, Drained, [Next]_vars PROVE Drained'
  OBVIOUS
<1>2. CASE Iterate
  BY <1>1, <1>2, PushDrained, SkipLevelDrained, StartLevelDrained, NextProducerDrained,
     NextConsumerDrained, RecheckDrained, PerformDrained, NextCycleDrained, AdvanceDrained,
     EndsDrained DEF Iterate
<1>3. CASE Run
  BY <1>1, <1>3, RunDrained
<1>4. CASE PerformRaises
  BY <1>1, <1>4, PerformRaisesDrained
<1>5. CASE PerformTimesOut
  BY <1>1, <1>5, PerformTimesOutDrained
<1>6. CASE Stop
  BY <1>1, <1>6, StopDrained
<1>7. CASE \E c \in Late : NewConsumer(c)
  BY <1>1, <1>7, NewConsumerDrained
<1>8. CASE UNCHANGED vars
  BY <1>1, <1>8, StutterDrained
<1>9. QED BY <1>1, <1>2, <1>3, <1>4, <1>5, <1>6, <1>7, <1>8 DEF Next

LEMMA DrainedHolds == Spec => []Drained
<1>1. QED BY InitDrained, NextDrained, BasisHolds, PTL DEF Spec

\* What callbacks push at a timestamp is processed at that timestamp, whoever
\* raised, was stopped or was added meanwhile, unless a level was given up or a late
\* consumer is stranded in a channel that is not served at its level.
THEOREM NothingIsLeftBehind == Spec => []NothingLeftBehind
<1>1. Drained => NothingLeftBehind
  BY DEF Drained
<1>2. QED BY <1>1, DrainedHolds, PTL

\* The tasks that callbacks create, and that push in one step, run at the simulated
\* time of their callback, also those an error left behind: the clock has a listener
\* whose level is ahead.
THEOREM TasksInTime == Spec => []TasksRunInTime
<1>1. Drained => TasksRunInTime
  BY DEF Drained
<1>2. QED BY <1>1, DrainedHolds, PTL

\* A consumer gets a message only when those of a higher priority have none but
\* what this very level sent them, what tasks sent, what was given up and what is
\* stranded.
THEOREM PrioritiesRespected == Spec => HigherFirst
<1> DEFINE Before(c) == \A m \in Queued(c) : \/ m.at = now /\ m.level = loop.level
                                            \/ m.by = "task" \/ m.at \in cut \/ Stranded(c)
           Respected == Perform => \A c \in Registered :
                          PriorityOf[c] < PriorityOf[Current] => Before(c)
<1>1. Basis /\ Drained => [Respected]_vars
  <2>1. SUFFICES ASSUME Basis, Drained, Perform, NEW c \in Registered,
                        PriorityOf[c] < PriorityOf[Current]
                 PROVE  Before(c)
    OBVIOUS
  <2>2. /\ loop.pc = "drain" /\ Current \in Registered /\ PriorityOf[Current] <= loop.level
        /\ loop.level \in Levels
    BY <2>1, PerformEffect, LoopFields DEF Basis, TypeOK
  <2>3. PriorityOf[c] \in Levels /\ PriorityOf[Current] \in Levels
    BY <2>1, <2>2, RegisteredType
  <2>4. PriorityOf[c] < loop.level
    BY <2>1, <2>2, <2>3 DEF Levels
  <2>5. QED BY <2>1, <2>2, <2>4 DEF Drained, LevelsBehind, Fine, Stranded
<1>2. Spec => [](Basis /\ Drained)
  BY BasisHolds, DrainedHolds, PTL
<1>3. QED BY <1>1, <1>2, PTL DEF HigherFirst
=============================================================================
