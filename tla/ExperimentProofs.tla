-------------------------- MODULE ExperimentProofs --------------------------
(***************************************************************************)
(* What a walk-forward experiment promises, for every log, configuration   *)
(* and sequence of episodes: an episode covers its part of the log, no     *)
(* fold leaks what it is tested on, and later episodes only add folds.     *)
(***************************************************************************)
EXTENDS Experiment, FiniteSetTheorems, TLAPS

-----------------------------------------------------------------------------
(* Sorting *)

\* The keys are numbers that tell the elements apart.
Sortable(S, key) ==
  /\ IsFiniteSet(S)
  /\ \A x \in S : key[x] \in Int
  /\ \A x, y \in S : key[x] = key[y] => x = y

Rank(x, S, key) == Cardinality(Preceding(x, S, key))

\* A rank is a number, smaller than the size of the set, and grows with the key.
LEMMA RanksGrow ==
  ASSUME NEW S, NEW key, Sortable(S, key), NEW x \in S
  PROVE  /\ Rank(x, S, key) \in Nat /\ Rank(x, S, key) < Cardinality(S)
         /\ \A y \in S : key[x] < key[y] => Rank(x, S, key) < Rank(y, S, key)
<1>1. ASSUME NEW T, IsFiniteSet(T), Preceding(x, S, key) \subseteq T, x \in T
      PROVE  /\ Rank(x, S, key) \in Nat /\ Rank(x, S, key) < Cardinality(T)
  <2>1. x \notin Preceding(x, S, key)
    BY DEF Preceding, Sortable
  <2>2. /\ IsFiniteSet(Preceding(x, S, key))
        /\ Cardinality(Preceding(x, S, key)) <= Cardinality(T)
        /\ Cardinality(T) # Cardinality(Preceding(x, S, key))
    BY <1>1, <2>1, FS_Subset
  <2>3. Cardinality(T) \in Nat /\ Cardinality(Preceding(x, S, key)) \in Nat
    BY <1>1, <2>2, FS_CardinalityType
  <2> QED BY <2>2, <2>3 DEF Rank
<1>2. Preceding(x, S, key) \subseteq S /\ IsFiniteSet(S)
  BY DEF Preceding, Sortable
<1>3. ASSUME NEW y \in S, key[x] < key[y]
      PROVE  Rank(x, S, key) < Rank(y, S, key)
  <2>1. Preceding(x, S, key) \subseteq Preceding(y, S, key) /\ x \in Preceding(y, S, key)
    BY <1>3 DEF Preceding, Sortable
  <2>2. IsFiniteSet(Preceding(y, S, key))
    BY <1>2, FS_Subset DEF Preceding
  <2> QED BY <1>1, <2>1, <2>2 DEF Rank
<1> QED BY <1>1, <1>2, <1>3

\* Every element has the rank of one place, and every place its element.
LEMMA SortedByRank ==
  ASSUME NEW S, NEW key, Sortable(S, key)
  PROVE  /\ Cardinality(S) \in Nat
         /\ SortBy(S, key) \in [1 .. Cardinality(S) -> S]
         /\ \A i \in 1 .. Cardinality(S) : Rank(SortBy(S, key)[i], S, key) = i - 1
         /\ \A x \in S : /\ Rank(x, S, key) + 1 \in 1 .. Cardinality(S)
                         /\ SortBy(S, key)[Rank(x, S, key) + 1] = x
<1> DEFINE n == Cardinality(S)
           f == [x \in S |-> Rank(x, S, key) + 1]
<1>1. n \in Nat /\ IsFiniteSet(S) /\ IsFiniteSet(1 .. n) /\ Cardinality(1 .. n) = n
  BY FS_CardinalityType, FS_Interval DEF Sortable
<1>2. f \in [S -> 1 .. n]
  BY <1>1, RanksGrow
<1>3. ASSUME NEW x \in S, NEW y \in S, Rank(x, S, key) = Rank(y, S, key)
      PROVE  x = y
  <2>1. ~(key[x] < key[y]) /\ ~(key[y] < key[x])
    BY <1>3, RanksGrow
  <2> QED BY <2>1 DEF Sortable
<1>4. f \in Injection(S, 1 .. n)
  <2>1. \A x, y \in S : f[x] = f[y] => x = y
    BY <1>3, RanksGrow
  <2> QED BY <1>2, <2>1 DEF Injection, IsInjective
<1>5. f \in Surjection(S, 1 .. n)
  BY <1>1, <1>4, FS_Injection
<1>6. \A i \in 1 .. n : \E x \in S : Rank(x, S, key) = i - 1
  <2>1. \A i \in 1 .. n : \E x \in S : f[x] = i
    BY <1>5 DEF Surjection
  <2> QED BY <2>1, RanksGrow
<1>7. ASSUME NEW i \in 1 .. n
      PROVE  SortBy(S, key)[i] \in S /\ Rank(SortBy(S, key)[i], S, key) = i - 1
  BY <1>6 DEF SortBy, Rank
<1>8. SortBy(S, key) \in [1 .. n -> S]
  BY <1>7 DEF SortBy
<1>9. ASSUME NEW x \in S
      PROVE  Rank(x, S, key) + 1 \in 1 .. n /\ SortBy(S, key)[Rank(x, S, key) + 1] = x
  <2>1. Rank(x, S, key) + 1 \in 1 .. n
    BY <1>1, RanksGrow
  <2>2. Rank(SortBy(S, key)[Rank(x, S, key) + 1], S, key) = Rank(x, S, key)
    BY <1>7, <2>1, RanksGrow
  <2> QED BY <1>3, <1>7, <2>1, <2>2
<1> QED BY <1>1, <1>7, <1>8, <1>9

\* A sorted set is a sequence of its elements in the order of their keys.
LEMMA Sorted ==
  ASSUME NEW S, NEW key, Sortable(S, key)
  PROVE  /\ Cardinality(S) \in Nat
         /\ SortBy(S, key) \in Seq(S) /\ Len(SortBy(S, key)) = Cardinality(S)
         /\ DOMAIN SortBy(S, key) = 1 .. Cardinality(S)
         /\ \A i \in 1 .. Cardinality(S) : SortBy(S, key)[i] \in S
         /\ \A x \in S : \E i \in 1 .. Cardinality(S) : SortBy(S, key)[i] = x
         /\ \A i, j \in 1 .. Cardinality(S) :
              i < j => key[SortBy(S, key)[i]] < key[SortBy(S, key)[j]]
<1> DEFINE s == SortBy(S, key)
           n == Cardinality(S)
<1>1. n \in Nat /\ s \in [1 .. n -> S]
  BY SortedByRank
<1>2. ASSUME NEW i \in 1 .. n, NEW j \in 1 .. n, i < j
      PROVE  key[s[i]] < key[s[j]]
  <2>1. s[i] \in S /\ s[j] \in S
    BY <1>1
  <2>2. Rank(s[i], S, key) = i - 1 /\ Rank(s[j], S, key) = j - 1
    BY SortedByRank
  <2>3. s[i] # s[j]
    BY <1>2, <2>2
  <2>4. ~(key[s[j]] < key[s[i]])
    BY <1>2, <2>1, <2>2, RanksGrow
  <2> HIDE DEF s
  <2> QED BY <2>1, <2>3, <2>4 DEF Sortable
<1>3. \A x \in S : \E i \in 1 .. n : s[i] = x
  BY SortedByRank
<1> HIDE DEF s, n
<1>4. s \in Seq(S) /\ Len(s) = n /\ DOMAIN s = 1 .. n /\ \A i \in 1 .. n : s[i] \in S
  BY <1>1
<1> QED BY <1>1, <1>2, <1>3, <1>4 DEF s, n

\* Elements with later keys are sorted behind.
LEMMA SortedGrows ==
  ASSUME NEW S, NEW T, NEW key, NEW more, Sortable(T, more), S \subseteq T,
         \A x \in S : key[x] = more[x],
         \A x \in S, y \in T \ S : more[x] < more[y]
  PROVE  /\ Sortable(S, key) /\ Cardinality(S) <= Cardinality(T)
         /\ \A i \in 1 .. Cardinality(S) : SortBy(T, more)[i] = SortBy(S, key)[i]
<1>1. Sortable(S, key) /\ Cardinality(S) <= Cardinality(T)
  BY FS_Subset DEF Sortable
<1>2. ASSUME NEW i \in 1 .. Cardinality(S)
      PROVE  SortBy(T, more)[i] = SortBy(S, key)[i]
  <2> DEFINE x == SortBy(S, key)[i]
  <2>1. x \in S /\ Rank(x, S, key) = i - 1
    BY <1>1, SortedByRank
  <2> HIDE DEF x
  <2>2. Preceding(x, T, more) = Preceding(x, S, key)
    BY <2>1 DEF Preceding, Sortable
  <2>3. Rank(x, T, more) = i - 1 /\ x \in T
    BY <2>1, <2>2 DEF Rank
  <2>4. SortBy(T, more)[Rank(x, T, more) + 1] = x
    BY <2>3, SortedByRank
  <2> QED BY <2>3, <2>4 DEF x
<1> QED BY <1>1, <1>2

-----------------------------------------------------------------------------
(* The episode being built *)

LogSources == {e.source : e \in UNION Logs}
Decisions == [time : Int, elapsed : Int, sources : Seq(LogSources)]

SourcesAt(time) == [k \in DOMAIN EventsAt(time) |-> EventsAt(time)[k].source]
InEpisode == {e \in log : build.start <= e.time /\ e.time <= build.end}
Before(d, i) == IF i = 1 THEN build.start ELSE d[i - 1].time

BuildTyped ==
  /\ log \in Logs
  /\ build \in [at : {"idle", "loop", "built"}, start : Int, end : Int,
                reason : {"none", "duration_elapsed", "replay_exhausted"},
                groups : Seq(Int), decisions : Seq(Decisions)]

\* The episode ends at its duration exactly if the log goes that far.
EndsRightly ==
  build.at # "idle" =>
    /\ build.start <= build.end
    /\ (build.reason = "duration_elapsed") = (\E e \in log : e.time >= build.start + Duration)
    /\ build.reason = "duration_elapsed" => build.end = build.start + Duration

\* What holds of a decision as soon as it is made.
DecisionOK(d, i) ==
  /\ build.start <= d[i].time /\ d[i].time <= build.end
  /\ Before(d, i) <= d[i].time
  /\ d[i].time - Before(d, i) <= Interval
  /\ d[i].sources = <<>> => d[i].time \in {Before(d, i) + Interval, build.end}
  /\ 0 <= d[i].time - Before(d, i) - d[i].elapsed * TicksPerSecond
  /\ d[i].time - Before(d, i) - d[i].elapsed * TicksPerSecond < TicksPerSecond
  /\ d[i].sources = SourcesAt(d[i].time)

DecisionsOK ==
  build.at # "idle" =>
    /\ \A i \in DOMAIN build.decisions : DecisionOK(build.decisions, i)
    /\ \A i, j \in DOMAIN build.decisions :
         i < j => build.decisions[i].time < build.decisions[j].time

\* The times that wait are event times, in order and behind every decision.
GroupsOK ==
  build.at = "loop" =>
    /\ \A x, y \in DOMAIN build.groups : x < y => build.groups[x] < build.groups[y]
    /\ \A x \in DOMAIN build.groups :
         /\ \E e \in InEpisode : e.time = build.groups[x]
         /\ \A i \in DOMAIN build.decisions : build.decisions[i].time < build.groups[x]

\* Each event of the episode has its decision or waits for it.
NoneForgotten ==
  build.at # "idle" =>
    \A e \in InEpisode :
      \/ \E i \in DOMAIN build.decisions : build.decisions[i].time = e.time
      \/ build.at = "loop" /\ \E x \in DOMAIN build.groups : build.groups[x] = e.time

ClosedAtEnd ==
  build.at = "built" => build.decisions # <<>> /\ Last(build.decisions).time = build.end

BuildInv ==
  BuildTyped /\ EndsRightly /\ DecisionsOK /\ GroupsOK /\ NoneForgotten /\ ClosedAtEnd

\* The whole part of a quotient.
LEMMA DivBounds ==
  ASSUME NEW a \in Int, NEW b \in Int, b > 0
  PROVE  /\ a \div b \in Int
         /\ (a \div b) * b <= a /\ a < (a \div b) * b + b
OBVIOUS

\* The empty sequence has no places, and nothing else has none.
LEMMA NoPlaces ==
  /\ <<>> \in Seq({}) /\ DOMAIN <<>> = {}
  /\ \A S : \A s \in Seq(S) : DOMAIN s = {} => s = <<>>
OBVIOUS

\* What a sequence has at its places.
LEMMA Elements ==
  ASSUME NEW S, NEW s \in Seq(S)
  PROVE  /\ Len(s) \in Nat /\ DOMAIN s = 1 .. Len(s)
         /\ \A i \in DOMAIN s : s[i] \in S
         /\ s = <<>> <=> Len(s) = 0
OBVIOUS

\* Appending, and looking up what is there.
LEMMA Appended ==
  ASSUME NEW S, NEW s \in Seq(S), NEW e \in S
  PROVE  /\ Append(s, e) \in Seq(S) /\ Len(s) \in Nat
         /\ DOMAIN s = 1 .. Len(s)
         /\ DOMAIN Append(s, e) = 1 .. Len(s) + 1
         /\ \A i \in DOMAIN s : Append(s, e)[i] = s[i]
         /\ Append(s, e)[Len(s) + 1] = e
         /\ Append(s, e) # <<>> /\ Last(Append(s, e)) = e
BY DEF Last

\* The rest of a sequence.
LEMMA TailPlaces ==
  ASSUME NEW S, NEW s \in Seq(S), s # <<>>
  PROVE  /\ DOMAIN Tail(s) = 1 .. Len(s) - 1
         /\ \A x \in DOMAIN Tail(s) :
              x + 1 \in DOMAIN s /\ x + 1 # 1 /\ Tail(s)[x] = s[x + 1]
         /\ \A x \in DOMAIN s :
              x = 1 \/ (x - 1 \in DOMAIN Tail(s) /\ Tail(s)[x - 1] = s[x])
OBVIOUS

\* The events of a time, in stable order, each once.
LEMMA EventsSorted ==
  ASSUME log \in Logs, NEW time
  PROVE  /\ EventsAt(time) \in Seq({e \in log : e.time = time})
         /\ SourcesAt(time) \in Seq(LogSources)
         /\ DOMAIN SourcesAt(time) = DOMAIN EventsAt(time)
         /\ \A k \in DOMAIN EventsAt(time) :
              EventsAt(time)[k] \in log /\ EventsAt(time)[k].time = time
         /\ \A e \in log : e.time = time => \E k \in DOMAIN EventsAt(time) : EventsAt(time)[k] = e
         /\ (\A e \in log : e.time # time) => EventsAt(time) = <<>> /\ SourcesAt(time) = <<>>
         /\ (\E e \in log : e.time = time) => EventsAt(time) # <<>> /\ SourcesAt(time) # <<>>
<1> DEFINE E == {e \in log : e.time = time}
           key == [e \in E |-> e.order]
           s == SortBy(E, key)
           n == Cardinality(E)
<1>1. Sortable(E, key)
  <2>1. IsFiniteSet(log) /\ \A e \in log : e.order \in Int
    BY LogAssumption
  <2>2. IsFiniteSet(E)
    BY <2>1, FS_Subset
  <2>3. \A e, f \in E : key[e] = key[f] => e = f
    BY LogAssumption
  <2> QED BY <2>1, <2>2, <2>3 DEF Sortable
<1>2. EventsAt(time) = s
  BY DEF EventsAt
<1> HIDE DEF E, key
<1>3. /\ s \in Seq(E) /\ DOMAIN s = 1 .. n /\ n \in Nat
      /\ \A k \in 1 .. n : s[k] \in E
      /\ \A e \in E : \E k \in 1 .. n : s[k] = e
  BY <1>1, Sorted
<1> HIDE DEF s, n
<1> USE DEF E
<1>4. ASSUME NEW k \in 1 .. n
      PROVE  s[k] \in log /\ s[k].time = time /\ s[k].source \in LogSources
  BY <1>3 DEF LogSources
<1>5. SourcesAt(time) = [k \in 1 .. n |-> s[k].source]
  BY <1>2, <1>3 DEF SourcesAt
<1>6. SourcesAt(time) \in Seq(LogSources) /\ DOMAIN SourcesAt(time) = 1 .. n
  <2>1. SourcesAt(time) \in [1 .. n -> LogSources]
    BY <1>4, <1>5
  <2> QED BY <1>3, <2>1
<1>7. CASE \E e \in log : e.time = time
  <2>1. DOMAIN s # {}
    BY <1>3, <1>7
  <2>2. s # <<>> /\ SourcesAt(time) # <<>>
    BY <1>3, <1>6, <2>1, NoPlaces
  <2> QED BY <1>2, <1>3, <1>4, <1>6, <1>7, <2>2
<1>8. CASE \A e \in log : e.time # time
  <2>1. DOMAIN s = {}
    BY <1>3, <1>8
  <2>2. s = <<>> /\ SourcesAt(time) = <<>>
    BY <1>3, <1>6, <2>1, NoPlaces
  <2> QED BY <1>2, <1>3, <1>4, <1>6, <1>8, <2>2
<1> QED BY <1>7, <1>8

\* The constants of the builder are numbers.
LEMMA BuilderNumbers ==
  /\ Duration \in Nat /\ Duration > 0
  /\ Interval \in Nat /\ Interval > 0
  /\ TicksPerSecond \in Int /\ TicksPerSecond > 0
BY EpisodeConfigAssumption DEF Interval

\* The previous time is the last decision's, and no decision is after it.
LEMMA Previous ==
  ASSUME BuildInv, build.at # "idle"
  PROVE  /\ build.decisions \in Seq(Decisions) /\ build.start \in Int /\ build.end \in Int
         /\ PreviousTime \in Int /\ NextTick = PreviousTime + Interval
         /\ build.start <= PreviousTime /\ PreviousTime <= build.end
         /\ \A i \in DOMAIN build.decisions :
              build.decisions[i].time \in Int /\ build.decisions[i].time <= PreviousTime
         /\ build.decisions # <<>> =>
              /\ Len(build.decisions) \in DOMAIN build.decisions
              /\ PreviousTime = build.decisions[Len(build.decisions)].time
         /\ build.decisions = <<>> => PreviousTime = build.start
<1> DEFINE d == build.decisions
<1>1. d \in Seq(Decisions) /\ build.start \in Int /\ build.end \in Int
  BY DEF BuildInv, BuildTyped
<1>2. \A i \in DOMAIN d : d[i].time \in Int
  <2>1. \A i \in DOMAIN d : d[i] \in Decisions
    BY <1>1, Elements
  <2> QED BY <2>1 DEF Decisions
<1>3. CASE d = <<>>
  <2>1. PreviousTime = build.start /\ DOMAIN d = {}
    BY <1>3, NoPlaces DEF PreviousTime
  <2>2. build.start <= build.end
    BY DEF BuildInv, EndsRightly
  <2> QED BY <1>1, <1>3, <2>1, <2>2 DEF NextTick
<1>4. CASE d # <<>>
  <2>1. /\ DOMAIN d = 1 .. Len(d) /\ Len(d) \in DOMAIN d
        /\ \A i \in DOMAIN d : i = Len(d) \/ i < Len(d)
    BY <1>1, <1>4
  <2>2. PreviousTime = d[Len(d)].time
    BY <1>4 DEF PreviousTime, Last
  <2>3. \A i \in DOMAIN d : i < Len(d) => d[i].time < PreviousTime
    BY <2>1, <2>2 DEF BuildInv, DecisionsOK
  <2>4. build.start <= PreviousTime /\ PreviousTime <= build.end
    BY <2>1, <2>2 DEF BuildInv, DecisionsOK, DecisionOK
  <2> HIDE DEF d
  <2>5. \A i \in DOMAIN d : d[i].time \in Int /\ d[i].time <= PreviousTime
    BY <1>2, <2>1, <2>2, <2>3
  <2> QED BY <1>1, <1>2, <1>4, <2>1, <2>2, <2>4, <2>5 DEF NextTick, d
<1> QED BY <1>3, <1>4

\* A decision of the events of a time the clock may come to next.
LEMMA DecisionMade ==
  ASSUME BuildInv, build.at # "idle", NEW time \in Int,
         PreviousTime <= time, build.decisions # <<>> => PreviousTime < time,
         time <= build.end, time <= NextTick,
         (\A e \in log : e.time # time) => time \in {NextTick, build.end},
         log' = log, build'.start = build.start, build'.end = build.end,
         build'.decisions = Append(build.decisions, Decision(time, EventsAt(time)))
  PROVE  /\ build'.decisions \in Seq(Decisions)
         /\ DecisionsOK'
         /\ DOMAIN build'.decisions = DOMAIN build.decisions \cup {Len(build.decisions) + 1}
         /\ \A i \in DOMAIN build.decisions : build'.decisions[i] = build.decisions[i]
         /\ build'.decisions[Len(build.decisions) + 1].time = time
         /\ build'.decisions # <<>> /\ Last(build'.decisions).time = time
<1> DEFINE d == build.decisions
           e == Decision(time, EventsAt(time))
<1>0. /\ d \in Seq(Decisions) /\ PreviousTime \in Int /\ build.start \in Int
      /\ build.end \in Int /\ build.start <= PreviousTime
      /\ \A i \in DOMAIN d : d[i].time \in Int /\ d[i].time <= PreviousTime
      /\ NextTick = PreviousTime + Interval
      /\ d # <<>> => PreviousTime = d[Len(d)].time
      /\ d = <<>> => PreviousTime = build.start
  BY Previous
<1>1. /\ e.time = time /\ e.elapsed = (time - PreviousTime) \div TicksPerSecond
      /\ e.sources = SourcesAt(time)
  BY DEF Decision, SourcesAt
<1>2. e.elapsed \in Int /\ SourcesAt(time) \in Seq(LogSources)
  <2>1. log \in Logs
    BY DEF BuildInv, BuildTyped
  <2>2. SourcesAt(time) \in Seq(LogSources)
    BY <2>1, EventsSorted
  <2>3. time - PreviousTime \in Int /\ TicksPerSecond \in Int /\ TicksPerSecond > 0
    BY <1>0, BuilderNumbers
  <2>4. (time - PreviousTime) \div TicksPerSecond \in Int
    BY <2>3, DivBounds
  <2> HIDE DEF e
  <2> QED BY <1>1, <2>2, <2>4
<1>3. e \in Decisions
  BY <1>1, <1>2 DEF Decision, Decisions
<1> HIDE DEF e
<1>n. PICK n \in Int : n = Len(d) + 1
  BY <1>0, Elements
<1>4. /\ build'.decisions \in Seq(Decisions) /\ Len(d) \in Nat
      /\ DOMAIN d = 1 .. Len(d) /\ DOMAIN build'.decisions = 1 .. n
      /\ \A i \in DOMAIN d : build'.decisions[i] = d[i]
      /\ build'.decisions[n] = e
      /\ build'.decisions # <<>> /\ Last(build'.decisions) = e
  BY <1>0, <1>3, <1>n, Appended DEF e
<1>5. Before(build.decisions, n)' = PreviousTime
  <2>1. CASE d = <<>>
    <3>1. n = 1 /\ PreviousTime = build'.start
      BY <1>0, <1>4, <1>n, <2>1
    <3> QED BY <3>1 DEF Before
  <2>2. CASE d # <<>>
    <3>1. Len(d) \in DOMAIN d /\ n # 1 /\ n - 1 = Len(d)
      BY <1>0, <1>4, <1>n, <2>2, Elements
    <3>2. build'.decisions[n - 1].time = PreviousTime
      BY <1>0, <1>4, <2>2, <3>1
    <3> QED BY <3>1, <3>2 DEF Before
  <2> QED BY <2>1, <2>2
<1>6. DecisionOK(build.decisions, n)'
  <2>1. /\ 0 <= time - PreviousTime - e.elapsed * TicksPerSecond
        /\ time - PreviousTime - e.elapsed * TicksPerSecond < TicksPerSecond
    <3> DEFINE a == time - PreviousTime
               q == (a \div TicksPerSecond) * TicksPerSecond
    <3>1. a \in Int /\ TicksPerSecond \in Int /\ TicksPerSecond > 0
      BY <1>0, BuilderNumbers
    <3> HIDE DEF a
    <3>2. q <= a /\ a < q + TicksPerSecond /\ q \in Int
      BY <3>1, DivBounds
    <3>3. e.elapsed * TicksPerSecond = q
      BY <1>1 DEF a
    <3> HIDE DEF q
    <3>4. 0 <= a - q /\ a - q < TicksPerSecond
      BY <3>1, <3>2
    <3> QED BY <3>3, <3>4 DEF a
  <2>2. SourcesAt(time)' = SourcesAt(time) /\ Interval' = Interval
    BY DEF SourcesAt, EventsAt, Interval
  <2>3. SourcesAt(time) = <<>> => time \in {PreviousTime + Interval, build.end}
    <3>1. log \in Logs
      BY DEF BuildInv, BuildTyped
    <3> QED BY <1>0, <3>1, EventsSorted
  <2>4. time - PreviousTime <= Interval
    BY <1>0, BuilderNumbers
  <2>5. build'.start <= time /\ time <= build'.end /\ PreviousTime <= time
    BY <1>0
  <2>6. build'.decisions[n].time = time /\ build'.decisions[n].elapsed = e.elapsed
        /\ build'.decisions[n].sources = SourcesAt(time)
    BY <1>1, <1>4
  <2> HIDE DEF d
  <2> QED BY <1>5, <2>1, <2>2, <2>3, <2>4, <2>5, <2>6 DEF DecisionOK
<1>7. ASSUME NEW i \in DOMAIN d
      PROVE  DecisionOK(build.decisions, i)'
  <2>1. DecisionOK(d, i)
    BY DEF BuildInv, DecisionsOK
  <2>2. Before(build.decisions, i)' = Before(d, i) /\ build'.decisions[i] = d[i]
    BY <1>4 DEF Before
  <2>3. \A t : SourcesAt(t)' = SourcesAt(t)
    BY DEF SourcesAt, EventsAt
  <2> QED BY <2>1, <2>2, <2>3 DEF DecisionOK, Interval
<1>8. ASSUME NEW i \in 1 .. n, NEW j \in 1 .. n, i < j
      PROVE  build'.decisions[i].time < build'.decisions[j].time
  <2>1. CASE j \in DOMAIN d
    <3>1. i \in DOMAIN d
      BY <1>4, <1>n, <1>8, <2>1
    <3>2. d[i].time < d[j].time
      BY <1>8, <2>1, <3>1 DEF BuildInv, DecisionsOK
    <3> QED BY <1>4, <2>1, <3>1, <3>2
  <2>2. CASE j = n
    <3>1. i \in DOMAIN d /\ d # <<>>
      BY <1>0, <1>4, <1>n, <1>8, <2>2, Elements
    <3>2. d[i].time \in Int /\ d[i].time <= PreviousTime /\ PreviousTime < time
      BY <1>0, <3>1
    <3>3. build'.decisions[i] = d[i] /\ build'.decisions[j] = e
      BY <1>4, <2>2, <3>1
    <3> HIDE DEF d
    <3> QED BY <1>0, <1>1, <3>2, <3>3
  <2> QED BY <1>4, <1>n, <1>8, <2>1, <2>2
<1>9. DecisionsOK'
  <2>1. \A i \in 1 .. n : DecisionOK(build.decisions, i)'
    BY <1>4, <1>n, <1>6, <1>7
  <2> QED BY <1>4, <1>8, <2>1 DEF DecisionsOK
<1> QED BY <1>1, <1>4, <1>n, <1>9

\* A finite set of numbers is sorted by them; the last of it is its greatest.
LEMMA NumbersSorted ==
  ASSUME NEW S, IsFiniteSet(S), S \subseteq Int
  PROVE  /\ Sortable(S, [t \in S |-> t])
         /\ S # {} => Max(S) \in S /\ \A t \in S : t <= Max(S)
<1> DEFINE key == [t \in S |-> t]
           n == Cardinality(S)
           s == SortBy(S, key)
<1>1. Sortable(S, key)
  BY DEF Sortable
<1>2. \A t \in S : key[t] = t
  OBVIOUS
<1> HIDE DEF key
<1>3. /\ n \in Nat /\ \A i \in 1 .. n : s[i] \in S
      /\ \A x \in S : \E i \in 1 .. n : s[i] = x
      /\ \A i, j \in 1 .. n : i < j => key[s[i]] < key[s[j]]
  BY <1>1, Sorted
<1> HIDE DEF n, s
<1>4. ASSUME S # {}
      PROVE  \E m \in S : \A t \in S : m >= t
  <2>1. n \in 1 .. n
    <3>1. PICK x \in S : TRUE
      BY <1>4
    <3>2. PICK i \in 1 .. n : s[i] = x
      BY <1>3
    <3> QED BY <1>3, <3>2
  <2>2. ASSUME NEW t \in S
        PROVE  s[n] >= t
    <3>1. PICK i \in 1 .. n : s[i] = t
      BY <1>3
    <3>2. s[i] \in Int /\ s[n] \in Int
      BY <1>3, <2>1
    <3>3. i = n \/ s[i] < s[n]
      <4>1. i = n \/ i < n
        BY <1>3
      <4>2. i < n => key[s[i]] < key[s[n]]
        BY <1>3, <2>1
      <4>3. key[s[i]] = s[i] /\ key[s[n]] = s[n]
        BY <1>2, <1>3, <2>1
      <4> QED BY <4>1, <4>2, <4>3
    <3> QED BY <3>1, <3>2, <3>3
  <2> QED BY <1>3, <2>1, <2>2
<1>5. ASSUME S # {}
      PROVE  Max(S) \in S /\ \A t \in S : t <= Max(S)
  <2>1. Max(S) \in S /\ \A t \in S : Max(S) >= t
    BY <1>4, <1>5 DEF Max
  <2> QED BY <2>1
<1> QED BY <1>1, <1>5 DEF key

\* Where the episode ends.
LEMMA ReplayEnds ==
  ASSUME log \in Logs, NEW start \in Int
  PROVE  /\ ReplayEnd(start) \in Int /\ ReplayEnd(start) >= start
         /\ \A t \in Int : t > start =>
              (ReplayEnd(start) >= t <=> \E e \in log : e.time >= t)
         /\ IsFiniteSet({e.time : e \in log}) /\ {e.time : e \in log} \subseteq Int
<1> DEFINE T == {e.time : e \in log}
           R == {start} \cup {t \in T : t >= start}
<1>1. IsFiniteSet(log) /\ \A e \in log : e.time \in Int
  BY LogAssumption
<1>2. IsFiniteSet(T)
  <2> DEFINE f == [e \in log |-> e.time]
  <2>1. f \in Surjection(log, T)
    BY DEF Surjection
  <2> QED BY <1>1, <2>1, FS_Surjection
<1>3. IsFiniteSet(R) /\ R \subseteq Int /\ R # {}
  <2>1. IsFiniteSet({t \in T : t >= start})
    BY <1>2, FS_Subset
  <2> QED BY <1>1, <2>1, FS_AddElement
<1>4. Max(R) \in R /\ \A t \in R : t <= Max(R)
  <2> HIDE DEF R
  <2> QED BY <1>3, NumbersSorted
<1>5. ReplayEnd(start) = Max(R)
  BY DEF ReplayEnd
<1>6. PICK m \in Int : m = Max(R)
  BY <1>3, <1>4
<1>7. m >= start /\ (m = start \/ \E e \in log : e.time = m)
  BY <1>1, <1>4, <1>6
<1>8. ASSUME NEW t \in Int, t > start
      PROVE  m >= t <=> \E e \in log : e.time >= t
  <2>1. ASSUME NEW e \in log, e.time >= t
        PROVE  m >= t
    <3>1. e.time \in R /\ e.time \in Int
      BY <1>1, <1>8, <2>1
    <3> QED BY <1>4, <1>6, <2>1, <3>1
  <2> QED BY <1>7, <1>8, <2>1
<1> QED BY <1>1, <1>2, <1>5, <1>6, <1>7, <1>8

\* No build, whatever there was.
LEMMA NotBuilding ==
  ASSUME log' \in Logs, build' = NoBuild
  PROVE  BuildInv'
<1>1. <<>> \in Seq(Int) /\ <<>> \in Seq(Decisions)
  OBVIOUS
<1> QED BY <1>1 DEF NoBuild, BuildInv, BuildTyped, EndsRightly, DecisionsOK, GroupsOK,
                  NoneForgotten, ClosedAtEnd

\* An episode that starts has all its times before it.
LEMMA BuildStarts ==
  ASSUME BuildInv, NEW start \in Int, NEW splitEnd, StartBuild(start, splitEnd)
  PROVE  BuildInv'
<1> DEFINE horizon == start + Duration
           replayEnd == ReplayEnd(start)
           end == IF replayEnd >= horizon THEN horizon ELSE replayEnd
           times == {e.time : e \in log} \cap start .. end
           groups == SortBy(times, [t \in times |-> t])
           reason == IF replayEnd >= horizon THEN "duration_elapsed" ELSE "replay_exhausted"
<1>1. /\ log \in Logs /\ log' = log
      /\ build' = [at |-> "loop", start |-> start, end |-> end, reason |-> reason,
                   groups |-> groups, decisions |-> <<>>]
  BY DEF BuildInv, BuildTyped, StartBuild
<1>2. /\ horizon \in Int /\ horizon > start
      /\ replayEnd \in Int /\ replayEnd >= start
      /\ replayEnd >= horizon <=> \E e \in log : e.time >= horizon
      /\ IsFiniteSet({e.time : e \in log}) /\ {e.time : e \in log} \subseteq Int
  <2>1. horizon \in Int /\ horizon > start
    BY BuilderNumbers
  <2> HIDE DEF horizon
  <2> QED BY <1>1, <2>1, ReplayEnds
<1>3. end \in Int /\ start <= end
  BY <1>2
<1>4. IsFiniteSet(times) /\ times \subseteq Int
  BY <1>2, FS_Subset
<1> HIDE DEF times, end, replayEnd, horizon, reason
<1>5. /\ groups \in Seq(times) /\ groups \in Seq(Int)
      /\ \A x \in DOMAIN groups : groups[x] \in times
      /\ \A t \in times : \E x \in DOMAIN groups : groups[x] = t
      /\ \A x, y \in DOMAIN groups : x < y => groups[x] < groups[y]
  <2> DEFINE key == [t \in times |-> t]
  <2>1. Sortable(times, key) /\ \A t \in times : key[t] = t
    BY <1>4, NumbersSorted
  <2> HIDE DEF key
  <2> DEFINE s == SortBy(times, key)
  <2>2. /\ s \in Seq(times) /\ DOMAIN s = 1 .. Cardinality(times)
        /\ \A x \in 1 .. Cardinality(times) : s[x] \in times
        /\ \A t \in times : \E x \in 1 .. Cardinality(times) : s[x] = t
        /\ \A x, y \in 1 .. Cardinality(times) : x < y => key[s[x]] < key[s[y]]
    BY <2>1, Sorted
  <2>3. groups = s
    BY DEF key
  <2> HIDE DEF s, groups
  <2>4. \A x, y \in DOMAIN s : x < y => s[x] < s[y]
    BY <2>1, <2>2
  <2>5. s \in Seq(Int)
    <3>1. \A x \in DOMAIN s : s[x] \in Int
      BY <1>4, <2>2
    <3> QED BY <2>2, <3>1, Elements
  <2> QED BY <2>2, <2>3, <2>4, <2>5
<1> HIDE DEF groups
<1>6. BuildTyped'
  <2>1. <<>> \in Seq(Decisions) /\ reason \in {"duration_elapsed", "replay_exhausted"}
    BY DEF reason
  <2> QED BY <1>1, <1>3, <1>5, <2>1 DEF BuildTyped
<1>7. EndsRightly'
  <2>1. /\ reason = "duration_elapsed" <=> replayEnd >= horizon
        /\ reason = "duration_elapsed" => end = horizon
    BY DEF reason, end
  <2>2. reason = "duration_elapsed" <=> \E e \in log : e.time >= start + Duration
    BY <1>2, <2>1 DEF horizon
  <2>3. reason = "duration_elapsed" => end = start + Duration
    BY <2>1 DEF horizon
  <2> QED BY <1>1, <1>3, <2>2, <2>3 DEF EndsRightly
<1>8. \A t \in times : \E e \in log : e.time = t /\ start <= t /\ t <= end
  BY <1>3 DEF times
<1>9. \A e \in log : start <= e.time /\ e.time <= end => e.time \in times
  BY <1>2, <1>3 DEF times
<1>10. DecisionsOK' /\ ClosedAtEnd'
  BY <1>1, NoPlaces DEF DecisionsOK, ClosedAtEnd
<1>11. GroupsOK'
  BY <1>1, <1>5, <1>8, NoPlaces DEF GroupsOK, InEpisode
<1>12. NoneForgotten'
  BY <1>1, <1>5, <1>9 DEF NoneForgotten, InEpisode
<1> QED BY <1>6, <1>7, <1>10, <1>11, <1>12 DEF BuildInv

\* What the loop does with a decision, whatever time it is at: only the events
\* that wait are left to say.
LEMMA LoopDecides ==
  ASSUME BuildInv, build.at = "loop", NEW time \in Int,
         PreviousTime <= time, build.decisions # <<>> => PreviousTime < time,
         time <= build.end, time <= NextTick,
         (\A e \in log : e.time # time) => time \in {NextTick, build.end},
         EventsAt(time) # <<>> => build.groups # <<>>,
         log' = log, Decide(time, EventsAt(time))
  PROVE  /\ BuildTyped' /\ EndsRightly' /\ DecisionsOK' /\ ClosedAtEnd'
         /\ build'.at = "loop" /\ InEpisode' = InEpisode
         /\ build'.groups = IF EventsAt(time) = <<>> THEN build.groups ELSE Tail(build.groups)
         /\ DOMAIN build'.decisions = DOMAIN build.decisions \cup {Len(build.decisions) + 1}
         /\ \A i \in DOMAIN build.decisions : build'.decisions[i] = build.decisions[i]
         /\ build'.decisions[Len(build.decisions) + 1].time = time
<1> DEFINE left == IF EventsAt(time) = <<>> THEN build.groups ELSE Tail(build.groups)
           d == Append(build.decisions, Decision(time, EventsAt(time)))
<1>1. build' = [build EXCEPT !.decisions = d, !.groups = left]
  BY DEF Decide
<1>2. build \in [at : {"idle", "loop", "built"}, start : Int, end : Int,
                 reason : {"none", "duration_elapsed", "replay_exhausted"},
                 groups : Seq(Int), decisions : Seq(Decisions)]
  BY DEF BuildInv, BuildTyped
<1> HIDE DEF left, d
<1>3. /\ build'.at = "loop" /\ build'.start = build.start /\ build'.end = build.end
      /\ build'.reason = build.reason /\ build'.decisions = d /\ build'.groups = left
  BY <1>1, <1>2
<1>4. left \in Seq(Int)
  BY <1>2 DEF left
<1>5. /\ build'.decisions \in Seq(Decisions) /\ DecisionsOK'
      /\ DOMAIN build'.decisions = DOMAIN build.decisions \cup {Len(build.decisions) + 1}
      /\ \A i \in DOMAIN build.decisions : build'.decisions[i] = build.decisions[i]
      /\ build'.decisions[Len(build.decisions) + 1].time = time
  BY <1>3, DecisionMade DEF d
<1>6. BuildTyped'
  BY <1>1, <1>2, <1>3, <1>4, <1>5 DEF BuildTyped, BuildInv
<1>7. EndsRightly' /\ ClosedAtEnd'
  BY <1>3 DEF BuildInv, EndsRightly, ClosedAtEnd
<1>8. InEpisode' = InEpisode
  BY <1>3 DEF InEpisode
<1> QED BY <1>3, <1>5, <1>6, <1>7, <1>8 DEF left

\* The times that wait are after every decision, the first of them first.
LEMMA Waiting ==
  ASSUME BuildInv, build.at = "loop"
  PROVE  /\ build.groups \in Seq(Int) /\ DOMAIN build.groups = 1 .. Len(build.groups)
         /\ Len(build.groups) \in Nat
         /\ \A x \in DOMAIN build.groups :
              build.groups[x] \in Int /\ build.groups[x] <= build.end
         /\ build.groups # <<>> =>
              /\ 1 \in DOMAIN build.groups /\ Head(build.groups) = build.groups[1]
              /\ PreviousTime <= Head(build.groups)
              /\ build.decisions # <<>> => PreviousTime < Head(build.groups)
              /\ \A x \in DOMAIN build.groups :
                   x # 1 => Head(build.groups) < build.groups[x]
<1> DEFINE g == build.groups
<1>1. g \in Seq(Int)
  BY DEF BuildInv, BuildTyped
<1>2. /\ DOMAIN g = 1 .. Len(g) /\ Len(g) \in Nat /\ g = <<>> <=> Len(g) = 0
      /\ \A x \in DOMAIN g : g[x] \in Int
  BY <1>1, Elements
<1>3. \A x \in DOMAIN g : build.start <= g[x] /\ g[x] <= build.end
  BY DEF BuildInv, GroupsOK, InEpisode
<1>4. ASSUME g # <<>>
      PROVE  1 \in DOMAIN g /\ Head(g) = g[1]
  BY <1>1, <1>2, <1>4
<1>5. ASSUME g # <<>>
      PROVE  /\ PreviousTime <= g[1]
             /\ build.decisions # <<>> => PreviousTime < g[1]
  <2>1. CASE build.decisions = <<>>
    BY <1>3, <1>4, <1>5, <2>1, Previous
  <2>2. CASE build.decisions # <<>>
    <3>1. build.decisions[Len(build.decisions)].time < g[1]
      BY <1>4, <1>5, <2>2, Previous DEF BuildInv, GroupsOK
    <3>2. PreviousTime < g[1] /\ PreviousTime \in Int /\ g[1] \in Int
      BY <1>2, <1>4, <1>5, <2>2, <3>1, Previous
    <3> QED BY <3>2
  <2> QED BY <2>1, <2>2
<1>6. ASSUME g # <<>>, NEW x \in DOMAIN g, x # 1
      PROVE  g[1] < g[x]
  <2>1. 1 < x
    BY <1>2, <1>6
  <2> QED BY <1>4, <1>6, <2>1 DEF BuildInv, GroupsOK
<1> QED BY <1>1, <1>2, <1>3, <1>4, <1>5, <1>6

\* A tick of the maintenance interval that no event falls on.
LEMMA TickDecided ==
  ASSUME BuildInv, build.at = "loop", log' = log, Decide(NextTick, <<>>),
         NextTick <= build.end,
         \A x \in DOMAIN build.groups : NextTick < build.groups[x]
  PROVE  BuildInv'
<1>0. /\ NextTick \in Int /\ PreviousTime \in Int /\ PreviousTime < NextTick
      /\ build.start <= PreviousTime /\ log \in Logs
      /\ \A i \in DOMAIN build.decisions :
           build.decisions[i].time \in Int /\ build.decisions[i].time <= PreviousTime
  BY Previous, BuilderNumbers DEF BuildInv, BuildTyped
<1>t. PICK time \in Int : time = NextTick
  BY <1>0
<1>1. \A e \in log : e.time # time
  <2> SUFFICES ASSUME NEW e \in log, e.time = time PROVE FALSE
    OBVIOUS
  <2>1. e \in InEpisode
    BY <1>0, <1>t, Previous DEF InEpisode
  <2>2. \/ \E i \in DOMAIN build.decisions : build.decisions[i].time = time
        \/ \E x \in DOMAIN build.groups : build.groups[x] = time
    BY <2>1 DEF BuildInv, NoneForgotten
  <2>3. \A i \in DOMAIN build.decisions : build.decisions[i].time # time
    BY <1>0, <1>t
  <2>4. \A x \in DOMAIN build.groups : build.groups[x] # time
    BY <1>0, <1>t
  <2> QED BY <2>2, <2>3, <2>4
<1>2. EventsAt(time) = <<>>
  BY <1>0, <1>1, EventsSorted
<1>3. /\ BuildTyped' /\ EndsRightly' /\ DecisionsOK' /\ ClosedAtEnd'
      /\ build'.at = "loop" /\ InEpisode' = InEpisode /\ build'.groups = build.groups
      /\ DOMAIN build'.decisions = DOMAIN build.decisions \cup {Len(build.decisions) + 1}
      /\ \A i \in DOMAIN build.decisions : build'.decisions[i] = build.decisions[i]
      /\ build'.decisions[Len(build.decisions) + 1].time = time
  <2>1. /\ PreviousTime <= time /\ PreviousTime < time /\ time <= build.end /\ time <= NextTick
        /\ Decide(time, EventsAt(time)) /\ time \in {NextTick, build.end}
    BY <1>0, <1>2, <1>t
  <2> QED BY <1>2, <2>1, LoopDecides
<1>4. GroupsOK'
  BY <1>3, <1>t DEF BuildInv, GroupsOK
<1>5. NoneForgotten'
  BY <1>3 DEF BuildInv, NoneForgotten
<1> QED BY <1>3, <1>4, <1>5 DEF BuildInv

\* The decision on the events of a time.
LEMMA EventsDecided ==
  ASSUME BuildInv, DecideOnEvents
  PROVE  BuildInv'
<1>0. /\ build.at = "loop" /\ log' = log /\ build.groups # <<>>
      /\ NextTick >= Head(build.groups)
      /\ Decide(Head(build.groups), EventsAt(Head(build.groups)))
  BY DEF DecideOnEvents
<1>1. /\ build.groups \in Seq(Int) /\ DOMAIN build.groups = 1 .. Len(build.groups)
      /\ Len(build.groups) \in Nat
      /\ 1 \in DOMAIN build.groups /\ Head(build.groups) = build.groups[1]
      /\ Head(build.groups) \in Int /\ Head(build.groups) <= build.end
      /\ PreviousTime <= Head(build.groups)
      /\ build.decisions # <<>> => PreviousTime < Head(build.groups)
      /\ \A x \in DOMAIN build.groups : x # 1 => Head(build.groups) < build.groups[x]
  BY <1>0, Waiting
<1>t. PICK time \in Int : time = Head(build.groups)
  BY <1>1
<1>2. PICK e \in InEpisode : e.time = time
  BY <1>0, <1>1, <1>t DEF BuildInv, GroupsOK
<1>3. e \in log /\ log \in Logs /\ EventsAt(time) # <<>>
  BY <1>2, EventsSorted DEF InEpisode, BuildInv, BuildTyped
<1>4. /\ BuildTyped' /\ EndsRightly' /\ DecisionsOK' /\ ClosedAtEnd'
      /\ build'.at = "loop" /\ InEpisode' = InEpisode /\ build'.groups = Tail(build.groups)
      /\ DOMAIN build'.decisions = DOMAIN build.decisions \cup {Len(build.decisions) + 1}
      /\ \A i \in DOMAIN build.decisions : build'.decisions[i] = build.decisions[i]
      /\ build'.decisions[Len(build.decisions) + 1].time = time
  <2>1. /\ PreviousTime <= time /\ time <= build.end /\ time <= NextTick
        /\ build.decisions # <<>> => PreviousTime < time
        /\ Decide(time, EventsAt(time)) /\ ~ \A f \in log : f.time # time
    BY <1>0, <1>1, <1>2, <1>3, <1>t, Previous, BuilderNumbers
  <2> QED BY <1>0, <1>3, <2>1, LoopDecides
<1>5. /\ DOMAIN build'.groups = 1 .. Len(build.groups) - 1
      /\ \A x \in DOMAIN build'.groups :
           x + 1 \in DOMAIN build.groups /\ x + 1 # 1 /\ build'.groups[x] = build.groups[x + 1]
      /\ \A x \in DOMAIN build.groups :
           x = 1 \/ (x - 1 \in DOMAIN build'.groups /\ build'.groups[x - 1] = build.groups[x])
  <2>1. /\ DOMAIN Tail(build.groups) = 1 .. Len(build.groups) - 1
        /\ \A x \in DOMAIN Tail(build.groups) :
             /\ x + 1 \in DOMAIN build.groups /\ x + 1 # 1
             /\ Tail(build.groups)[x] = build.groups[x + 1]
        /\ \A x \in DOMAIN build.groups :
             x = 1 \/ ( /\ x - 1 \in DOMAIN Tail(build.groups)
                       /\ Tail(build.groups)[x - 1] = build.groups[x])
    <3>1. build.groups \in Seq(Int) /\ build.groups # <<>>
      BY <1>0, <1>1
    <3> QED BY <3>1, TailPlaces
  <2>2. build'.groups = Tail(build.groups)
    BY <1>4
  <2> QED BY <2>1, <2>2
<1>6. GroupsOK'
  <2>1. ASSUME NEW x \in DOMAIN build'.groups, NEW y \in DOMAIN build'.groups, x < y
        PROVE  build'.groups[x] < build'.groups[y]
    <3>1. x + 1 < y + 1 /\ x + 1 \in DOMAIN build.groups /\ y + 1 \in DOMAIN build.groups
      BY <1>1, <1>5, <2>1
    <3>2. build.groups[x + 1] < build.groups[y + 1]
      BY <1>0, <3>1 DEF BuildInv, GroupsOK
    <3> QED BY <1>5, <3>2
  <2>2. ASSUME NEW x \in DOMAIN build'.groups
        PROVE  \E f \in InEpisode : f.time = build'.groups[x]
    BY <1>0, <1>5 DEF BuildInv, GroupsOK
  <2>3. ASSUME NEW x \in DOMAIN build'.groups, NEW i \in DOMAIN build'.decisions
        PROVE  build'.decisions[i].time < build'.groups[x]
    <3>1. x + 1 \in DOMAIN build.groups /\ build'.groups[x] = build.groups[x + 1]
          /\ Head(build.groups) < build.groups[x + 1]
      BY <1>1, <1>5
    <3>2. CASE i \in DOMAIN build.decisions
      BY <1>0, <1>4, <3>1, <3>2 DEF BuildInv, GroupsOK
    <3>3. CASE i = Len(build.decisions) + 1
      BY <1>4, <1>t, <3>1, <3>3
    <3> QED BY <1>4, <3>2, <3>3
  <2> QED BY <1>4, <2>1, <2>2, <2>3 DEF GroupsOK
<1>7. NoneForgotten'
  <2> SUFFICES ASSUME NEW f \in InEpisode
               PROVE  \/ \E i \in DOMAIN build'.decisions : build'.decisions[i].time = f.time
                      \/ \E x \in DOMAIN build'.groups : build'.groups[x] = f.time
    BY <1>4 DEF NoneForgotten
  <2>1. CASE \E i \in DOMAIN build.decisions : build.decisions[i].time = f.time
    BY <1>4, <2>1
  <2>2. CASE \E x \in DOMAIN build.groups : build.groups[x] = f.time
    <3>1. PICK x \in DOMAIN build.groups : build.groups[x] = f.time
      BY <2>2
    <3>2. CASE x = 1
      <4>1. f.time = time /\ Len(build.decisions) + 1 \in DOMAIN build'.decisions
        BY <1>1, <1>4, <1>t, <3>1, <3>2
      <4> QED BY <1>4, <4>1
    <3>3. CASE x # 1
      BY <1>5, <3>1, <3>3
    <3> QED BY <3>2, <3>3
  <2> QED BY <1>0, <2>1, <2>2 DEF BuildInv, NoneForgotten
<1> QED BY <1>4, <1>6, <1>7 DEF BuildInv

\* The end, where there is a decision already or one is added.
LEMMA Closes ==
  ASSUME BuildInv, Close
  PROVE  BuildInv'
<1>0. /\ build.at = "loop" /\ log' = log /\ build.groups = <<>> /\ NextTick > build.end
      /\ build' = [build EXCEPT
                     !.at = "built",
                     !.decisions = IF @ = <<>> \/ PreviousTime < build.end
                                   THEN Append(@, Decision(build.end, <<>>)) ELSE @]
  BY DEF Close
<1>1. build \in [at : {"idle", "loop", "built"}, start : Int, end : Int,
                 reason : {"none", "duration_elapsed", "replay_exhausted"},
                 groups : Seq(Int), decisions : Seq(Decisions)] /\ log \in Logs
  BY DEF BuildInv, BuildTyped
<1>2. /\ build'.at = "built" /\ build'.start = build.start /\ build'.end = build.end
      /\ build'.reason = build.reason /\ build'.groups = build.groups
      /\ build'.decisions = IF build.decisions = <<>> \/ PreviousTime < build.end
                            THEN Append(build.decisions, Decision(build.end, <<>>))
                            ELSE build.decisions
  BY <1>0, <1>1
<1>3. EndsRightly' /\ GroupsOK' /\ InEpisode' = InEpisode
  BY <1>0, <1>2 DEF BuildInv, EndsRightly, GroupsOK, InEpisode
<1>4. \A e \in InEpisode : \E i \in DOMAIN build.decisions : build.decisions[i].time = e.time
  BY <1>0, NoPlaces DEF BuildInv, NoneForgotten
<1>5. CASE build.decisions = <<>> \/ PreviousTime < build.end
  <2>1. /\ PreviousTime \in Int /\ build.end \in Int /\ PreviousTime <= build.end
        /\ build.end <= NextTick
        /\ build.decisions # <<>> => PreviousTime < build.end
        /\ \A i \in DOMAIN build.decisions :
             build.decisions[i].time \in Int /\ build.decisions[i].time <= PreviousTime
    BY <1>0, <1>5, Previous, BuilderNumbers
  <2>2. \A e \in log : e.time # build.end
    <3> SUFFICES ASSUME NEW e \in log, e.time = build.end PROVE FALSE
      OBVIOUS
    <3>1. e \in InEpisode
      BY <1>0, <1>1, <2>1 DEF InEpisode, BuildInv, EndsRightly
    <3>2. PICK i \in DOMAIN build.decisions : build.decisions[i].time = build.end
      BY <1>4, <3>1
    <3>3. build.decisions # <<>>
      BY <3>2, NoPlaces
    <3> QED BY <2>1, <3>2, <3>3
  <2>3. EventsAt(build.end) = <<>>
    BY <1>1, <2>2, EventsSorted
  <2>4. /\ build'.decisions \in Seq(Decisions) /\ DecisionsOK'
        /\ DOMAIN build'.decisions = DOMAIN build.decisions \cup {Len(build.decisions) + 1}
        /\ \A i \in DOMAIN build.decisions : build'.decisions[i] = build.decisions[i]
        /\ build'.decisions # <<>> /\ Last(build'.decisions).time = build.end
    <3>t. PICK time \in Int : time = build.end
      BY <2>1
    <3>1. /\ PreviousTime <= time /\ time <= build.end /\ time <= NextTick
          /\ build.decisions # <<>> => PreviousTime < time
          /\ time \in {NextTick, build.end}
          /\ build'.decisions = Append(build.decisions, Decision(time, EventsAt(time)))
      BY <1>2, <1>5, <2>1, <2>3, <3>t
    <3> QED BY <1>0, <1>2, <3>1, <3>t, DecisionMade
  <2>5. BuildTyped'
    BY <1>0, <1>1, <1>2, <2>4 DEF BuildTyped
  <2>6. NoneForgotten'
    BY <1>2, <1>3, <1>4, <2>4 DEF NoneForgotten
  <2> QED BY <1>2, <1>3, <2>4, <2>5, <2>6 DEF BuildInv, ClosedAtEnd
<1>6. CASE build.decisions # <<>> /\ ~(PreviousTime < build.end)
  <2>1. PreviousTime = build.end
    BY <1>0, <1>6, Previous
  <2>2. Last(build.decisions).time = build.end
    BY <1>0, <1>6, <2>1, Previous DEF Last
  <2>3. build'.decisions = build.decisions
    BY <1>2, <1>6
  <2>4. BuildTyped' /\ NoneForgotten'
    <3>1. BuildTyped'
      BY <1>0, <1>1, <1>2, <2>3 DEF BuildTyped
    <3>2. NoneForgotten'
      BY <1>2, <1>3, <1>4, <2>3 DEF NoneForgotten
    <3> QED BY <3>1, <3>2
  <2>5. DecisionsOK'
    <3>1. \A t : SourcesAt(t)' = SourcesAt(t)
      BY <1>0 DEF SourcesAt, EventsAt
    <3>2. ASSUME NEW i
          PROVE  DecisionOK(build.decisions, i)' <=> DecisionOK(build.decisions, i)
      BY <1>2, <2>3, <3>1 DEF DecisionOK, Before, Interval
    <3> QED BY <1>0, <1>2, <2>3, <3>2 DEF BuildInv, DecisionsOK
  <2> QED BY <1>2, <1>3, <1>6, <2>2, <2>3, <2>4, <2>5 DEF BuildInv, ClosedAtEnd
<1> QED BY <1>5, <1>6

\* Every step of the loop.
LEMMA LoopSteps ==
  ASSUME BuildInv, BuilderNext
  PROVE  BuildInv'
<1>1. CASE TickBefore
  <2>1. build.at = "loop" /\ build.groups # <<>> /\ NextTick < Head(build.groups)
        /\ log' = log /\ Decide(NextTick, <<>>)
    BY <1>1 DEF TickBefore
  <2>2. /\ NextTick \in Int
        /\ \A x \in DOMAIN build.groups :
             build.groups[x] \in Int /\ build.groups[x] <= build.end /\ build.end \in Int
        /\ 1 \in DOMAIN build.groups /\ Head(build.groups) = build.groups[1]
        /\ \A x \in DOMAIN build.groups : x # 1 => Head(build.groups) < build.groups[x]
    BY <2>1, Previous, Waiting, BuilderNumbers
  <2>3. NextTick <= build.end /\ \A x \in DOMAIN build.groups : NextTick < build.groups[x]
    BY <2>1, <2>2
  <2> QED BY <2>1, <2>3, TickDecided
<1>2. CASE DecideOnEvents
  BY <1>2, EventsDecided
<1>3. CASE TickAfter
  BY <1>3, TickDecided, NoPlaces DEF TickAfter
<1>4. CASE Close
  BY <1>4, Closes
<1> QED BY <1>1, <1>2, <1>3, <1>4 DEF BuilderNext

\* What a finished episode's decisions carry.
LEMMA Built ==
  ASSUME BuildInv, build.at = "built"
  PROVE  /\ build.decisions \in Seq(Decisions)
         /\ \A i \in DOMAIN build.decisions : DecisionOK(build.decisions, i)
         /\ \A e \in InEpisode : \E i \in DOMAIN build.decisions :
              build.decisions[i].time = e.time /\ e.source \in ToSet(build.decisions[i].sources)
<1>1. log \in Logs /\ build.decisions \in Seq(Decisions)
  BY DEF BuildInv, BuildTyped
<1>2. \A i \in DOMAIN build.decisions : DecisionOK(build.decisions, i)
  BY DEF BuildInv, DecisionsOK
<1>3. ASSUME NEW e \in InEpisode
      PROVE  \E i \in DOMAIN build.decisions :
               build.decisions[i].time = e.time /\ e.source \in ToSet(build.decisions[i].sources)
  <2>1. PICK i \in DOMAIN build.decisions : build.decisions[i].time = e.time
    BY <1>3 DEF BuildInv, NoneForgotten
  <2>2. build.decisions[i].sources = SourcesAt(e.time) /\ e \in log
    BY <1>2, <2>1 DEF DecisionOK, InEpisode
  <2>3. PICK k \in DOMAIN EventsAt(e.time) : EventsAt(e.time)[k] = e
    BY <1>1, <2>2, EventsSorted
  <2>4. k \in DOMAIN SourcesAt(e.time) /\ SourcesAt(e.time)[k] = e.source
    BY <2>3 DEF SourcesAt
  <2> QED BY <2>1, <2>2, <2>4 DEF ToSet
<1> QED BY <1>1, <1>2, <1>3

LEMMA CoversBuilt == BuildInv => EpisodeCovers
<1> SUFFICES ASSUME BuildInv, build.at = "built" PROVE EpisodeCovers
  BY DEF EpisodeCovers
<1> DEFINE d == build.decisions
<1>1. d # <<>> /\ Last(d).time = build.end
  BY DEF BuildInv, ClosedAtEnd
<1>2. ASSUME NEW i \in DOMAIN d
      PROVE  /\ i > 1 => Before(d, i) < d[i].time
             /\ d[i].time - Before(d, i) <= Interval
             /\ d[i].sources = <<>> => d[i].time \in {Before(d, i) + Interval, build.end}
             /\ 0 <= d[i].time - Before(d, i) - d[i].elapsed * TicksPerSecond
             /\ d[i].time - Before(d, i) - d[i].elapsed * TicksPerSecond < TicksPerSecond
             /\ d[i].sources = SourcesAt(d[i].time)
  <2>1. DecisionOK(d, i)
    BY Built
  <2>2. i > 1 => d[i - 1].time < d[i].time /\ i # 1
    <3>1. DOMAIN d = 1 .. Len(d) /\ Len(d) \in Nat
      BY Built, Elements
    <3>2. i > 1 => i - 1 \in DOMAIN d /\ i - 1 < i
      BY <3>1
    <3> QED BY <3>1, <3>2 DEF BuildInv, DecisionsOK
  <2>3. i > 1 => Before(d, i) < d[i].time
    BY <2>2 DEF Before
  <2> QED BY <2>1, <2>3 DEF DecisionOK
<1>3. \A e \in InEpisode : \E i \in DOMAIN d : d[i].time = e.time /\ e.source \in ToSet(d[i].sources)
  BY Built
<1>4. /\ (build.reason = "duration_elapsed") = (\E e \in log : e.time >= build.start + Duration)
      /\ build.reason = "duration_elapsed" => build.end = build.start + Duration
  BY DEF BuildInv, EndsRightly
<1> HIDE DEF d
<1> QED BY <1>1, <1>2, <1>3, <1>4 DEF EpisodeCovers, Before, InEpisode, SourcesAt, d

-----------------------------------------------------------------------------
(* Windows *)

\* Multiplication keeps the order.
LEMMA TimesGrows ==
  ASSUME NEW a \in Int, NEW b \in Int, NEW c \in Int, a <= b, c >= 0
  PROVE  a * c <= b * c /\ a * c \in Int /\ b * c \in Int /\ (a + 1) * c = a * c + c
OBVIOUS

\* A configuration's sizes are positive.
LEMMA Sizes ==
  ASSUME NEW c \in Configs
  PROVE  /\ c.train \in Int /\ c.train > 0 /\ c.validation \in Int /\ c.validation > 0
         /\ c.test \in Int /\ c.test > 0 /\ c.step \in Int /\ c.step > 0
BY ConfigsAssumption

\* How often a step fits before the last window.
LEMMA WindowSteps ==
  ASSUME NEW n \in Nat, NEW c \in Configs
  PROVE  LET width == c.train + c.validation + c.test
         IN  /\ WindowCount(n, c) \in Nat
             /\ n < width => WindowCount(n, c) = 0
             /\ n >= width =>
                  /\ WindowCount(n, c) > 0
                  /\ (WindowCount(n, c) - 1) * c.step <= n - width
                  /\ n - width < (WindowCount(n, c) - 1) * c.step + c.step
<1> DEFINE width == c.train + c.validation + c.test
           q == (n - width) \div c.step
<1>1. width \in Int /\ c.step \in Int /\ c.step > 0
  BY Sizes
<1>2. WindowCount(n, c) = IF n < width THEN 0 ELSE q + 1
  BY DEF WindowCount
<1> HIDE DEF width
<1>3. q \in Int /\ q * c.step <= n - width /\ n - width < q * c.step + c.step
  BY <1>1, DivBounds
<1> HIDE DEF q
<1>4. ASSUME n >= width
      PROVE  q >= 0
  <2> SUFFICES ASSUME q + 1 <= 0 PROVE FALSE
    BY <1>3
  <2>1. (q + 1) * c.step <= 0 * c.step /\ (q + 1) * c.step = q * c.step + c.step
    BY <1>1, <1>3, TimesGrows
  <2>2. q * c.step \in Int /\ 0 * c.step = 0
    BY <1>1, <1>3, TimesGrows
  <2> QED BY <1>1, <1>3, <1>4, <2>1, <2>2
<1>5. CASE n < width
  BY <1>1, <1>2, <1>5 DEF width
<1>6. CASE n >= width
  <2>1. WindowCount(n, c) = q + 1 /\ q \in Nat
    BY <1>1, <1>2, <1>3, <1>4, <1>6
  <2>2. WindowCount(n, c) - 1 = q
    BY <2>1
  <2> QED BY <1>1, <1>3, <1>6, <2>1, <2>2 DEF width
<1> QED BY <1>1, <1>5, <1>6

\* The parts of a window lie behind each other, none empty, within the episodes.
LEMMA WindowFits ==
  ASSUME NEW n \in Nat, NEW c \in Configs, NEW k \in 1 .. WindowCount(n, c)
  PROVE  /\ Offset(k, n, c) \in Nat /\ TrainEnd(k, n, c) \in Nat
         /\ ValidationEnd(k, n, c) \in Nat /\ FoldEnd(k, n, c) \in Nat
         /\ Offset(k, n, c) < TrainEnd(k, n, c)
         /\ TrainEnd(k, n, c) < ValidationEnd(k, n, c)
         /\ ValidationEnd(k, n, c) < FoldEnd(k, n, c)
         /\ FoldEnd(k, n, c) <= n
<1> DEFINE width == c.train + c.validation + c.test
           w == WindowCount(n, c)
           offset == (k - 1) * c.step
<1>1. /\ c.train \in Int /\ c.train > 0 /\ c.validation \in Int /\ c.validation > 0
      /\ c.test \in Int /\ c.test > 0 /\ c.step \in Int /\ c.step > 0
  BY Sizes
<1>2. w \in Nat /\ (n < width => w = 0) /\ (n >= width => (w - 1) * c.step <= n - width)
  BY WindowSteps
<1>3. k - 1 \in Int /\ w - 1 \in Int /\ k - 1 <= w - 1 /\ 0 <= k - 1 /\ n >= width
  BY <1>1, <1>2
<1> HIDE DEF w
<1>4. offset <= (w - 1) * c.step /\ offset \in Int /\ (w - 1) * c.step \in Int
  BY <1>1, <1>3, TimesGrows
<1>5. 0 * c.step <= offset /\ 0 * c.step = 0
  BY <1>1, <1>3, TimesGrows
<1> DEFINE last == (w - 1) * c.step
<1>6. Offset(k, n, c) = offset
  BY DEF Offset
<1>7. last <= n - width /\ last \in Int
  BY <1>2, <1>3, <1>4
<1> HIDE DEF offset, last
<1>8. offset \in Nat /\ offset + width <= n
  BY <1>1, <1>4, <1>5, <1>7 DEF last
<1> QED BY <1>1, <1>6, <1>8 DEF TrainEnd, ValidationEnd, FoldEnd

\* More episodes have no fewer windows.
LEMMA WindowsGrow ==
  ASSUME NEW n \in Nat, NEW m \in Nat, n <= m, NEW c \in Configs
  PROVE  WindowCount(n, c) <= WindowCount(m, c)
<1> DEFINE width == c.train + c.validation + c.test
           v == WindowCount(n, c)
           w == WindowCount(m, c)
<1>1. width \in Int /\ c.step \in Int /\ c.step > 0
  BY Sizes
<1>2. /\ v \in Nat /\ (n < width => v = 0)
      /\ n >= width => (v - 1) * c.step <= n - width
  BY WindowSteps
<1>3. /\ w \in Nat
      /\ m >= width => m - width < (w - 1) * c.step + c.step
  BY WindowSteps
<1> HIDE DEF v, w
<1> SUFFICES ASSUME w < v PROVE FALSE
  BY <1>2, <1>3 DEF v, w
<1> HIDE DEF width
<1>4. n >= width /\ m >= width
  BY <1>1, <1>2, <1>3
<1>5. (w - 1) + 1 <= v - 1 /\ w - 1 <= v - 1 /\ w - 1 \in Int /\ v - 1 \in Int
  BY <1>2, <1>3
<1>6. ((w - 1) + 1) * c.step <= (v - 1) * c.step
  BY <1>1, <1>5, TimesGrows
<1>7. ((w - 1) + 1) * c.step = (w - 1) * c.step + c.step
      /\ (w - 1) * c.step \in Int /\ (v - 1) * c.step \in Int
  BY <1>1, <1>5, TimesGrows
<1> DEFINE a == (w - 1) * c.step
           b == (v - 1) * c.step
<1>8. a + c.step <= b /\ a \in Int /\ b \in Int /\ b <= n - width /\ m - width < a + c.step
  BY <1>2, <1>3, <1>4, <1>6, <1>7
<1> HIDE DEF a, b
<1> QED BY <1>1, <1>8

-----------------------------------------------------------------------------
(* Folds *)

\* Manifests that start at times of their own.
Sound(M) ==
  /\ IsFiniteSet(M)
  /\ \A m \in M : m.start \in Int
  /\ \A m, n \in M : m.start = n.start => m = n

\* They are told apart by their starts, whichever are taken.
LEMMA ManifestsOrdered ==
  ASSUME NEW M, Sound(M), NEW S \in SUBSET M
  PROVE  /\ Cardinality(S) \in Nat
         /\ Ordered(S) \in Seq(S) /\ Len(Ordered(S)) = Cardinality(S)
         /\ DOMAIN Ordered(S) = 1 .. Cardinality(S)
         /\ \A i \in 1 .. Cardinality(S) : Ordered(S)[i] \in S
         /\ \A m \in S : \E i \in 1 .. Cardinality(S) : Ordered(S)[i] = m
         /\ \A i, j \in 1 .. Cardinality(S) : i < j => Ordered(S)[i].start < Ordered(S)[j].start
         /\ ToSet(Ordered(S)) = S
<1> DEFINE key == [m \in S |-> m.start]
           s == SortBy(S, key)
           n == Cardinality(S)
<1>1. \A m \in S : key[m] = m.start
  OBVIOUS
<1>2. Ordered(S) = s
  BY DEF Ordered
<1> HIDE DEF key
<1>3. Sortable(S, key)
  BY <1>1, FS_Subset DEF Sortable, Sound
<1>4. /\ n \in Nat /\ s \in Seq(S) /\ Len(s) = n /\ DOMAIN s = 1 .. n
      /\ \A i \in 1 .. n : s[i] \in S
      /\ \A m \in S : \E i \in 1 .. n : s[i] = m
      /\ \A i, j \in 1 .. n : i < j => key[s[i]] < key[s[j]]
  BY <1>3, Sorted
<1> HIDE DEF s, n
<1>5. \A i, j \in 1 .. n : i < j => s[i].start < s[j].start
  BY <1>1, <1>4
<1>6. ToSet(s) = S
  BY <1>4 DEF ToSet
<1> QED BY <1>2, <1>4, <1>5, <1>6 DEF n

\* bisect_left: those before the insertion point start earlier, the others not.
LEMMA InsertionSplits ==
  ASSUME NEW M, Sound(M), NEW S \in SUBSET M, NEW m \in M
  PROVE  /\ Insertion(m, Ordered(S)) \in Nat
         /\ \A i \in 1 .. Cardinality(S) :
              i <= Insertion(m, Ordered(S)) <=> Ordered(S)[i].start < m.start
<1> DEFINE h == Ordered(S)
           n == Cardinality(S)
           D == {i \in DOMAIN h : h[i].start < m.start}
<1>1. /\ n \in Nat /\ DOMAIN h = 1 .. n /\ m.start \in Int
      /\ \A i \in 1 .. n : h[i].start \in Int
      /\ \A i, j \in 1 .. n : i < j => h[i].start < h[j].start
  BY ManifestsOrdered DEF Sound
<1>2. Insertion(m, h) = Cardinality(D)
  BY DEF Insertion
<1> HIDE DEF h, n
<1>3. IsFiniteSet(1 .. n) /\ D \subseteq 1 .. n
  BY <1>1, FS_Interval
<1>4. IsFiniteSet(D) /\ Cardinality(D) \in Nat
  BY <1>3, FS_Subset, FS_CardinalityType
<1>5. ASSUME NEW i \in 1 .. n, h[i].start < m.start
      PROVE  i <= Cardinality(D)
  <2>1. 1 .. i \subseteq D
    <3> SUFFICES ASSUME NEW j \in 1 .. i PROVE j \in D
      OBVIOUS
    <3>1. j \in 1 .. n /\ (j = i \/ j < i)
      BY <1>1
    <3>2. h[j].start <= h[i].start /\ h[j].start \in Int /\ h[i].start \in Int
      BY <1>1, <3>1
    <3> QED BY <1>1, <1>5, <3>1, <3>2
  <2>2. Cardinality(1 .. i) = i
    BY <1>1, FS_Interval
  <2> HIDE DEF D
  <2> QED BY <1>4, <2>1, <2>2, FS_Subset
<1>6. ASSUME NEW i \in 1 .. n, ~(h[i].start < m.start)
      PROVE  Cardinality(D) < i
  <2>1. D \subseteq 1 .. i - 1
    <3> SUFFICES ASSUME NEW j \in D PROVE j \in 1 .. i - 1
      OBVIOUS
    <3>1. j \in 1 .. n /\ h[j].start < m.start
      BY <1>1
    <3>2. ~(i <= j)
      <4> SUFFICES ASSUME i <= j PROVE FALSE
        OBVIOUS
      <4>1. h[i].start <= h[j].start /\ h[j].start \in Int /\ h[i].start \in Int
        BY <1>1, <3>1
      <4> QED BY <1>1, <1>6, <3>1, <4>1
    <3> QED BY <1>1, <3>1, <3>2
  <2>2. IsFiniteSet(1 .. i - 1) /\ Cardinality(1 .. i - 1) = i - 1
    BY <1>1, FS_Interval
  <2> HIDE DEF D
  <2>3. Cardinality(D) <= i - 1
    BY <2>1, <2>2, FS_Subset
  <2> QED BY <1>1, <1>4, <2>3
<1> HIDE DEF D
<1> QED BY <1>1, <1>2, <1>4, <1>5, <1>6 DEF h, n

\* What a part of a fold is made of.
Historical(M) == Ordered(Of("historical", M))

Taken(M, k, c, from, to, name) ==
  {Historical(M)[x] : x \in from + 1 .. to}
  \cup {m \in Of("synthetic", M) : AttachedTo(m, k, Historical(M), c) = name}

\* Where the parts of a window begin and end among the historical episodes.
From(i, k, n, c) ==
  IF i = 1 THEN Offset(k, n, c) ELSE IF i = 2 THEN TrainEnd(k, n, c) ELSE ValidationEnd(k, n, c)
To(i, k, n, c) ==
  IF i = 1 THEN TrainEnd(k, n, c) ELSE IF i = 2 THEN ValidationEnd(k, n, c) ELSE FoldEnd(k, n, c)

\* A manifest is of a part: one of its historical episodes, or between them.
Placed(m, M, from, to) ==
  /\ m \in M
  /\ \/ /\ m.provenance = "historical"
        /\ \E x \in from + 1 .. to : x \in DOMAIN Historical(M) /\ Historical(M)[x] = m
     \/ m.provenance = "synthetic" /\ Insertion(m, Historical(M)) \in from .. to

\* The folds, part by part.
LEMMA FoldParts ==
  ASSUME NEW M, NEW c
  PROVE  LET n == Len(Historical(M))
             F == Folds(M, c)
         IN  /\ F = [k \in 1 .. WindowCount(n, c) |-> F[k]]
             /\ \A k \in 1 .. WindowCount(n, c) :
                  /\ F[k] = [train |-> F[k].train, validation |-> F[k].validation,
                             test |-> F[k].test]
                  /\ F[k].train =
                       Ordered(Taken(M, k, c, Offset(k, n, c), TrainEnd(k, n, c), "train"))
                  /\ F[k].validation =
                       Ordered(Taken(M, k, c, TrainEnd(k, n, c), ValidationEnd(k, n, c),
                                     "validation"))
                  /\ F[k].test =
                       SubSeq(Historical(M), ValidationEnd(k, n, c) + 1, FoldEnd(k, n, c))
BY DEF Folds, Taken, Historical

\* A synthetic episode is attached between the episodes of its part.
LEMMA AttachedWhere ==
  ASSUME NEW m, NEW k, NEW h, NEW c
  PROVE  LET n == Len(h)
         IN  /\ AttachedTo(m, k, h, c) = "train" <=>
                  m.split = "train" /\ Insertion(m, h) \in Offset(k, n, c) .. TrainEnd(k, n, c)
             /\ AttachedTo(m, k, h, c) = "validation" <=>
                  /\ m.split = "validation"
                  /\ Insertion(m, h) \in TrainEnd(k, n, c) .. ValidationEnd(k, n, c)
BY DEF AttachedTo

\* The historical episodes of a set of manifests, in order.
LEMMA HistoricalOrdered ==
  ASSUME NEW M, Sound(M)
  PROVE  /\ Historical(M) \in Seq(Of("historical", M)) /\ Len(Historical(M)) \in Nat
         /\ DOMAIN Historical(M) = 1 .. Len(Historical(M))
         /\ \A x \in DOMAIN Historical(M) :
              /\ Historical(M)[x] \in M /\ Historical(M)[x].provenance = "historical"
              /\ Historical(M)[x].start \in Int
         /\ \A x, y \in DOMAIN Historical(M) :
              x < y => Historical(M)[x].start < Historical(M)[y].start
         /\ \A m \in M : /\ Insertion(m, Historical(M)) \in Nat
                         /\ \A x \in DOMAIN Historical(M) :
                              x <= Insertion(m, Historical(M)) <=> Historical(M)[x].start < m.start
<1> DEFINE S == Of("historical", M)
<1>1. S \in SUBSET M /\ \A m \in S : m.provenance = "historical"
  BY DEF Of
<1> HIDE DEF S
<1>2. /\ Ordered(S) \in Seq(S) /\ Len(Ordered(S)) \in Nat
      /\ DOMAIN Ordered(S) = 1 .. Len(Ordered(S)) /\ Len(Ordered(S)) = Cardinality(S)
      /\ \A x \in DOMAIN Ordered(S) : Ordered(S)[x] \in S
      /\ \A x, y \in DOMAIN Ordered(S) : x < y => Ordered(S)[x].start < Ordered(S)[y].start
  BY <1>1, ManifestsOrdered
<1>3. \A m \in M : /\ Insertion(m, Ordered(S)) \in Nat
                   /\ \A x \in DOMAIN Ordered(S) :
                        x <= Insertion(m, Ordered(S)) <=> Ordered(S)[x].start < m.start
  BY <1>1, <1>2, InsertionSplits
<1>4. Historical(M) = Ordered(S)
  BY DEF Historical, S
<1> QED BY <1>1, <1>2, <1>3, <1>4 DEF Sound, S

\* Each part of a fold has what its place among the historical episodes says.
LEMMA PartsPlaced ==
  ASSUME NEW M, Sound(M), NEW c \in Configs, NEW k \in DOMAIN Folds(M, c), NEW i \in 1 .. 3,
         NEW m \in ToSet(Folds(M, c)[k][Partitions[i]])
  PROVE  /\ k \in 1 .. WindowCount(Len(Historical(M)), c)
         /\ Placed(m, M, From(i, k, Len(Historical(M)), c), To(i, k, Len(Historical(M)), c))
         /\ i = 3 => m.provenance = "historical"
<1> DEFINE n == Len(Historical(M))
           h == Historical(M)
           F == Folds(M, c)
<1>1. /\ h \in Seq(Of("historical", M)) /\ n \in Nat /\ DOMAIN h = 1 .. n
      /\ \A x \in DOMAIN h : h[x] \in M /\ h[x].provenance = "historical"
  BY HistoricalOrdered
<1>2. /\ k \in 1 .. WindowCount(n, c)
      /\ F[k].train = Ordered(Taken(M, k, c, Offset(k, n, c), TrainEnd(k, n, c), "train"))
      /\ F[k].validation =
           Ordered(Taken(M, k, c, TrainEnd(k, n, c), ValidationEnd(k, n, c), "validation"))
      /\ F[k].test = SubSeq(h, ValidationEnd(k, n, c) + 1, FoldEnd(k, n, c))
  <2>1. F = [x \in 1 .. WindowCount(n, c) |-> F[x]]
    BY FoldParts
  <2> DEFINE w == WindowCount(n, c)
  <2>2. DOMAIN F = 1 .. w
    <3> HIDE DEF F, w
    <3> QED BY <2>1 DEF w
  <2>3. k \in 1 .. WindowCount(n, c)
    BY <2>2
  <2> QED BY <2>3, FoldParts
<1>3. /\ Offset(k, n, c) \in Nat /\ TrainEnd(k, n, c) \in Nat
      /\ ValidationEnd(k, n, c) \in Nat /\ FoldEnd(k, n, c) \in Nat
      /\ TrainEnd(k, n, c) <= n /\ ValidationEnd(k, n, c) <= n /\ FoldEnd(k, n, c) <= n
  BY <1>1, <1>2, WindowFits
<1>4. ASSUME NEW from \in Nat, NEW to \in Nat, to <= n, NEW name,
             NEW e \in ToSet(Ordered(Taken(M, k, c, from, to, name))),
             \A f : AttachedTo(f, k, h, c) = name => Insertion(f, h) \in from .. to
      PROVE  Placed(e, M, from, to)
  <2> DEFINE T == Taken(M, k, c, from, to, name)
  <2>1. T \in SUBSET M
    BY <1>1, <1>4 DEF Taken, Of
  <2>2. e \in T
    <3> HIDE DEF T
    <3> QED BY <2>1, <1>4, ManifestsOrdered DEF T
  <2> QED BY <1>1, <1>4, <2>1, <2>2 DEF Taken, Of, Placed
<1>5. CASE i = 1
  <2>1. Partitions[i] = "train"
    BY <1>5 DEF Partitions
  <2>2. m \in ToSet(Ordered(Taken(M, k, c, Offset(k, n, c), TrainEnd(k, n, c), "train")))
    BY <1>2, <2>1
  <2> HIDE DEF n, h, F
  <2>3. Placed(m, M, Offset(k, n, c), TrainEnd(k, n, c))
    BY <1>3, <1>4, <2>2, AttachedWhere DEF n, h
  <2> QED BY <1>2, <1>5, <2>3 DEF From, To, n
<1>6. CASE i = 2
  <2>1. Partitions[i] = "validation"
    BY <1>6 DEF Partitions
  <2>2. m \in ToSet(Ordered(Taken(M, k, c, TrainEnd(k, n, c), ValidationEnd(k, n, c),
                                  "validation")))
    BY <1>2, <2>1
  <2> HIDE DEF n, h, F
  <2>3. Placed(m, M, TrainEnd(k, n, c), ValidationEnd(k, n, c))
    BY <1>3, <1>4, <2>2, AttachedWhere DEF n, h
  <2> QED BY <1>2, <1>6, <2>3 DEF From, To, n
<1>7. CASE i = 3
  <2>1. Partitions[i] = "test"
    BY <1>7 DEF Partitions
  <2> DEFINE from == ValidationEnd(k, n, c)
             to == FoldEnd(k, n, c)
             s == SubSeq(h, from + 1, to)
  <2>2. m \in ToSet(s)
    BY <1>2, <2>1
  <2>3. from \in Nat /\ to \in Nat /\ to <= n
    BY <1>3
  <2> HIDE DEF from, to
  <2>4. \A y \in DOMAIN s : from + y \in from + 1 .. to /\ from + y \in DOMAIN h
                            /\ s[y] = h[from + y]
    BY <1>1, <2>3
  <2>5. PICK y \in DOMAIN s : s[y] = m
    BY <2>2 DEF ToSet
  <2> HIDE DEF s
  <2>6. /\ m \in M /\ m.provenance = "historical"
        /\ \E x \in from + 1 .. to : x \in DOMAIN h /\ h[x] = m
    BY <1>1, <2>4, <2>5
  <2>7. Placed(m, M, from, to)
    BY <2>6 DEF Placed
  <2> QED BY <1>2, <1>7, <2>6, <2>7 DEF From, To, from, to
<1> QED BY <1>5, <1>6, <1>7

\* Of two parts behind each other, a historical episode of one and any episode
\* of the other are in the order of the parts.
LEMMA PlacedInOrder ==
  ASSUME NEW M, Sound(M), NEW p \in Int, NEW q \in Int, NEW r \in Int, NEW s \in Int, q <= r,
         NEW a, NEW b, a # b, Placed(a, M, p, q), Placed(b, M, r, s),
         a.provenance = "historical" \/ b.provenance = "historical"
  PROVE  a.start < b.start
<1> DEFINE h == Historical(M)
<1>1. /\ a \in M /\ b \in M /\ a.start \in Int /\ b.start \in Int /\ a.start # b.start
  BY DEF Placed, Sound
<1>2. /\ DOMAIN h = 1 .. Len(h) /\ Len(h) \in Nat
      /\ \A x, y \in DOMAIN h : x < y => h[x].start < h[y].start
      /\ \A m \in M : /\ Insertion(m, h) \in Nat
                      /\ \A x \in DOMAIN h : x <= Insertion(m, h) <=> h[x].start < m.start
  BY HistoricalOrdered
<1>3. CASE a.provenance = "historical"
  <2>1. PICK x \in p + 1 .. q : x \in DOMAIN h /\ h[x] = a
    BY <1>3 DEF Placed
  <2>2. CASE b.provenance = "historical"
    <3>1. PICK y \in r + 1 .. s : y \in DOMAIN h /\ h[y] = b
      BY <2>2 DEF Placed
    <3>2. x < y
      BY <2>1, <3>1
    <3> QED BY <1>2, <2>1, <3>1, <3>2
  <2>3. CASE b.provenance = "synthetic" /\ Insertion(b, h) \in r .. s
    <3>1. x <= Insertion(b, h)
      BY <1>1, <1>2, <2>1, <2>3
    <3> QED BY <1>1, <1>2, <2>1, <3>1
  <2> QED BY <2>2, <2>3 DEF Placed
<1>4. CASE a.provenance = "synthetic" /\ Insertion(a, h) \in p .. q
  <2>1. b.provenance = "historical"
    BY <1>4
  <2>2. PICK y \in r + 1 .. s : y \in DOMAIN h /\ h[y] = b
    BY <2>1 DEF Placed
  <2>3. ~(y <= Insertion(a, h))
    BY <1>1, <1>2, <1>4, <2>2
  <2>4. ~(b.start < a.start)
    BY <1>1, <1>2, <2>2, <2>3
  <2> QED BY <1>1, <2>4
<1> QED BY <1>3, <1>4 DEF Placed

\* Only neighbours are compared, but that is enough.
LEMMA OverlapFree ==
  ASSUME NEW M, Sound(M), NonOverlapping(Ordered(M)),
         NEW a \in M, NEW b \in M, a.start < b.start, a.end \in Int
  PROVE  a.end <= b.start
<1> DEFINE s == Ordered(M)
           n == Cardinality(M)
<1>1. /\ n \in Nat /\ Len(s) = n
      /\ \A i \in 1 .. n : s[i] \in M /\ s[i].start \in Int
      /\ \A m \in M : \E i \in 1 .. n : s[i] = m
      /\ \A i, j \in 1 .. n : i < j => s[i].start < s[j].start
  BY ManifestsOrdered DEF Sound
<1>2. \A i \in 1 .. n - 1 : s[i + 1].start >= s[i].end
  BY <1>1 DEF NonOverlapping
<1> HIDE DEF s, n
<1>3. PICK i \in 1 .. n : s[i] = a
  BY <1>1
<1>4. PICK j \in 1 .. n : s[j] = b
  BY <1>1
<1>5. i < j
  <2> SUFFICES ASSUME j <= i PROVE FALSE
    BY <1>1
  <2>1. s[j].start <= s[i].start
    BY <1>1
  <2>2. s[i].start \in Int /\ s[j].start \in Int
    BY <1>1
  <2> QED BY <1>3, <1>4, <2>1, <2>2
<1>6. i \in 1 .. n - 1 /\ i + 1 \in 1 .. n /\ (i + 1 = j \/ i + 1 < j)
  BY <1>1, <1>5
<1>7. s[i + 1].start >= a.end /\ s[i + 1].start \in Int
  BY <1>1, <1>2, <1>3, <1>6
<1>8. s[i + 1].start <= b.start /\ b.start \in Int
  BY <1>1, <1>4, <1>6
<1> QED BY <1>7, <1>8

\* What the manifest of an episode says of it.
ManifestOK(m) ==
  /\ m.start \in Int /\ m.end \in Int /\ m.start < m.end
  /\ \A t \in m.decisions :
       /\ t \in Int /\ m.start <= t /\ t <= m.end
       /\ t = m.start => \E e \in log : e.time = t
  /\ \A e \in log : m.start <= e.time /\ e.time <= m.end => e.source \in m.sources

\* b, in partition j, has nothing of a, in a partition before it.
Apart(a, b, j) ==
  /\ a.sources \cap b.sources = {} /\ a.lineage # b.lineage
  /\ \/ {a.provenance, b.provenance} = {"synthetic"}
     \/ \A t \in a.decisions, u \in b.decisions : t < u
  /\ a.end <= b.start \/ b.end <= a.start
  /\ j = 3 => b.provenance = "historical"

\* The folds of manifests that are accepted do not leak.
LEMMA FoldsDoNotLeak ==
  ASSUME log \in Logs, NEW M, Sound(M), \A m \in M : ManifestOK(m),
         NEW c \in Configs, Accepts(M, c),
         NEW k \in DOMAIN Folds(M, c), NEW i \in 1 .. 3, NEW j \in 1 .. 3, i < j,
         NEW a \in ToSet(Folds(M, c)[k][Partitions[i]]),
         NEW b \in ToSet(Folds(M, c)[k][Partitions[j]])
  PROVE  Apart(a, b, j)
<1> DEFINE n == Len(Historical(M))
<1>0. DOMAIN Partitions = 1 .. 3
  BY DEF Partitions
<1>1. /\ k \in 1 .. WindowCount(n, c)
      /\ Placed(a, M, From(i, k, n, c), To(i, k, n, c))
      /\ Placed(b, M, From(j, k, n, c), To(j, k, n, c))
      /\ j = 3 => b.provenance = "historical"
  BY PartsPlaced
<1>2. n \in Nat
  BY HistoricalOrdered
<1> HIDE DEF n
<1>3. /\ From(i, k, n, c) \in Int /\ To(i, k, n, c) \in Int
      /\ From(j, k, n, c) \in Int /\ To(j, k, n, c) \in Int
      /\ To(i, k, n, c) <= From(j, k, n, c)
  <2>1. /\ Offset(k, n, c) \in Nat /\ TrainEnd(k, n, c) \in Nat
        /\ ValidationEnd(k, n, c) \in Nat /\ FoldEnd(k, n, c) \in Nat
        /\ TrainEnd(k, n, c) < ValidationEnd(k, n, c)
    BY <1>1, <1>2, WindowFits
  <2> QED BY <2>1 DEF From, To
<1>4. a \in M /\ b \in M
  BY <1>1 DEF Placed
<1>5. a.lineage # b.lineage /\ a # b
  <2>1. LineageIsolated(Folds(M, c))
    BY DEF Accepts
  <2>2. i \in DOMAIN Partitions /\ j \in DOMAIN Partitions /\ i # j
    BY <1>0
  <2>3. a.lineage # b.lineage
    BY <2>1, <2>2 DEF LineageIsolated
  <2> QED BY <2>3
<1>6. a.sources \cap b.sources = {}
  BY <1>4, <1>5 DEF Accepts, UniqueSources
<1>7. /\ a.start \in Int /\ a.end \in Int /\ b.start \in Int /\ b.end \in Int
      /\ a.start # b.start
  BY <1>4, <1>5 DEF ManifestOK, Sound
<1>8. /\ a.start < b.start => a.end <= b.start
      /\ b.start < a.start => b.end <= a.start
  BY <1>4, <1>7, OverlapFree DEF Accepts
<1>9. ASSUME a.provenance = "historical" \/ b.provenance = "historical",
             NEW t \in a.decisions, NEW u \in b.decisions
      PROVE  t < u
  <2>1. a.start < b.start
    BY <1>1, <1>3, <1>5, <1>9, PlacedInOrder
  <2>2. a.end <= b.start
    BY <1>8, <2>1
  <2>3. t \in Int /\ u \in Int /\ t <= a.end /\ a.start <= t /\ b.start <= u /\ u <= b.end
    BY <1>4 DEF ManifestOK
  <2>4. t # u
    <3> SUFFICES ASSUME t = u PROVE FALSE
      OBVIOUS
    <3>1. t = a.end /\ u = b.start
      BY <1>7, <2>2, <2>3
    <3>2. PICK e \in log : e.time = b.start
      BY <1>4, <3>1 DEF ManifestOK
    <3>3. a.start <= e.time /\ e.time <= a.end /\ b.start <= e.time /\ e.time <= b.end
      BY <1>7, <2>3, <3>1, <3>2
    <3>4. e.source \in a.sources /\ e.source \in b.sources
      BY <1>4, <3>3 DEF ManifestOK
    <3> QED BY <1>6, <3>4
  <2> QED BY <1>7, <2>2, <2>3, <2>4
<1>10. a.provenance \in {"historical", "synthetic"} /\ b.provenance \in {"historical", "synthetic"}
  BY <1>1 DEF Placed
<1> QED BY <1>1, <1>5, <1>6, <1>7, <1>8, <1>9, <1>10 DEF Apart

-----------------------------------------------------------------------------
(* More episodes *)

\* A function on the first numbers is a prefix of one that agrees with it.
LEMMA AgreeingPrefix ==
  ASSUME NEW v \in Nat, NEW w \in Nat, v <= w, NEW F, NEW G,
         F = [k \in 1 .. v |-> F[k]], G = [k \in 1 .. w |-> G[k]],
         \A k \in 1 .. v : F[k] = G[k]
  PROVE  IsPrefix(F, G)
<1> DEFINE S == {F[k] : k \in 1 .. v} \cup {G[k] : k \in 1 .. w}
<1>1. F \in [1 .. v -> S] /\ G \in [1 .. w -> S]
  OBVIOUS
<1> HIDE DEF S
<1>2. F \in Seq(S) /\ G \in Seq(S) /\ Len(F) = v /\ Len(G) = w
  BY <1>1
<1>3. SubSeq(F, 1, v) = SubSeq(G, 1, v)
  <2>1. \A x \in 1 .. v : F[x] = G[x] /\ x \in DOMAIN F /\ x \in DOMAIN G
    BY <1>1
  <2> QED BY <1>2, <2>1
<1> QED BY <1>2, <1>3 DEF IsPrefix

\* Later episodes are sorted behind, and leave insertion points where they were.
LEMMA HistoryGrows ==
  ASSUME NEW M, NEW N, Sound(N), M \subseteq N, \A m \in M, o \in N \ M : m.start < o.start
  PROVE  /\ Sound(M) /\ Len(Historical(M)) <= Len(Historical(N))
         /\ \A x \in 1 .. Len(Historical(M)) : Historical(N)[x] = Historical(M)[x]
         /\ \A m \in M : Insertion(m, Historical(N)) = Insertion(m, Historical(M))
         /\ \A o \in N \ M : Len(Historical(M)) <= Insertion(o, Historical(N))
<1> DEFINE S == Of("historical", M)
           T == Of("historical", N)
           key == [m \in S |-> m.start]
           more == [m \in T |-> m.start]
           g == Historical(M)
           h == Historical(N)
           n == Len(g)
<1>1. Sound(M)
  BY FS_Subset DEF Sound
<1>2. /\ S \subseteq T /\ S = T \cap M
      /\ \A m \in S : key[m] = m.start
      /\ \A m \in T : more[m] = m.start
  BY DEF Of
<1>3. Sortable(T, more)
  <2>1. IsFiniteSet(T)
    BY FS_Subset DEF Sound, Of
  <2> QED BY <1>2, <2>1 DEF Sortable, Sound, Of
<1>4. \A x \in S, y \in T \ S : more[x] < more[y]
  BY <1>2 DEF Of
<1> HIDE DEF key, more, S, T
<1>5. /\ Cardinality(S) <= Cardinality(T)
      /\ \A i \in 1 .. Cardinality(S) : SortBy(T, more)[i] = SortBy(S, key)[i]
  <2>1. \A x \in S : key[x] = more[x]
    BY <1>2
  <2>2. S \subseteq T
    BY <1>2
  <2>3. ASSUME NEW i \in 1 .. Cardinality(S)
        PROVE  SortBy(T, more)[i] = SortBy(S, key)[i]
    BY <1>3, <1>4, <2>1, <2>2, SortedGrows
  <2>4. Cardinality(S) <= Cardinality(T)
    BY <1>3, <1>4, <2>1, <2>2, SortedGrows
  <2> QED BY <2>3, <2>4
<1>6. g = SortBy(S, key) /\ h = SortBy(T, more)
  BY DEF Historical, Ordered, S, T, key, more
<1>7. n = Cardinality(S) /\ Len(h) = Cardinality(T) /\ \A m \in S : \E i \in 1 .. n : g[i] = m
  <2>1. S \in SUBSET M /\ T \in SUBSET N
    BY DEF S, T, Of
  <2>2. g = Ordered(S) /\ h = Ordered(T)
    BY DEF Historical, S, T
  <2> HIDE DEF g, h
  <2>3. /\ Len(g) = Cardinality(S) /\ Len(h) = Cardinality(T)
        /\ \A m \in S : \E i \in 1 .. Cardinality(S) : g[i] = m
    BY <1>1, <2>1, <2>2, ManifestsOrdered
  <2> QED BY <2>3 DEF n
<1>8. /\ n \in Nat /\ Len(h) \in Nat /\ DOMAIN g = 1 .. n /\ DOMAIN h = 1 .. Len(h)
      /\ \A x \in DOMAIN g : g[x] \in M
      /\ \A x \in DOMAIN h : h[x] \in N /\ h[x].provenance = "historical" /\ h[x].start \in Int
      /\ \A x, y \in DOMAIN h : x < y => h[x].start < h[y].start
      /\ \A m \in N : /\ Insertion(m, h) \in Nat
                      /\ \A x \in DOMAIN h : x <= Insertion(m, h) <=> h[x].start < m.start
  BY <1>1, HistoricalOrdered
<1>9. n <= Len(h) /\ \A x \in 1 .. n : h[x] = g[x] /\ x \in DOMAIN h
  BY <1>5, <1>6, <1>7, <1>8
<1> HIDE DEF g, h, n
<1>10. ASSUME NEW x \in DOMAIN h, x \notin 1 .. n
       PROVE  h[x] \in N \ M
  <2> SUFFICES ASSUME h[x] \in M PROVE FALSE
    BY <1>8
  <2>1. h[x] \in S
    BY <1>8 DEF S, Of
  <2>2. PICK i \in 1 .. n : g[i] = h[x]
    BY <1>7, <2>1
  <2>3. i \in DOMAIN h /\ i < x /\ h[i] = h[x]
    BY <1>8, <1>9, <1>10, <2>2
  <2> QED BY <1>8, <2>3
<1>11. ASSUME NEW m \in M
       PROVE  Insertion(m, h) = Insertion(m, g)
  <2>1. \A x \in DOMAIN h : h[x].start < m.start => x \in 1 .. n
    <3> SUFFICES ASSUME NEW x \in DOMAIN h, h[x].start < m.start, x \notin 1 .. n PROVE FALSE
      OBVIOUS
    <3>1. m.start < h[x].start /\ m.start \in Int
      BY <1>10 DEF Sound
    <3> QED BY <1>8, <3>1
  <2>2. {x \in DOMAIN h : h[x].start < m.start} = {x \in DOMAIN g : g[x].start < m.start}
    BY <1>8, <1>9, <2>1
  <2> QED BY <2>2 DEF Insertion
<1>12. ASSUME NEW o \in N \ M
       PROVE  n <= Insertion(o, h)
  <2>1. CASE n = 0
    BY <1>8, <2>1
  <2>2. CASE n # 0
    <3>1. n \in DOMAIN g /\ n \in DOMAIN h /\ h[n] = g[n] /\ g[n] \in M
      BY <1>8, <1>9, <2>2
    <3>2. h[n].start < o.start
      BY <3>1
    <3> QED BY <1>8, <3>1, <3>2
  <2> QED BY <2>1, <2>2
<1> QED BY <1>1, <1>9, <1>11, <1>12 DEF g, h, n

\* The folds there were are the first of the folds there are.
LEMMA FoldsGrow ==
  ASSUME NEW M, NEW N, Sound(N), M \subseteq N, \A m \in M, o \in N \ M : m.start < o.start,
         NEW c \in Configs
  PROVE  IsPrefix(Folds(M, c), Folds(N, c))
<1> DEFINE g == Historical(M)
           h == Historical(N)
           n == Len(g)
           F == Folds(M, c)
           G == Folds(N, c)
           v == WindowCount(n, c)
           w == WindowCount(Len(h), c)
<1>1. /\ Sound(M) /\ n <= Len(h) /\ \A x \in 1 .. n : h[x] = g[x]
      /\ \A m \in M : Insertion(m, h) = Insertion(m, g)
      /\ \A o \in N \ M : n <= Insertion(o, h)
  BY HistoryGrows
<1>2. /\ n \in Nat /\ Len(h) \in Nat /\ DOMAIN g = 1 .. n /\ DOMAIN h = 1 .. Len(h)
      /\ \A o \in N : Insertion(o, h) \in Nat
      /\ g \in Seq(Of("historical", M)) /\ h \in Seq(Of("historical", N))
  BY <1>1, HistoricalOrdered
<1>3. v \in Nat /\ w \in Nat /\ v <= w
  <2>1. WindowCount(n, c) \in Nat /\ WindowCount(Len(h), c) \in Nat
    BY <1>2, WindowSteps
  <2>2. WindowCount(n, c) <= WindowCount(Len(h), c)
    BY <1>1, <1>2, WindowsGrow
  <2> QED BY <2>1, <2>2
<1>4. F = [k \in 1 .. v |-> F[k]] /\ G = [k \in 1 .. w |-> G[k]]
  BY FoldParts
<1>5. ASSUME NEW k \in 1 .. v
      PROVE  F[k] = G[k]
  <2>1. /\ k \in 1 .. w
        /\ Offset(k, Len(h), c) = Offset(k, n, c) /\ TrainEnd(k, Len(h), c) = TrainEnd(k, n, c)
        /\ ValidationEnd(k, Len(h), c) = ValidationEnd(k, n, c)
        /\ FoldEnd(k, Len(h), c) = FoldEnd(k, n, c)
    BY <1>3 DEF Offset, TrainEnd, ValidationEnd, FoldEnd
  <2>2. /\ Offset(k, n, c) \in Nat /\ TrainEnd(k, n, c) \in Nat
        /\ ValidationEnd(k, n, c) \in Nat /\ FoldEnd(k, n, c) \in Nat
        /\ TrainEnd(k, n, c) < ValidationEnd(k, n, c)
        /\ ValidationEnd(k, n, c) < FoldEnd(k, n, c) /\ FoldEnd(k, n, c) <= n
    BY <1>2, WindowFits
  <2>3. ASSUME NEW m, NEW name \in {"train", "validation"}
        PROVE  m \in Of("synthetic", M) /\ AttachedTo(m, k, g, c) = name
               <=> m \in Of("synthetic", N) /\ AttachedTo(m, k, h, c) = name
    <3>1. CASE m \in M
      <4>1. Insertion(m, h) = Insertion(m, g)
        BY <1>1, <3>1
      <4>2. AttachedTo(m, k, g, c) = name <=> AttachedTo(m, k, h, c) = name
        BY <2>1, <4>1, AttachedWhere
      <4> QED BY <3>1, <4>2 DEF Of
    <3>2. CASE m \in N \ M
      <4>1. Insertion(m, h) \in Nat /\ Insertion(m, h) > ValidationEnd(k, n, c)
        BY <1>1, <1>2, <2>2, <3>2
      <4>2. /\ ~(Insertion(m, h) \in Offset(k, Len(h), c) .. TrainEnd(k, Len(h), c))
            /\ ~(Insertion(m, h) \in TrainEnd(k, Len(h), c) .. ValidationEnd(k, Len(h), c))
        BY <2>1, <2>2, <4>1
      <4>3. AttachedTo(m, k, h, c) # name
        BY <4>2, AttachedWhere
      <4> QED BY <3>2, <4>3 DEF Of
    <3> QED BY <3>1, <3>2 DEF Of
  <2>4. ASSUME NEW from \in Nat, NEW to \in Nat, to <= n, NEW name \in {"train", "validation"}
        PROVE  Taken(M, k, c, from, to, name) = Taken(N, k, c, from, to, name)
    <3>1. \A x \in from + 1 .. to : x \in 1 .. n
      BY <1>2, <2>4
    <3>2. {g[x] : x \in from + 1 .. to} = {h[x] : x \in from + 1 .. to}
      BY <1>1, <3>1
    <3>3. {m \in Of("synthetic", M) : AttachedTo(m, k, g, c) = name}
          = {m \in Of("synthetic", N) : AttachedTo(m, k, h, c) = name}
      BY <2>3
    <3> QED BY <3>2, <3>3 DEF Taken
  <2>5. /\ Taken(M, k, c, Offset(k, n, c), TrainEnd(k, n, c), "train")
           = Taken(N, k, c, Offset(k, n, c), TrainEnd(k, n, c), "train")
        /\ Taken(M, k, c, TrainEnd(k, n, c), ValidationEnd(k, n, c), "validation")
           = Taken(N, k, c, TrainEnd(k, n, c), ValidationEnd(k, n, c), "validation")
    <3>1. TrainEnd(k, n, c) <= n /\ ValidationEnd(k, n, c) <= n
      BY <1>2, <2>2
    <3> QED BY <2>2, <2>4, <3>1
  <2>6. SubSeq(g, ValidationEnd(k, n, c) + 1, FoldEnd(k, n, c))
        = SubSeq(h, ValidationEnd(k, n, c) + 1, FoldEnd(k, n, c))
    <3> DEFINE from == ValidationEnd(k, n, c)
               to == FoldEnd(k, n, c)
    <3>1. from \in Nat /\ to \in Nat /\ to <= n
      BY <2>2
    <3> HIDE DEF from, to, g, h
    <3> SUFFICES SubSeq(g, from + 1, to) = SubSeq(h, from + 1, to)
      BY DEF from, to, g, h
    <3>2. \A x \in from + 1 .. to : g[x] = h[x] /\ x \in DOMAIN g /\ x \in DOMAIN h
      BY <1>1, <1>2, <3>1
    <3> QED BY <1>2, <3>1, <3>2
  <2>7. /\ F[k] = [train |-> F[k].train, validation |-> F[k].validation, test |-> F[k].test]
        /\ F[k].train = Ordered(Taken(M, k, c, Offset(k, n, c), TrainEnd(k, n, c), "train"))
        /\ F[k].validation = Ordered(Taken(M, k, c, TrainEnd(k, n, c), ValidationEnd(k, n, c),
                                           "validation"))
        /\ F[k].test = SubSeq(g, ValidationEnd(k, n, c) + 1, FoldEnd(k, n, c))
    BY FoldParts
  <2>8. /\ G[k] = [train |-> G[k].train, validation |-> G[k].validation, test |-> G[k].test]
        /\ G[k].train = Ordered(Taken(N, k, c, Offset(k, n, c), TrainEnd(k, n, c), "train"))
        /\ G[k].validation = Ordered(Taken(N, k, c, TrainEnd(k, n, c), ValidationEnd(k, n, c),
                                           "validation"))
        /\ G[k].test = SubSeq(h, ValidationEnd(k, n, c) + 1, FoldEnd(k, n, c))
    BY <2>1, FoldParts
  <2> HIDE DEF F, G, g, h, n
  <2> QED BY <2>5, <2>6, <2>7, <2>8
<1>6. IsPrefix(F, G)
  <2> HIDE DEF F, G, v, w
  <2> QED BY <1>3, <1>4, <1>5, AgreeingPrefix
<1> QED BY <1>6

-----------------------------------------------------------------------------
(* The experiment *)

ManifestsInv ==
  /\ Sound(manifests)
  /\ \A m \in manifests : ManifestOK(m)
  /\ build.at # "idle" => \A m \in manifests : m.start < build.start

\* The folds are those of the manifests there were at the last split; all others
\* are of later episodes.
FoldsInv ==
  \E M \in SUBSET manifests :
    /\ \A m \in M, o \in manifests \ M : m.start < o.start
    /\ folds = <<>> \/ (Accepts(M, config) /\ folds = Folds(M, config))

ExperimentInv == config \in Configs /\ BuildInv /\ ManifestsInv /\ FoldsInv

\* The log is read, never written.
LEMMA LogStays ==
  ASSUME [Next]_vars
  PROVE  log' = log /\ config' = config
BY DEF Next, BuildEpisode, StartBuild, BuildStep, BuilderNext, TickBefore, DecideOnEvents,
       TickAfter, Close, Declare, NoManifest, Split, vars, builderVars

\* The manifest of a finished episode says of it what it says.
LEMMA ManifestDeclared ==
  ASSUME ExperimentInv, NEW split, NEW lineage, NEW provenance,
         Declare(split, lineage, provenance)
  PROVE  ManifestsInv' /\ FoldsInv'
<1>1. PICK new :
        /\ new = [start |-> build.start, end |-> build.end, split |-> split,
                  lineage |-> lineage, provenance |-> provenance, sources |-> Sources,
                  decisions |-> {build.decisions[i].time : i \in DOMAIN build.decisions}]
        /\ build.at = "built" /\ build.start < build.end
        /\ manifests' = manifests \cup {new} /\ build' = NoBuild
        /\ log' = log /\ config' = config /\ folds' = folds
  BY DEF Declare
<1>2. /\ new.start = build.start /\ new.end = build.end /\ new.sources = Sources
      /\ new.decisions = {build.decisions[i].time : i \in DOMAIN build.decisions}
  BY <1>1
<1>3. /\ build.start \in Int /\ build.end \in Int /\ log \in Logs
      /\ \A i \in DOMAIN build.decisions : DecisionOK(build.decisions, i)
      /\ DOMAIN build.decisions = 1 .. Len(build.decisions) /\ Len(build.decisions) \in Nat
      /\ \A i \in DOMAIN build.decisions : build.decisions[i].time \in Int
  BY <1>1, Previous, Built, Elements DEF ExperimentInv, BuildInv, BuildTyped
<1>4. ASSUME NEW t \in new.decisions
      PROVE  /\ t \in Int /\ build.start <= t /\ t <= build.end
             /\ t = build.start => \E e \in log : e.time = t
  <2>1. PICK i \in DOMAIN build.decisions : build.decisions[i].time = t
    BY <1>2, <1>4
  <2>2. DecisionOK(build.decisions, i) /\ t \in Int
    BY <1>3, <2>1
  <2>3. ASSUME t = build.start
        PROVE  \E e \in log : e.time = t
    <3>1. Before(build.decisions, i) >= build.start /\ Before(build.decisions, i) \in Int
      <4>1. CASE i = 1
        BY <1>3, <4>1 DEF Before
      <4>2. CASE i # 1
        <5>1. i - 1 \in DOMAIN build.decisions
          BY <1>3, <4>2
        <5> QED BY <1>3, <4>2, <5>1 DEF Before, DecisionOK
      <4> QED BY <4>1, <4>2
    <3>2. t # Before(build.decisions, i) + Interval /\ t # build.end
      BY <1>1, <1>3, <2>3, <3>1, BuilderNumbers
    <3>3. SourcesAt(t) # <<>>
      BY <2>1, <2>2, <3>2 DEF DecisionOK
    <3> QED BY <1>3, <2>2, <3>3, EventsSorted
  <2> QED BY <2>1, <2>2, <2>3 DEF DecisionOK
<1>5. ASSUME NEW e \in log, build.start <= e.time, e.time <= build.end
      PROVE  e.source \in new.sources
  <2>1. e \in InEpisode
    BY <1>5 DEF InEpisode
  <2>2. PICK i \in DOMAIN build.decisions : e.source \in ToSet(build.decisions[i].sources)
    BY <1>1, <2>1, Built DEF ExperimentInv
  <2> QED BY <1>2, <2>2 DEF Sources
<1>6. ManifestOK(new)'
  BY <1>1, <1>2, <1>3, <1>4, <1>5 DEF ManifestOK
<1>7. \A m \in manifests : ManifestOK(m)' /\ m.start < new.start /\ m.start \in Int
  BY <1>1, <1>2 DEF ExperimentInv, ManifestsInv, ManifestOK
<1>8. ManifestsInv'
  <2>1. Sound(manifests)'
    <3>1. IsFiniteSet(manifests')
      BY <1>1, FS_AddElement DEF ExperimentInv, ManifestsInv, Sound
    <3>2. \A m \in manifests' : m.start \in Int
      BY <1>1, <1>2, <1>3, <1>7
    <3>3. \A m, o \in manifests' : m.start = o.start => m = o
      <4>1. \A m, o \in manifests : m.start = o.start => m = o
        BY DEF ExperimentInv, ManifestsInv, Sound
      <4>2. \A m \in manifests : m.start # new.start
        BY <1>2, <1>3, <1>7
      <4> QED BY <1>1, <4>1, <4>2
    <3> QED BY <3>1, <3>2, <3>3 DEF Sound
  <2>2. \A m \in manifests' : ManifestOK(m)'
    BY <1>1, <1>6, <1>7
  <2> QED BY <1>1, <2>1, <2>2 DEF ManifestsInv, NoBuild
<1>9. FoldsInv'
  <2>1. PICK M \in SUBSET manifests :
          /\ \A m \in M, o \in manifests \ M : m.start < o.start
          /\ folds = <<>> \/ (Accepts(M, config) /\ folds = Folds(M, config))
    BY DEF ExperimentInv, FoldsInv
  <2>2. M \in SUBSET manifests'
    BY <1>1
  <2>3. \A m \in M, o \in manifests' \ M : m.start < o.start
    BY <1>1, <1>7, <2>1
  <2>4. folds' = <<>> \/ (Accepts(M, config') /\ folds' = Folds(M, config'))
    BY <1>1, <2>1
  <2> QED BY <2>2, <2>3, <2>4 DEF FoldsInv
<1> QED BY <1>8, <1>9

\* Where the manifests stay, only the build's start can disturb them.
LEMMA ManifestsStay ==
  ASSUME ManifestsInv, log' = log, manifests' = manifests,
         build'.at # "idle" => \A m \in manifests : m.start < build'.start
  PROVE  ManifestsInv'
<1>1. \A m \in manifests : ManifestOK(m)'
  BY DEF ManifestsInv, ManifestOK
<1> QED BY <1>1 DEF ManifestsInv, Sound

LEMMA FoldsStay ==
  ASSUME FoldsInv, config' = config, manifests' = manifests, folds' = folds
  PROVE  FoldsInv'
<1>1. PICK M \in SUBSET manifests :
        /\ \A m \in M, o \in manifests \ M : m.start < o.start
        /\ folds = <<>> \/ (Accepts(M, config) /\ folds = Folds(M, config))
  BY DEF FoldsInv
<1> QED BY <1>1 DEF FoldsInv

\* The loop keeps the start.
LEMMA LoopKeepsStart ==
  ASSUME BuildInv, BuilderNext
  PROVE  build'.start = build.start /\ build.at # "idle"
<1>1. build \in [at : {"idle", "loop", "built"}, start : Int, end : Int,
                 reason : {"none", "duration_elapsed", "replay_exhausted"},
                 groups : Seq(Int), decisions : Seq(Decisions)]
  BY DEF BuildInv, BuildTyped
<1> QED BY <1>1 DEF BuilderNext, TickBefore, DecideOnEvents, TickAfter, Close, Decide

\* Nothing happens to the episode.
LEMMA BuildStays ==
  ASSUME BuildInv, log' = log, build' = build
  PROVE  BuildInv'
<1>1. BuildTyped' /\ EndsRightly' /\ GroupsOK' /\ InEpisode' = InEpisode
  BY DEF BuildInv, BuildTyped, EndsRightly, GroupsOK, InEpisode
<1>2. NoneForgotten' /\ ClosedAtEnd'
  BY <1>1 DEF BuildInv, NoneForgotten, ClosedAtEnd
<1>3. DecisionsOK'
  <2>1. \A t : SourcesAt(t)' = SourcesAt(t)
    BY DEF SourcesAt, EventsAt
  <2>2. \A i : Before(build.decisions, i)' = Before(build.decisions, i)
    BY DEF Before
  <2>3. ASSUME NEW i
        PROVE  DecisionOK(build.decisions, i)' <=> DecisionOK(build.decisions, i)
    BY <2>1, <2>2 DEF DecisionOK
  <2> QED BY <2>3 DEF BuildInv, DecisionsOK
<1> QED BY <1>1, <1>2, <1>3 DEF BuildInv

LEMMA ExperimentInitially == Init => ExperimentInv
<1> SUFFICES ASSUME Init PROVE ExperimentInv
  OBVIOUS
<1>1. BuildInv
  <2>1. <<>> \in Seq(Int) /\ <<>> \in Seq(Decisions)
    OBVIOUS
  <2> QED BY <2>1 DEF Init, BuilderInit, NoBuild, BuildInv, BuildTyped, EndsRightly, DecisionsOK,
                      GroupsOK, NoneForgotten, ClosedAtEnd
<1>2. ManifestsInv
  BY FS_EmptySet DEF Init, BuilderInit, NoBuild, ManifestsInv, Sound
<1>3. FoldsInv
  BY DEF Init, FoldsInv
<1> QED BY <1>1, <1>2, <1>3 DEF Init, ExperimentInv

LEMMA ExperimentStep == ExperimentInv /\ [Next]_vars => ExperimentInv'
<1> SUFFICES ASSUME ExperimentInv, [Next]_vars PROVE ExperimentInv'
  OBVIOUS
<1>0. /\ log' = log /\ config' = config /\ config' \in Configs /\ log' \in Logs
      /\ BuildInv /\ ManifestsInv /\ FoldsInv
  BY LogStays DEF ExperimentInv, BuildInv, BuildTyped
<1>1. ASSUME NEW start \in Starts, BuildEpisode(start)
      PROVE  ExperimentInv'
  <2>1. /\ start \in Int /\ StartBuild(start, SplitEnd)
        /\ \A m \in manifests : m.start < start
        /\ manifests' = manifests /\ folds' = folds /\ build'.start = start
    BY <1>1, StartsAssumption DEF BuildEpisode, StartBuild
  <2>2. BuildInv'
    BY <1>0, <2>1, BuildStarts
  <2> QED BY <1>0, <2>1, <2>2, ManifestsStay, FoldsStay DEF ExperimentInv
<1>2. CASE BuildStep
  <2>1. BuilderNext /\ manifests' = manifests /\ folds' = folds
    BY <1>2 DEF BuildStep
  <2>2. BuildInv' /\ build'.start = build.start /\ build.at # "idle"
    BY <1>0, <2>1, LoopSteps, LoopKeepsStart
  <2>3. ManifestsInv'
    BY <1>0, <2>1, <2>2, ManifestsStay DEF ManifestsInv
  <2> QED BY <1>0, <2>1, <2>2, <2>3, FoldsStay DEF ExperimentInv
<1>3. ASSUME NEW split, NEW lineage, NEW provenance, Declare(split, lineage, provenance)
      PROVE  ExperimentInv'
  <2>1. BuildInv'
    BY <1>0, <1>3, NotBuilding DEF Declare
  <2> QED BY <1>0, <1>3, <2>1, ManifestDeclared DEF ExperimentInv
<1>4. CASE NoManifest
  <2>1. build' = NoBuild /\ manifests' = manifests /\ folds' = folds /\ build'.at = "idle"
    BY <1>4 DEF NoManifest, NoBuild
  <2> QED BY <1>0, <2>1, NotBuilding, ManifestsStay, FoldsStay DEF ExperimentInv
<1>5. CASE Split
  <2>1. /\ build' = build /\ manifests' = manifests
        /\ folds' = IF Accepts(manifests, config) THEN Folds(manifests, config) ELSE <<>>
    BY <1>5 DEF Split, builderVars
  <2>2. BuildInv'
    BY <1>0, <2>1, BuildStays
  <2>3. FoldsInv'
    <3>1. manifests' \in SUBSET manifests'
      OBVIOUS
    <3>2. \A m \in manifests', o \in manifests' \ manifests' : m.start < o.start
      OBVIOUS
    <3>3. folds' = <<>> \/ (Accepts(manifests', config') /\ folds' = Folds(manifests', config'))
      BY <1>0, <2>1
    <3> QED BY <3>1, <3>2, <3>3 DEF FoldsInv
  <2>4. ManifestsInv'
    BY <1>0, <2>1, ManifestsStay DEF ManifestsInv
  <2> QED BY <1>0, <2>2, <2>3, <2>4 DEF ExperimentInv
<1>6. CASE UNCHANGED vars
  <2>1. build' = build /\ manifests' = manifests /\ folds' = folds
    BY <1>6 DEF vars, builderVars
  <2>2. BuildInv'
    BY <1>0, <2>1, BuildStays
  <2> QED BY <1>0, <2>1, <2>2, ManifestsStay, FoldsStay DEF ExperimentInv, ManifestsInv
<1> QED BY <1>1, <1>2, <1>3, <1>4, <1>5, <1>6 DEF Next

LEMMA ExperimentAlways == Spec => []ExperimentInv
BY ExperimentInitially, ExperimentStep, PTL DEF Spec

\* An episode takes every event of its time into a decision of its own, no two
\* decisions are more than the maintenance interval apart, and it ends where the
\* log or its duration does (EpisodeBuilder._reduce_with_ticks).
THEOREM EpisodesCoverTheirLogs == Spec => []EpisodeCovers
BY ExperimentAlways, CoversBuilt, PTL DEF ExperimentInv

\* Of two partitions of a fold, no source, no lineage and no instant is in both,
\* and what is tested comes after what was trained on
\* (WalkForwardSplitter.split on what EpisodeBuilder.build built).
THEOREM TestsAreUnseen == Spec => []NothingLeaks
<1>1. ExperimentInv => NothingLeaks
  <2> SUFFICES ASSUME ExperimentInv PROVE NothingLeaks
    OBVIOUS
  <2>1. PICK M \in SUBSET manifests :
          folds = <<>> \/ (Accepts(M, config) /\ folds = Folds(M, config))
    BY DEF ExperimentInv, FoldsInv
  <2>2. /\ log \in Logs /\ config \in Configs /\ Sound(M)
        /\ \A m \in M : ManifestOK(m) /\ DOMAIN Partitions = 1 .. 3
    BY <2>1, FS_Subset DEF ExperimentInv, BuildInv, BuildTyped, ManifestsInv, Sound, Partitions
  <2>3. CASE folds = <<>>
    BY <2>3, NoPlaces DEF NothingLeaks
  <2>4. CASE Accepts(M, config) /\ folds = Folds(M, config)
    <3>0. DOMAIN Partitions = 1 .. 3
      BY DEF Partitions
    <3> SUFFICES ASSUME NEW k \in DOMAIN folds, NEW i \in 1 .. 3, NEW j \in 1 .. 3, i < j,
                        NEW a \in ToSet(folds[k][Partitions[i]]),
                        NEW b \in ToSet(folds[k][Partitions[j]])
                 PROVE  Apart(a, b, j)
      BY <3>0 DEF NothingLeaks, Apart
    <3>1. PICK c \in Configs : c = config
      BY <2>2
    <3>2. /\ Accepts(M, c) /\ k \in DOMAIN Folds(M, c)
          /\ a \in ToSet(Folds(M, c)[k][Partitions[i]])
          /\ b \in ToSet(Folds(M, c)[k][Partitions[j]])
      BY <2>4, <3>1
    <3>3. log \in Logs /\ Sound(M) /\ \A m \in M : ManifestOK(m)
      BY <2>2
    <3> QED BY <3>2, <3>3, FoldsDoNotLeak
  <2> QED BY <2>1, <2>3, <2>4
<1> QED BY <1>1, ExperimentAlways, PTL

\* Later episodes add folds and change none
\* (WalkForwardSplitter._window, _attach_augmentation).
THEOREM FoldsStand == Spec => FoldsOnlyGrow
<1>1. ExperimentInv /\ [Next]_vars => [folds' # <<>> => IsPrefix(folds, folds')]_vars
  <2> SUFFICES ASSUME ExperimentInv, [Next]_vars, folds' # <<>>
               PROVE  IsPrefix(folds, folds')
    OBVIOUS
  <2>1. PICK M \in SUBSET manifests :
          /\ \A m \in M, o \in manifests \ M : m.start < o.start
          /\ folds = <<>> \/ (Accepts(M, config) /\ folds = Folds(M, config))
    BY DEF ExperimentInv, FoldsInv
  <2>2. Sound(manifests) /\ Sound(M) /\ config \in Configs
    BY <2>1, FS_Subset DEF ExperimentInv, ManifestsInv, Sound
  <2>3. ASSUME NEW N, Sound(N)
        PROVE  /\ IsPrefix(<<>>, Folds(N, config))
               /\ IsPrefix(Folds(N, config), Folds(N, config))
    <3> DEFINE F == Folds(N, config)
               w == WindowCount(Len(Historical(N)), config)
    <3>1. w \in Nat /\ F = [k \in 1 .. w |-> F[k]]
      BY <2>2, <2>3, HistoricalOrdered, WindowSteps, FoldParts
    <3> HIDE DEF F, w
    <3>2. IsPrefix(F, F)
      BY <3>1, AgreeingPrefix
    <3>3. IsPrefix(<<>>, F)
      <4>1. F \in Seq({F[k] : k \in 1 .. w}) /\ Len(<<>>) = 0 /\ Len(F) >= 0
        BY <3>1
      <4>2. SubSeq(F, 1, 0) = <<>> /\ SubSeq(<<>>, 1, 0) = <<>>
        BY <4>1
      <4> QED BY <4>1, <4>2 DEF IsPrefix
    <3> QED BY <3>2, <3>3 DEF F
  <2>4. CASE folds' = folds
    BY <2>1, <2>2, <2>3, <2>4
  <2>5. CASE folds' = Folds(manifests, config)
    <3>1. CASE folds = <<>>
      BY <2>2, <2>3, <2>5, <3>1
    <3>2. CASE folds = Folds(M, config)
      BY <2>1, <2>2, <2>5, <3>2, FoldsGrow
    <3> QED BY <2>1, <3>1, <3>2
  <2>6. folds' = folds \/ folds' = Folds(manifests, config)
    BY DEF Next, BuildEpisode, BuildStep, Declare, NoManifest, Split, vars
  <2> QED BY <2>4, <2>5, <2>6
<1> QED BY <1>1, ExperimentAlways, PTL DEF Spec, FoldsOnlyGrow

=============================================================================
