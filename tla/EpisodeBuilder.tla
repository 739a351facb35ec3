--------------------------- MODULE EpisodeBuilder ---------------------------
(***************************************************************************)
(* EpisodeBuilder.build: a replay log cut into one research episode, a     *)
(* sequence of decision points.  There is one at every time the log has    *)
(* events, one when the maintenance interval has passed without, and one   *)
(* at the end.  Time is counted in ticks, of which a second has several.   *)
(***************************************************************************)
EXTENDS Integers, Sequences, FiniteSets, SequencesExt, Sorting

CONSTANTS
  Logs,                 \* the replay logs: sets of [source, time, order]
  Duration,             \* duration of an episode, in ticks
  MaintenanceSeconds,   \* maintenance_seconds
  TicksPerSecond        \* how finely the log's times are told apart

ASSUME EpisodeConfigAssumption ==
  Duration \in Nat \ {0} /\ MaintenanceSeconds \in Nat \ {0} /\ TicksPerSecond \in Nat \ {0}

\* stable_order orders the events of one time.
ASSUME LogAssumption ==
  \A log \in Logs :
    /\ IsFiniteSet(log)
    /\ \A e \in log : e.time \in Int /\ e.order \in Int
    /\ \A e, f \in log :
         /\ e.source = f.source => e = f
         /\ e.time = f.time /\ e.order = f.order => e = f

VARIABLES
  log,     \* the events given to the builder
  build    \* the episode being built

builderVars == <<log, build>>

Interval == MaintenanceSeconds * TicksPerSecond

NoBuild == [at |-> "idle", start |-> 0, end |-> 0, reason |-> "none",
            groups |-> <<>>, decisions |-> <<>>]

BuilderInit == log \in Logs /\ build = NoBuild

\* The last time there is an event of the episode or after it.
ReplayEnd(start) ==
  Max({start} \cup {t \in {e.time : e \in log} : t >= start})

\* An episode that would cross the end of its split is refused.
StartBuild(start, splitEnd) ==
  LET horizon == start + Duration
      replayEnd == ReplayEnd(start)
      end == IF replayEnd >= horizon THEN horizon ELSE replayEnd
      times == {e.time : e \in log} \cap start .. end
  IN  /\ build.at = "idle"
      /\ horizon <= splitEnd
      /\ build' = [at |-> "loop", start |-> start, end |-> end,
                   reason |-> IF replayEnd >= horizon THEN "duration_elapsed"
                                                      ELSE "replay_exhausted",
                   groups |-> SortBy(times, [t \in times |-> t]), decisions |-> <<>>]
      /\ UNCHANGED log

PreviousTime ==
  IF build.decisions = <<>> THEN build.start ELSE Last(build.decisions).time
NextTick == PreviousTime + Interval

EventsAt(time) ==
  LET events == {e \in log : e.time = time}
  IN  SortBy(events, [e \in events |-> e.order])

\* elapsed_seconds drops the part of a second.
Decision(time, events) ==
  [time |-> time,
   elapsed |-> (time - PreviousTime) \div TicksPerSecond,
   sources |-> [i \in DOMAIN events |-> events[i].source]]

Decide(time, events) ==
  build' = [build EXCEPT !.decisions = Append(@, Decision(time, events)),
                         !.groups = IF events = <<>> THEN @ ELSE Tail(@)]

\* Mutant of TickBefore: the tick that falls on an event has its own decision.
TickUpTo ==
  /\ build.at = "loop" /\ build.groups # <<>> /\ NextTick <= Head(build.groups)
  /\ Decide(NextTick, <<>>)
  /\ UNCHANGED log

TickBefore ==
  /\ build.at = "loop" /\ build.groups # <<>> /\ NextTick < Head(build.groups)
  /\ Decide(NextTick, <<>>)
  /\ UNCHANGED log

DecideOnEvents ==
  /\ build.at = "loop" /\ build.groups # <<>> /\ NextTick >= Head(build.groups)
  /\ Decide(Head(build.groups), EventsAt(Head(build.groups)))
  /\ UNCHANGED log

TickAfter ==
  /\ build.at = "loop" /\ build.groups = <<>> /\ NextTick <= build.end
  /\ Decide(NextTick, <<>>)
  /\ UNCHANGED log

\* An episode ends with a decision at its end, the only one if it is empty.
Close ==
  /\ build.at = "loop" /\ build.groups = <<>> /\ NextTick > build.end
  /\ build' = [build EXCEPT
                 !.at = "built",
                 !.decisions = IF @ = <<>> \/ PreviousTime < build.end
                               THEN Append(@, Decision(build.end, <<>>)) ELSE @]
  /\ UNCHANGED log

BuilderNext == TickBefore \/ DecideOnEvents \/ TickAfter \/ Close

-----------------------------------------------------------------------------
(* What an episode is, whatever the loop did                               *)

\* An episode that is built takes every event of its time into one decision, at
\* its own time and in stable order, and has no decision more than it needs: the
\* others are the end, or follow the one before by the maintenance interval.
\* No two are as much as an interval and more apart, it ends where the log or
\* its duration does, and its clock is behind by less than a second each time
\* (EpisodeBuilder._reduce_with_ticks).
EpisodeCovers ==
  build.at = "built" =>
    LET d == build.decisions
        Before(i) == IF i = 1 THEN build.start ELSE d[i - 1].time
        inside == {e \in log : build.start <= e.time /\ e.time <= build.end}
    IN  /\ d # <<>> /\ Last(d).time = build.end
        /\ \A i \in DOMAIN d :
             /\ i > 1 => Before(i) < d[i].time
             /\ d[i].time - Before(i) <= Interval
             /\ d[i].sources = <<>> => d[i].time \in {Before(i) + Interval, build.end}
             /\ 0 <= d[i].time - Before(i) - d[i].elapsed * TicksPerSecond
             /\ d[i].time - Before(i) - d[i].elapsed * TicksPerSecond < TicksPerSecond
        /\ \A e \in inside : \E i \in DOMAIN d : d[i].time = e.time /\ e.source \in ToSet(d[i].sources)
        /\ \A i \in DOMAIN d : d[i].sources =
             [k \in DOMAIN EventsAt(d[i].time) |-> EventsAt(d[i].time)[k].source]
        /\ (build.reason = "duration_elapsed") = (\E e \in log : e.time >= build.start + Duration)
        /\ build.reason = "duration_elapsed" => build.end = build.start + Duration
=============================================================================
