---------------------------- MODULE StreamMonitor ----------------------------
(***************************************************************************)
(* StreamHealthMonitor watching one stream name.  The monitor loop and the *)
(* initial check of add_stream run on one asyncio loop: a check asks the   *)
(* relay for the last observation and awaits the answer, updates the       *)
(* status object it took before the await, and awaits the callback.        *)
(* Meanwhile the application may remove the stream and add it again.       *)
(***************************************************************************)
EXTENDS Naturals, Sequences

CONSTANTS
  Cadence,       \* cadence_seconds of the stream
  Interval,      \* check_interval
  QueryTime,     \* how long a query may take in a prompt run
  Readable,      \* the client can read the observations: the stream is free
  None,          \* Python's None
  MaxTime,       \* bound: the last moment
  MaxAdds,       \* bound: status objects
  MaxFaults      \* bound: queries that raise or find no relay

ASSUME MonitorAssumption ==
  /\ Cadence \in Nat \ {0} /\ Interval \in Nat \ {0} /\ QueryTime \in Nat
  /\ Readable \in BOOLEAN
  /\ None \notin Nat
  /\ MaxTime \in Nat /\ MaxAdds \in Nat /\ MaxFaults \in Nat

VARIABLES
  now,           \* the clock
  newest,        \* timestamp of the newest observation on the relay
  running,       \* the monitor is started
  stream,        \* _streams: the status object of the stream, 0: not monitored
  health,        \* the health of the status objects, in order of creation
  check,         \* the running check of the loop and the one of add_stream
  wake,          \* when the loop's sleep ends
  watched,       \* history: since when `running` and `stream` are what they are
  alarm,         \* history: objects whose last callback but for `dead` was `stale`
  faults,        \* queries that failed so far
  late           \* history: a cadence has passed without an observation

vars == <<now, newest, running, stream, health, check, wake,
          watched, alarm, faults, late>>

Callers == {"loop", "adder"}

Healths == {"active", "stale", "dead", "unknown"}

(* of: the local `status`; answer: last_time; from: when the query began. *)
Frames == [pc : {"idle", "asked", "told", "alerting"}, of : Nat,
           answer : Nat \union {None}, from : Nat]

Resting == [pc |-> "idle", of |-> 0, answer |-> None, from |-> 0]

(* The frames that can hold one of n status objects. *)
FramesFor(n) == {f \in Frames : f.of \in 0 .. n /\ (f.pc = "idle" <=> f.of = 0)}

TypeOK ==
  /\ now \in 0 .. MaxTime
  /\ newest \in 0 .. now \union {None}
  /\ running \in BOOLEAN
  /\ health \in Seq(Healths)
  /\ stream \in 0 .. Len(health)
  /\ check \in [Callers -> FramesFor(Len(health))]
  /\ wake \in 0 .. MaxTime + Interval
  /\ watched \in 0 .. now
  /\ alarm \subseteq DOMAIN health
  /\ faults \in 0 .. MaxFaults
  /\ late \in BOOLEAN

Init ==
  /\ now = 0
  /\ newest = None
  /\ running = FALSE
  /\ stream = 0
  /\ health = <<>>
  /\ check = [c \in Callers |-> Resting]
  /\ wake = 0
  /\ watched = 0
  /\ alarm = {}
  /\ faults = 0
  /\ late = FALSE

-----------------------------------------------------------------------------
(* The stream and the relay. *)

Observe ==
  /\ newest' = now
  /\ UNCHANGED <<now, running, stream, health, check, wake, watched, alarm,
                 faults, late>>

(* The newest observation is less than a cadence old. *)
Punctual == newest # None /\ now - newest < Cadence

Tick ==
  /\ now < MaxTime
  /\ now' = now + 1
  /\ late' = IF Punctual THEN late ELSE TRUE
  /\ UNCHANGED <<newest, running, stream, health, check, wake, watched, alarm,
                 faults>>

(* get_last_observation_time: the newest event, if the client can read it. *)
RelayAnswers(c) ==
  /\ check[c].pc = "asked"
  /\ check' = [check EXCEPT ![c].pc = "told",
                            ![c].answer = IF Readable THEN newest ELSE None]
  /\ UNCHANGED <<now, newest, running, stream, health, wake, watched, alarm, faults, late>>

(* No relay is reachable: fetch_events comes back without an event. *)
NobodyAnswers(c) ==
  /\ check[c].pc = "asked"
  /\ faults < MaxFaults
  /\ faults' = faults + 1
  /\ check' = [check EXCEPT ![c].pc = "told"]
  /\ UNCHANGED <<now, newest, running, stream, health, wake, watched, alarm, late>>

-----------------------------------------------------------------------------
(* The monitor. *)

Start ==
  /\ ~running
  /\ running' = TRUE
  /\ wake' = now
  /\ watched' = now
  /\ UNCHANGED <<now, newest, stream, health, check, alarm, faults, late>>

(* The loop's task is cancelled wherever it awaits. *)
Stop ==
  /\ running
  /\ running' = FALSE
  /\ check' = [check EXCEPT !["loop"] = Resting]
  /\ watched' = now
  /\ UNCHANGED <<now, newest, stream, health, wake, alarm, faults, late>>

Asking(o) == [pc |-> "asked", of |-> o, answer |-> None, from |-> now]

AddStream ==
  /\ check["adder"].pc = "idle"
  /\ stream = 0
  /\ Len(health) < MaxAdds
  /\ health' = Append(health, "unknown")
  /\ stream' = Len(health) + 1
  /\ check' = [check EXCEPT !["adder"] = Asking(Len(health) + 1)]
  /\ watched' = now
  /\ UNCHANGED <<now, newest, running, wake, alarm, faults, late>>

RemoveStream ==
  /\ stream # 0
  /\ stream' = 0
  /\ watched' = now
  /\ UNCHANGED <<now, newest, running, health, check, wake, alarm, faults, late>>

(* The loop wakes and checks every stream of a copy of the keys. *)
Sweep ==
  /\ running
  /\ check["loop"].pc = "idle"
  /\ now >= wake
  /\ IF stream # 0
     THEN /\ check' = [check EXCEPT !["loop"] = Asking(stream)]
          /\ UNCHANGED wake
     ELSE /\ wake' = now + Interval
          /\ UNCHANGED check
  /\ UNCHANGED <<now, newest, running, stream, health, watched, alarm, faults, late>>

(* The check of c is over; the loop goes to sleep. *)
Finish(c) ==
  /\ check' = [check EXCEPT ![c] = Resting]
  /\ wake' = IF c = "loop" THEN now + Interval ELSE wake

(* Mutant of Health: no tolerance for a late observation. *)
HealthStrict(t) ==
  IF t = None THEN "unknown"
  ELSE IF now - t <= Cadence THEN "active"
  ELSE IF now - t < 5 * Cadence THEN "stale"
  ELSE "dead"

(* Mutant of Health: a dead stream is forgotten. *)
HealthForgets(t) ==
  IF t = None THEN "unknown"
  ELSE IF now - t < 2 * Cadence THEN "active"
  ELSE IF now - t < 5 * Cadence THEN "stale"
  ELSE "unknown"

Health(t) ==
  IF t = None THEN "unknown"
  ELSE IF now - t < 2 * Cadence THEN "active"
  ELSE IF now - t < 5 * Cadence THEN "stale"
  ELSE "dead"

(* Mutant of Alerted: only a stale stream revives. *)
AlertedUnlessDead(old, new) ==
  \/ old = "active" /\ new = "stale"
  \/ old = "stale" /\ new \in {"active", "dead"}

(* The callbacks of _handle_health_change. *)
Alerted(old, new) ==
  \/ old = "active" /\ new = "stale"
  \/ old \in {"stale", "dead"} /\ new = "active"
  \/ old = "stale" /\ new = "dead"

Updated(o, new) == [health EXCEPT ![o] = new]

(* The answer is there: the object of the check is updated, monitored or   *)
(* not, and a change may fire a callback.                                  *)
Update(c) ==
  LET o == check[c].of
      old == health[o]
      new == Health(check[c].answer) IN
  /\ check[c].pc = "told"
  /\ health' = Updated(o, new)
  /\ \/ /\ Alerted(old, new)
        /\ alarm' = CASE new = "stale" -> alarm \union {o}
                      [] new = "active" -> alarm \ {o}
                      [] OTHER -> alarm
        /\ check' = [check EXCEPT ![c].pc = "alerting"]
        /\ UNCHANGED wake
     \/ /\ ~Alerted(old, new)
        /\ Finish(c)
        /\ UNCHANGED alarm
  /\ UNCHANGED <<now, newest, running, stream, watched, faults, late>>

(* The query raises: printed, and the status stays as it was. *)
QueryRaises(c) ==
  /\ check[c].pc = "asked"
  /\ faults < MaxFaults
  /\ faults' = faults + 1
  /\ Finish(c)
  /\ UNCHANGED <<now, newest, running, stream, health, watched, alarm, late>>

CallbackEnds(c) ==
  /\ check[c].pc = "alerting"
  /\ Finish(c)
  /\ UNCHANGED <<now, newest, running, stream, health, watched, alarm, faults, late>>

-----------------------------------------------------------------------------
Work ==
  \/ Observe \/ Start \/ Stop \/ AddStream \/ RemoveStream \/ Sweep
  \/ \E c \in Callers :
       \/ RelayAnswers(c) \/ NobodyAnswers(c)
       \/ Update(c) \/ QueryRaises(c) \/ CallbackEnds(c)

Next == Work \/ Tick

Spec == Init /\ [][Next]_vars

(***************************************************************************)
(* Time that passes only when nothing is overdue: a query takes at most    *)
(* QueryTime, the loop wakes when its sleep is over, and callbacks return  *)
(* at once.                                                                *)
(***************************************************************************)
Prompt ==
  /\ running => (check["loop"].pc # "idle" \/ now < wake)
  /\ \A c \in Callers :
       /\ check[c].pc # "alerting"
       /\ check[c].pc # "idle" => now - check[c].from < QueryTime

PromptSpec == Init /\ [][Work \/ (Prompt /\ Tick)]_vars

-----------------------------------------------------------------------------
(* Properties. *)

Unaccused == \A o \in DOMAIN health : health[o] \in {"unknown", "active"}

(* A stream that keeps its cadence is never called stale or dead, however  *)
(* the checks of the loop and of add_stream overlap with each other and    *)
(* with the publisher, as long as a query takes less than one cadence.     *)
PunctualNeverStale == ~late => Unaccused

(* What makes PunctualNeverStale inductive: the newest observation is at   *)
(* most one cadence old, a check takes at most QueryTime, and the answer a  *)
(* check holds was at most one cadence old when the query began.           *)
CheckInTime(f) ==
  f.pc # "idle" =>
    /\ f.from <= now
    /\ now <= f.from + QueryTime
    /\ f.answer # None => f.from <= f.answer + Cadence

InTime ==
  /\ newest = None => now = 0
  /\ newest # None => now <= newest + Cadence
  /\ \A c \in Callers : CheckInTime(check[c])
  /\ Unaccused

PunctualInv == ~late => InTime

(* The time the loop needs to see a change: the query under way, which may *)
(* have missed it, the sleep, and the next query.                          *)
Notice == Interval + 2 * QueryTime

(* o has been monitored by the running monitor for the time of a check. *)
Watching(o) == running /\ stream = o /\ now - watched > Notice

(* A stream that has gone silent is noticed by the next check after twice  *)
(* its cadence: no overlapping check hides it with an older answer.  A     *)
(* query that fails may.                                                   *)
SilenceNoticed ==
  \A o \in DOMAIN health :
    (faults = 0 /\ Watching(o) /\ newest # None /\ now - newest >= 2 * Cadence + Notice)
      => health[o] \in {"stale", "dead"}

(* A stream with an observation on the relay is not unknown for longer     *)
(* than a check takes ("UNKNOWN: no observations ever seen").              *)
SeenIsKnown ==
  \A o \in DOMAIN health :
    (faults = 0 /\ Watching(o) /\ newest # None /\ now - newest > Notice)
      => health[o] # "unknown"

(* The health follows the relay within a check, whatever checks overlap.   *)
HealthCatchesUp == SilenceNoticed /\ SeenIsKnown

(* The check of c fires a callback with this health. *)
Fires(c, to) ==
  /\ check[c].pc = "told"
  /\ check'[c].pc = "alerting"
  /\ health'[check[c].of] = to

(* The callbacks of one object alternate: it is not reported stale twice   *)
(* without being reported active in between.                               *)
AlertsAlternate ==
  [][faults = 0 => \A c \in Callers : Fires(c, "stale") => check[c].of \notin alarm]_vars
=============================================================================
