------------------------- MODULE StreamMonitorProofs -------------------------
(***************************************************************************)
(* Proofs about StreamHealthMonitor: its types, and that a punctual stream *)
(* is never called stale when a query takes less than one cadence.         *)
(***************************************************************************)
EXTENDS StreamMonitor, TLAPS

USE MonitorAssumption

(* The numbers the other variables are compared with. *)
LEMMA Numbers ==
  ASSUME TypeOK
  PROVE  now \in Nat /\ wake \in Nat /\ Len(health) \in Nat /\ stream \in Nat
BY DEF TypeOK

(* A new object leaves the frames valid. *)
LEMMA FramesGrow ==
  ASSUME NEW n \in Nat
  PROVE  FramesFor(n) \subseteq FramesFor(n + 1)
BY DEF FramesFor

(* A check begins with the frame of a status object ... *)
LEMMA AskingFrame ==
  ASSUME NEW n \in Nat, NEW o \in 1 .. n, now \in Nat
  PROVE  Asking(o) \in FramesFor(n)
BY DEF Asking, Frames, FramesFor

(* ... and leaves an empty one. *)
LEMMA RestingFrame == ASSUME NEW n \in Nat PROVE Resting \in FramesFor(n)
BY DEF Resting, Frames, FramesFor

(* A check that goes on keeps its object. *)
LEMMA FrameGoesOn ==
  ASSUME NEW n \in Nat, NEW f \in FramesFor(n), f.pc # "idle",
         NEW p \in {"told", "alerting"}, NEW a \in Nat \union {None}
  PROVE  /\ [f EXCEPT !.pc = p] \in FramesFor(n)
         /\ [f EXCEPT !.pc = p, !.answer = a] \in FramesFor(n)
BY DEF Frames, FramesFor

(* The check that ends leaves everything typed. *)
LEMMA FinishTyped ==
  ASSUME TypeOK, NEW c \in Callers, Finish(c)
  PROVE  /\ check' \in [Callers -> FramesFor(Len(health))]
         /\ wake' \in 0 .. MaxTime + Interval
<1>1. Resting \in FramesFor(Len(health))
  BY RestingFrame, Numbers
<1> QED
  BY <1>1 DEF Finish, TypeOK

(* The health computed from an answer is a health. *)
LEMMA HealthTyped == ASSUME NEW t PROVE Health(t) \in Healths
BY DEF Health, Healths

(* Storing a health changes neither the type nor the number of objects. *)
LEMMA UpdatedTyped ==
  ASSUME TypeOK, NEW o \in DOMAIN health, NEW h \in Healths
  PROVE  /\ Updated(o, h) \in Seq(Healths)
         /\ Len(Updated(o, h)) = Len(health)
         /\ DOMAIN Updated(o, h) = DOMAIN health
         /\ \A i \in DOMAIN health :
              Updated(o, h)[i] = IF i = o THEN h ELSE health[i]
BY DEF Updated, TypeOK

(* Every action keeps the types: no check works on an object that was      *)
(* never created, whatever is removed and added while it waits.            *)
LEMMA TypeStep == TypeOK /\ [Next]_vars => TypeOK'
<1> SUFFICES ASSUME TypeOK, [Next]_vars PROVE TypeOK'
  OBVIOUS
<1>0. /\ now \in Nat /\ wake \in Nat /\ Len(health) \in Nat /\ stream \in Nat
      /\ "loop" \in Callers /\ "adder" \in Callers
  BY Numbers DEF Callers
<1>1. CASE Observe
  BY <1>0, <1>1 DEF Observe, TypeOK
<1>2. CASE Start
  BY <1>0, <1>2 DEF Start, TypeOK
<1>3. CASE Stop
  <2>1. Resting \in FramesFor(Len(health))
    BY <1>0, RestingFrame
  <2>2. /\ check' = [check EXCEPT !["loop"] = Resting]
        /\ watched' = now
        /\ UNCHANGED <<now, newest, stream, health, wake, alarm, faults>>
    BY <1>3 DEF Stop
  <2>3. running' \in BOOLEAN /\ late' \in BOOLEAN
    BY <1>3, Zenon DEF Stop, TypeOK
  <2>4. check' \in [Callers -> FramesFor(Len(health))]
    BY <1>0, <2>1, <2>2 DEF TypeOK
  <2> QED
    BY <1>0, <2>2, <2>3, <2>4 DEF TypeOK
<1>4. CASE AddStream
  <2> DEFINE n == Len(health) + 1
  <2>1. /\ health' = Append(health, "unknown")
        /\ health \in Seq(Healths) /\ "unknown" \in Healths
    BY <1>4 DEF AddStream, TypeOK, Healths
  <2>2. /\ health' \in Seq(Healths)
        /\ Len(health') = n
        /\ DOMAIN health \subseteq DOMAIN health'
    BY <2>1
  <2>3. Asking(n) \in FramesFor(n) /\ FramesFor(Len(health)) \subseteq FramesFor(n)
    BY <1>0, AskingFrame, FramesGrow
  <2>4. check' = [check EXCEPT !["adder"] = Asking(n)]
    BY <1>4 DEF AddStream
  <2>5. check' \in [Callers -> FramesFor(n)]
    BY <1>0, <2>3, <2>4 DEF TypeOK
  <2> QED
    BY <1>0, <1>4, <2>2, <2>5 DEF AddStream, TypeOK
<1>5. CASE RemoveStream
  BY <1>0, <1>5 DEF RemoveStream, TypeOK
<1>6. CASE Sweep
  <2>1. CASE stream # 0
    <3>1. Asking(stream) \in FramesFor(Len(health))
      BY <1>0, <2>1, AskingFrame DEF TypeOK
    <3> QED
      BY <1>0, <1>6, <2>1, <3>1 DEF Sweep, TypeOK
  <2>2. CASE stream = 0
    BY <1>0, <1>6, <2>2 DEF Sweep, TypeOK
  <2> QED
    BY <2>1, <2>2
<1>7. CASE Tick
  <2>1. late' \in BOOLEAN
    BY <1>7, Zenon DEF Tick, TypeOK
  <2>2. /\ now < MaxTime /\ now' = now + 1
        /\ UNCHANGED <<newest, running, stream, health, check, wake, watched, alarm, faults>>
    BY <1>7 DEF Tick
  <2> QED
    BY <1>0, <2>1, <2>2 DEF TypeOK
<1>8. ASSUME NEW c \in Callers, RelayAnswers(c)
      PROVE  TypeOK'
  <2> DEFINE a == IF Readable THEN newest ELSE None
  <2>1. /\ check' = [check EXCEPT ![c] = [check[c] EXCEPT !.pc = "told", !.answer = a]]
        /\ check[c].pc = "asked"
    BY <1>8 DEF RelayAnswers
  <2>2. a \in Nat \union {None} /\ check[c] \in FramesFor(Len(health))
    BY DEF TypeOK
  <2>3. [check[c] EXCEPT !.pc = "told", !.answer = a] \in FramesFor(Len(health))
    BY <1>0, <2>1, <2>2, FrameGoesOn
  <2> QED
    BY <1>8, <2>1, <2>3 DEF RelayAnswers, TypeOK
<1>9. ASSUME NEW c \in Callers, NobodyAnswers(c)
      PROVE  TypeOK'
  <2>1. /\ check' = [check EXCEPT ![c] = [check[c] EXCEPT !.pc = "told"]]
        /\ check[c].pc = "asked"
    BY <1>9 DEF NobodyAnswers
  <2>2. [check[c] EXCEPT !.pc = "told"] \in FramesFor(Len(health))
    BY <1>0, <2>1, FrameGoesOn DEF TypeOK
  <2> QED
    BY <1>9, <2>1, <2>2 DEF NobodyAnswers, TypeOK
<1>10. ASSUME NEW c \in Callers, Update(c)
       PROVE  TypeOK'
  <2> DEFINE o == check[c].of
             new == Health(check[c].answer)
  <2>1. check[c].pc = "told" /\ check[c] \in FramesFor(Len(health))
    BY <1>10 DEF Update, TypeOK
  <2>2. o \in DOMAIN health /\ new \in Healths
    BY <2>1, HealthTyped DEF TypeOK, FramesFor
  <2>3. /\ health' = Updated(o, new)
        /\ UNCHANGED <<now, newest, running, stream, watched, faults, late>>
    BY <1>10 DEF Update
  <2>4. /\ health' \in Seq(Healths)
        /\ Len(health') = Len(health)
        /\ DOMAIN health' = DOMAIN health
    BY <2>2, <2>3, UpdatedTyped
  <2>5. CASE Alerted(health[o], new)
    <3>1. /\ check' = [check EXCEPT ![c] = [check[c] EXCEPT !.pc = "alerting"]]
          /\ wake' = wake
      BY <1>10, <2>5 DEF Update
    <3>2. alarm' \subseteq DOMAIN health
      BY <1>10, <2>2, <2>5 DEF Update, TypeOK
    <3>3. [check[c] EXCEPT !.pc = "alerting"] \in FramesFor(Len(health))
      BY <1>0, <2>1, FrameGoesOn
    <3>4. check' \in [Callers -> FramesFor(Len(health'))]
      BY <2>4, <3>1, <3>3 DEF TypeOK
    <3> QED
      BY <2>3, <2>4, <3>1, <3>2, <3>4 DEF TypeOK
  <2>6. CASE ~Alerted(health[o], new)
    <3>1. Finish(c) /\ alarm' = alarm
      BY <1>10, <2>6 DEF Update
    <3> QED
      BY <2>3, <2>4, <3>1, FinishTyped DEF TypeOK
  <2> QED
    BY <2>5, <2>6
<1>11. ASSUME NEW c \in Callers, QueryRaises(c)
       PROVE  TypeOK'
  BY <1>11, FinishTyped DEF QueryRaises, TypeOK
<1>12. ASSUME NEW c \in Callers, CallbackEnds(c)
       PROVE  TypeOK'
  BY <1>12, FinishTyped DEF CallbackEnds, TypeOK
<1>13. CASE UNCHANGED vars
  BY <1>13 DEF vars, TypeOK
<1> QED
  BY <1>1, <1>2, <1>3, <1>4, <1>5, <1>6, <1>7, <1>8, <1>9, <1>10, <1>11,
     <1>12, <1>13 DEF Next, Work

(* The monitor starts typed. *)
LEMMA TypeInit == Init => TypeOK
<1> SUFFICES ASSUME Init PROVE TypeOK
  OBVIOUS
<1>1. health = <<>> /\ health \in Seq(Healths) /\ Len(health) = 0
  BY DEF Init
<1>2. check \in [Callers -> FramesFor(Len(health))]
  BY <1>1, RestingFrame DEF Init
<1>3. /\ now = 0 /\ wake = 0 /\ watched = 0 /\ faults = 0 /\ stream = 0
      /\ newest = None /\ alarm = {}
  BY DEF Init
<1>4. running \in BOOLEAN /\ late \in BOOLEAN
  BY Zenon DEF Init
<1> QED
  BY <1>1, <1>2, <1>3, <1>4 DEF TypeOK

(* The types hold in every reachable state, in whatever time queries take. *)
THEOREM TypeCorrect == Spec => []TypeOK
BY TypeInit, TypeStep, PTL DEF Spec

-----------------------------------------------------------------------------
(* Every step of a prompt run is a step of the monitor. *)
LEMMA PromptIsNext == [Work \/ (Prompt /\ Tick)]_vars => [Next]_vars
BY DEF Next

(* With an answer in time, the health is the one of a living stream. *)
LEMMA HealthInTime ==
  ASSUME TypeOK, QueryTime < Cadence,
         NEW f \in Frames, f.pc # "idle", CheckInTime(f)
  PROVE  Health(f.answer) \in {"unknown", "active"}
<1>1. CASE f.answer = None
  BY <1>1 DEF Health
<1>2. CASE f.answer # None
  <2>1. f.answer \in Nat /\ f.from \in Nat /\ now \in Nat
    BY <1>2, Numbers DEF Frames
  <2>2. now - f.answer < 2 * Cadence
    BY <1>2, <2>1 DEF CheckInTime
  <2> QED
    BY <1>2, <2>2 DEF Health
<1> QED
  BY <1>1, <1>2

(* No step makes a punctual stream look late to a check. *)
LEMMA InTimeStep ==
  ASSUME QueryTime < Cadence, TypeOK, InTime,
         [Work \/ (Prompt /\ Punctual /\ Tick)]_vars
  PROVE  InTime'
<1> USE DEF InTime
<1>0. /\ now \in Nat /\ newest \in Nat \union {None}
      /\ check \in [Callers -> Frames]
      /\ "loop" \in Callers /\ "adder" \in Callers
      /\ Resting.pc = "idle"
  BY Numbers DEF TypeOK, FramesFor, Callers, Resting
<1>1. CASE Observe
  BY <1>0, <1>1 DEF Observe, CheckInTime, Unaccused
<1>2. CASE Start
  BY <1>2 DEF Start, CheckInTime, Unaccused
<1>3. CASE Stop
  BY <1>0, <1>3 DEF Stop, CheckInTime, Unaccused
<1>4. CASE AddStream
  <2>1. CheckInTime(Asking(Len(health) + 1))
    BY <1>0 DEF CheckInTime, Asking
  <2>2. \A c \in Callers : CheckInTime(check'[c])
    BY <1>0, <1>4, <2>1 DEF AddStream
  <2>3. Unaccused'
    BY <1>4 DEF AddStream, Unaccused, TypeOK
  <2> QED
    BY <1>4, <2>2, <2>3 DEF AddStream, CheckInTime
<1>5. CASE RemoveStream
  BY <1>5 DEF RemoveStream, CheckInTime, Unaccused
<1>6. CASE Sweep
  <2>1. CheckInTime(Asking(stream))
    BY <1>0 DEF CheckInTime, Asking
  <2>2. \A c \in Callers : CheckInTime(check'[c])
    BY <1>0, <1>6, <2>1 DEF Sweep
  <2> QED
    BY <1>6, <2>2 DEF Sweep, CheckInTime, Unaccused
<1>7. CASE Prompt /\ Punctual /\ Tick
  <2>1. newest # None /\ now - newest < Cadence /\ now' = now + 1
    BY <1>7 DEF Punctual, Tick
  <2>2. ASSUME NEW c \in Callers, check[c].pc # "idle"
        PROVE  now - check[c].from < QueryTime
    BY <1>7, <2>2 DEF Prompt
  <2>3. \A c \in Callers : check[c].from \in Nat
    BY <1>0 DEF Frames
  <2>4. \A c \in Callers : CheckInTime(check[c])'
    BY <1>0, <1>7, <2>1, <2>2, <2>3 DEF CheckInTime, Tick
  <2> QED
    BY <1>0, <1>7, <2>1, <2>4 DEF Tick, Unaccused
<1>8. ASSUME NEW c \in Callers, RelayAnswers(c)
      PROVE  InTime'
  <2> DEFINE a == IF Readable THEN newest ELSE None
             f == [check[c] EXCEPT !.pc = "told", !.answer = a]
  <2>1. check' = [check EXCEPT ![c] = f] /\ check[c].pc = "asked"
    BY <1>8 DEF RelayAnswers
  <2>2. f.from = check[c].from /\ f.answer = a /\ f.from \in Nat
    BY <1>0 DEF Frames
  <2>3. CheckInTime(f)
    <3>1. CheckInTime(check[c])
      OBVIOUS
    <3> HIDE DEF f
    <3> QED
      BY <1>0, <2>1, <2>2, <3>1 DEF CheckInTime
  <2> HIDE DEF f
  <2>4. \A d \in Callers : CheckInTime(check'[d])
    BY <1>0, <2>1, <2>3
  <2> QED
    BY <1>8, <2>4 DEF RelayAnswers, CheckInTime, Unaccused
<1>9. ASSUME NEW c \in Callers, NobodyAnswers(c)
      PROVE  InTime'
  <2> DEFINE f == [check[c] EXCEPT !.pc = "told"]
  <2>1. check' = [check EXCEPT ![c] = f] /\ check[c].pc = "asked"
    BY <1>9 DEF NobodyAnswers
  <2>2. f.from = check[c].from /\ f.answer = check[c].answer
    BY <1>0 DEF Frames
  <2>3. CheckInTime(f)
    <3>1. CheckInTime(check[c])
      OBVIOUS
    <3> HIDE DEF f
    <3> QED
      BY <2>1, <2>2, <3>1 DEF CheckInTime
  <2> HIDE DEF f
  <2>4. \A d \in Callers : CheckInTime(check'[d])
    BY <1>0, <2>1, <2>3
  <2> QED
    BY <1>9, <2>4 DEF NobodyAnswers, CheckInTime, Unaccused
<1>10. ASSUME NEW c \in Callers, Update(c)
       PROVE  InTime'
  <2> DEFINE o == check[c].of
             new == Health(check[c].answer)
             f == [check[c] EXCEPT !.pc = "alerting"]
  <2>1. check[c].pc = "told" /\ check[c] \in FramesFor(Len(health))
    BY <1>10 DEF Update, TypeOK
  <2>2. /\ o \in DOMAIN health
        /\ new \in {"unknown", "active"} /\ new \in Healths
    BY <1>0, <2>1, HealthInTime, HealthTyped DEF TypeOK, FramesFor
  <2>3. /\ health' = Updated(o, new)
        /\ UNCHANGED <<now, newest>>
        /\ \/ check' = [check EXCEPT ![c] = f]
           \/ check' = [check EXCEPT ![c] = Resting]
    BY <1>10 DEF Update, Finish
  <2>4. /\ DOMAIN health' = DOMAIN health
        /\ \A i \in DOMAIN health : health'[i] = IF i = o THEN new ELSE health[i]
    BY SMTT(60), <2>2, <2>3, UpdatedTyped
  <2>5. Unaccused'
    BY <2>2, <2>4 DEF Unaccused
  <2>6. f.from = check[c].from /\ f.answer = check[c].answer
    BY <1>0 DEF Frames
  <2>7. CheckInTime(f)
    <3>1. CheckInTime(check[c])
      OBVIOUS
    <3> HIDE DEF f
    <3> QED
      BY <2>1, <2>6, <3>1 DEF CheckInTime
  <2>8. CheckInTime(Resting)
    BY <1>0 DEF CheckInTime
  <2> HIDE DEF f, o, new
  <2>9. \A d \in Callers : CheckInTime(check'[d])
    BY <1>0, <2>3, <2>7, <2>8
  <2> QED
    BY <2>3, <2>5, <2>9 DEF CheckInTime
<1>11. ASSUME NEW c \in Callers, Finish(c), UNCHANGED <<now, newest, health>>
       PROVE  InTime'
  <2>1. CheckInTime(Resting)
    BY <1>0 DEF CheckInTime
  <2>2. \A d \in Callers : CheckInTime(check'[d])
    BY <1>0, <1>11, <2>1 DEF Finish
  <2> QED
    BY <1>11, <2>2 DEF CheckInTime, Unaccused
<1>12. ASSUME NEW c \in Callers, QueryRaises(c) \/ CallbackEnds(c)
       PROVE  InTime'
  BY <1>11, <1>12 DEF QueryRaises, CallbackEnds
<1>13. CASE UNCHANGED vars
  BY <1>13 DEF vars, CheckInTime, Unaccused
<1> QED
  BY <1>1, <1>2, <1>3, <1>4, <1>5, <1>6, <1>7, <1>8, <1>9, <1>10, <1>12,
     <1>13 DEF Work

(* What was late stays late, and a tick that is not makes nothing late. *)
LEMMA PunctualStep ==
  ASSUME QueryTime < Cadence, TypeOK, PunctualInv, [Work \/ (Prompt /\ Tick)]_vars
  PROVE  PunctualInv'
<1> SUFFICES ASSUME ~late' PROVE InTime'
  BY DEF PunctualInv
<1>1. ~late
  <2>1. CASE Work
    BY <2>1 DEF Work, Observe, Start, Stop, AddStream, RemoveStream, Sweep, RelayAnswers,
       NobodyAnswers, Update, QueryRaises, CallbackEnds
  <2>2. CASE Tick
    BY <2>2 DEF Tick
  <2>3. CASE UNCHANGED vars
    BY <2>3 DEF vars
  <2> QED
    BY <2>1, <2>2, <2>3
<1>2. Tick => Punctual
  BY DEF Tick
<1>3. InTime
  BY <1>1 DEF PunctualInv
<1> QED
  BY <1>2, <1>3, InTimeStep

(* A stream that publishes in every cadence is never called stale or dead  *)
(* when queries take less than one cadence, for every cadence, interval    *)
(* and query time, with queries failing and streams removed and added.     *)
THEOREM PunctualAlways ==
  ASSUME QueryTime < Cadence
  PROVE  PromptSpec => []PunctualNeverStale
<1>1. Init => PunctualInv
  BY DEF Init, PunctualInv, InTime, CheckInTime, Unaccused, Resting
<1>2. PunctualInv => PunctualNeverStale
  BY DEF PunctualInv, InTime, PunctualNeverStale
<1>3. /\ TypeOK /\ PunctualInv
      /\ [Work \/ (Prompt /\ Tick)]_vars
      => (TypeOK /\ PunctualInv)'
  BY PromptIsNext, TypeStep, PunctualStep
<1> QED
  BY <1>1, <1>2, <1>3, TypeInit, PTL DEF PromptSpec

-----------------------------------------------------------------------------
(* The other two properties, with the invariant they rest on: when the     *)
(* checks run, what the answers they hold say about the relay, and what    *)
(* the objects of the checks therefore are.                                *)

Busy(c) == check[c].pc # "idle"

(* No check takes longer than a query, and the loop sleeps and checks in   *)
(* turn.  A check that began while this object was the monitored one is a  *)
(* check of it, and the check of add_stream began when it was added.       *)
Timely ==
  /\ wake <= now + Interval
  /\ \A c \in Callers :
       Busy(c) => check[c].from <= now /\ now <= check[c].from + QueryTime
  /\ running => IF Busy("loop") THEN check["loop"].from = wake ELSE now <= wake
  /\ ~running => ~Busy("loop")
  /\ Busy("loop") /\ check["loop"].from > watched => check["loop"].of = stream
  /\ Busy("adder") /\ check["adder"].of = stream => check["adder"].from <= watched

(* The check of c was told that there is no observation. *)
Missed(c) == check[c].pc = "told" /\ check[c].answer = None

(* There is an observation that the client can read. *)
Seen == Readable /\ newest # None

(* While no query fails: an answer is an observation of the relay, and a   *)
(* check that was told of none began before the first one.                 *)
Answered ==
  /\ \A c \in Callers :
       check[c].answer # None => Seen /\ check[c].answer <= newest
  /\ \A c \in Callers :
       Missed(c) =>
         /\ Seen => check[c].from <= newest
         /\ \A d \in Callers :
              check[d].answer # None => check[c].from <= check[d].answer

(* What the monitored object says when its last check by the loop ended    *)
(* one interval before w.                                                  *)
Caught(w) ==
  newest # None /\ w > watched + QueryTime + Interval =>
    /\ w >= newest + 2 * Cadence + QueryTime + Interval
         => health[stream] \in {"stale", "dead"}
    /\ w > newest + QueryTime + Interval => health[stream] # "unknown"

CaughtUp ==
  running /\ stream # 0 =>
    /\ Caught(wake)
    /\ check["loop"].pc = "alerting" => Caught(now + Interval)

(* An object reported stale is stale or dead, and no check is about to     *)
(* forget that.                                                            *)
Alarmed ==
  /\ \A o \in alarm : health[o] \in {"stale", "dead"}
  /\ alarm # {} => Seen
  /\ \A c \in Callers : Missed(c) => check[c].of \notin alarm

(* A step of a prompt run. *)
PromptStep == [Work \/ (Prompt /\ Tick)]_vars

-----------------------------------------------------------------------------
(* What the steps of a check do to the checks. *)

LEMMA FrameFields ==
  ASSUME TypeOK, NEW c \in Callers
  PROVE  /\ check[c].of \in 0 .. Len(health) /\ check[c].of \in Nat
         /\ check[c].from \in Nat
         /\ check[c].answer \in Nat \union {None}
         /\ check[c].pc = "idle" <=> check[c].of = 0
<1>1. check[c] \in FramesFor(Len(health)) /\ Len(health) \in Nat
  BY Numbers DEF TypeOK
<1> QED
  BY <1>1 DEF FramesFor, Frames

(* An answer changes nothing but the answer of its check. *)
LEMMA RelayMoves ==
  ASSUME TypeOK, NEW c \in Callers, RelayAnswers(c)
  PROVE  /\ \A d \in Callers : d # c => check'[d] = check[d]
         /\ check[c].pc = "asked" /\ check'[c].pc = "told"
         /\ check'[c].of = check[c].of /\ check'[c].from = check[c].from
         /\ check'[c].answer = IF Seen THEN newest ELSE None
<1> DEFINE a == IF Readable THEN newest ELSE None
<1>1. check' = [check EXCEPT ![c] = [check[c] EXCEPT !.pc = "told", !.answer = a]]
  BY DEF RelayAnswers
<1>2. check \in [Callers -> Frames]
  BY DEF TypeOK, FramesFor
<1>3. check[c] \in Frames /\ check'[c] = [check[c] EXCEPT !.pc = "told", !.answer = a]
  BY <1>1, <1>2
<1>4. check[c].pc = "asked"
  BY DEF RelayAnswers
<1>5. \A d \in Callers : d # c => check'[d] = check[d]
  BY <1>1, <1>2
<1> HIDE DEF a
<1>6. /\ check'[c].pc = "told" /\ check'[c].answer = a
      /\ check'[c].of = check[c].of /\ check'[c].from = check[c].from
  BY <1>3 DEF Frames
<1>7. a = IF Seen THEN newest ELSE None
  BY Zenon DEF a, Seen
<1> QED
  BY <1>4, <1>5, <1>6, <1>7

(* The check that ends leaves an empty frame. *)
LEMMA FinishMoves ==
  ASSUME TypeOK, NEW c \in Callers, Finish(c)
  PROVE  /\ \A d \in Callers : d # c => check'[d] = check[d]
         /\ check'[c].pc = "idle" /\ check'[c].of = 0
         /\ check'[c].from = 0 /\ check'[c].answer = None
         /\ c = "loop" => wake' = now + Interval
         /\ c # "loop" => wake' = wake
<1>1. check \in [Callers -> Frames]
  BY DEF TypeOK, FramesFor
<1> QED
  BY <1>1 DEF Finish, Resting

(* A check that updates its object alerts, or ends. *)
LEMMA UpdateMoves ==
  ASSUME TypeOK, NEW c \in Callers, Update(c)
  PROVE  /\ check[c].pc = "told"
         /\ check[c].of \in DOMAIN health /\ DOMAIN health' = DOMAIN health
         /\ \A i \in DOMAIN health :
              health'[i] = IF i = check[c].of THEN Health(check[c].answer) ELSE health[i]
         /\ \/ /\ ~Alerted(health[check[c].of], Health(check[c].answer))
               /\ Finish(c) /\ alarm' = alarm
            \/ /\ Alerted(health[check[c].of], Health(check[c].answer))
               /\ \A d \in Callers : d # c => check'[d] = check[d]
               /\ check'[c].pc = "alerting"
               /\ check'[c].of = check[c].of /\ check'[c].from = check[c].from
               /\ check'[c].answer = check[c].answer
               /\ wake' = wake
               /\ alarm' = CASE Health(check[c].answer) = "stale" -> alarm \union {check[c].of}
                             [] Health(check[c].answer) = "active" -> alarm \ {check[c].of}
                             [] OTHER -> alarm
<1> DEFINE o == check[c].of
           new == Health(check[c].answer)
<1>1. check[c].pc = "told" /\ check \in [Callers -> Frames]
  BY DEF Update, TypeOK, FramesFor
<1>2. o \in DOMAIN health /\ new \in Healths
  BY <1>1, FrameFields, HealthTyped DEF TypeOK
<1>3. health' = Updated(o, new)
  BY DEF Update
<1>4. /\ DOMAIN health' = DOMAIN health
      /\ \A i \in DOMAIN health : health'[i] = IF i = o THEN new ELSE health[i]
  BY <1>2, <1>3, UpdatedTyped
<1>5. CASE ~Alerted(health[o], new)
  <2>1. Finish(c) /\ alarm' = alarm
    BY <1>5 DEF Update
  <2> QED
    BY <1>1, <1>2, <1>4, <1>5, <2>1
<1>6. CASE Alerted(health[o], new)
  <2>1. /\ alarm' = CASE new = "stale" -> alarm \union {o}
                      [] new = "active" -> alarm \ {o}
                      [] OTHER -> alarm
        /\ check' = [check EXCEPT ![c] = [check[c] EXCEPT !.pc = "alerting"]]
        /\ wake' = wake
    BY <1>6 DEF Update
  <2>2. \A d \in Callers : d # c => check'[d] = check[d]
    BY <1>1, <2>1
  <2>3. check[c] \in Frames /\ check'[c] = [check[c] EXCEPT !.pc = "alerting"]
    BY <1>1, <2>1
  <2>4. /\ check'[c].pc = "alerting" /\ check'[c].of = o
        /\ check'[c].from = check[c].from /\ check'[c].answer = check[c].answer
    BY <2>3 DEF Frames
  <2> HIDE DEF o, new
  <2>5. /\ check[c].pc = "told" /\ o \in DOMAIN health /\ DOMAIN health' = DOMAIN health
        /\ \A i \in DOMAIN health : health'[i] = IF i = o THEN new ELSE health[i]
    BY <1>1, <1>2, <1>4
  <2> QED
    BY <1>6, <2>1, <2>2, <2>4, <2>5 DEF o, new
<1> QED
  BY <1>5, <1>6

(* A check that begins. *)
LEMMA AskMoves ==
  ASSUME TypeOK, NEW c \in Callers, NEW o, check' = [check EXCEPT ![c] = Asking(o)]
  PROVE  /\ \A d \in Callers : d # c => check'[d] = check[d]
         /\ check'[c].pc = "asked" /\ check'[c].of = o
         /\ check'[c].from = now /\ check'[c].answer = None
<1>1. check \in [Callers -> Frames]
  BY DEF TypeOK, FramesFor
<1> QED
  BY <1>1 DEF Asking

(* No relay answers: the check goes on with None. *)
LEMMA NobodyMoves ==
  ASSUME TypeOK, NEW c \in Callers, NobodyAnswers(c)
  PROVE  /\ \A d \in Callers : d # c => check'[d] = check[d]
         /\ check[c].pc = "asked" /\ check'[c].pc = "told"
         /\ check'[c].of = check[c].of /\ check'[c].from = check[c].from
<1>1. check' = [check EXCEPT ![c] = [check[c] EXCEPT !.pc = "told"]] /\ check[c].pc = "asked"
  BY DEF NobodyAnswers
<1>2. check \in [Callers -> Frames]
  BY DEF TypeOK, FramesFor
<1>3. check[c] \in Frames /\ check'[c] = [check[c] EXCEPT !.pc = "told"]
  BY <1>1, <1>2
<1>4. check'[c].pc = "told" /\ check'[c].of = check[c].of /\ check'[c].from = check[c].from
  BY <1>3 DEF Frames
<1> QED
  BY <1>1, <1>2, <1>4

-----------------------------------------------------------------------------
LEMMA TimelyInit == Init => Timely
BY DEF Init, Timely, Busy, Resting, Callers

(* No step but a tick makes time pass, and a prompt one waits for whatever *)
(* is due.                                                                 *)
LEMMA TimelyStep ==
  ASSUME TypeOK, Timely, PromptStep
  PROVE  Timely'
<1> USE DEF Timely, Busy
<1>0. /\ now \in Nat /\ wake \in Nat /\ watched \in Nat /\ watched <= now
      /\ stream \in Nat /\ Len(health) \in Nat /\ stream <= Len(health)
      /\ "loop" \in Callers /\ "adder" \in Callers
      /\ \A c \in Callers : c = "loop" \/ c = "adder"
      /\ \A c \in Callers : check[c].from \in Nat /\ check[c].of <= Len(health)
  BY SMTT(60), Numbers, FrameFields DEF TypeOK, Callers
<1>1. CASE Observe
  BY <1>1 DEF Observe
<1>2. CASE Start
  BY <1>0, <1>2 DEF Start
<1>3. CASE Stop
  <2>1. check' = [check EXCEPT !["loop"] = Resting] /\ check \in [Callers -> Frames]
    BY <1>3 DEF Stop, TypeOK, FramesFor
  <2>2. check'["loop"].pc = "idle" /\ check'["adder"] = check["adder"]
    BY <1>0, <2>1 DEF Resting
  <2> QED
    BY <1>0, <1>3, <2>2 DEF Stop
<1>4. CASE AddStream
  <2> DEFINE n == Len(health) + 1
  <2>1. check' = [check EXCEPT !["adder"] = Asking(n)]
    BY <1>4 DEF AddStream
  <2>2. /\ now' = now /\ wake' = wake /\ running' = running
        /\ watched' = now /\ stream' = n /\ n > Len(health)
    BY <1>0, <1>4 DEF AddStream
  <2> HIDE DEF n
  <2>3. \A d \in Callers : d # "adder" => check'[d] = check[d]
    BY <1>0, <2>1, AskMoves
  <2>4. check'["adder"].pc = "asked" /\ check'["adder"].of = n /\ check'["adder"].from = now
    BY <1>0, <2>1, AskMoves
  <2>5. check'["loop"] = check["loop"]
    BY <1>0, <2>3
  <2> QED
    BY <1>0, <2>2, <2>4, <2>5
<1>5. CASE RemoveStream
  <2>1. \A c \in Callers : Busy(c) => check[c].of # 0
    BY FrameFields
  <2> QED
    BY <1>0, <1>5, <2>1 DEF RemoveStream
<1>6. CASE Sweep
  <2>1. CASE stream # 0
    <3>1. check' = [check EXCEPT !["loop"] = Asking(stream)]
      BY <1>6, <2>1 DEF Sweep
    <3>2. /\ check'["adder"] = check["adder"]
          /\ check'["loop"].pc = "asked" /\ check'["loop"].of = stream
          /\ check'["loop"].from = now
      BY <1>0, <3>1, AskMoves
    <3> QED
      BY <1>0, <1>6, <2>1, <3>2 DEF Sweep
  <2>2. CASE stream = 0
    BY <1>0, <1>6, <2>2 DEF Sweep
  <2> QED
    BY <2>1, <2>2
<1>7. CASE Prompt /\ Tick
  BY SMTT(60), <1>0, <1>7 DEF Prompt, Tick
<1>8. ASSUME NEW c \in Callers, RelayAnswers(c)
      PROVE  Timely'
  <2>1. /\ \A d \in Callers : d # c => check'[d] = check[d]
        /\ check[c].pc = "asked" /\ check'[c].pc = "told"
        /\ check'[c].of = check[c].of /\ check'[c].from = check[c].from
        /\ UNCHANGED <<now, wake, running, stream, watched>>
    BY <1>8, RelayMoves DEF RelayAnswers
  <2> QED
    BY <1>0, <2>1
<1>9. ASSUME NEW c \in Callers, NobodyAnswers(c)
      PROVE  Timely'
  <2>1. /\ \A d \in Callers : d # c => check'[d] = check[d]
        /\ check[c].pc = "asked" /\ check'[c].pc = "told"
        /\ check'[c].of = check[c].of /\ check'[c].from = check[c].from
        /\ UNCHANGED <<now, wake, running, stream, watched>>
    BY <1>9, NobodyMoves DEF NobodyAnswers
  <2> QED
    BY <1>0, <2>1
<1>10. ASSUME NEW c \in Callers, Busy(c), Finish(c),
              UNCHANGED <<now, running, stream, watched>>
       PROVE  Timely'
  <2>1. /\ \A d \in Callers : d # c => check'[d] = check[d]
        /\ check'[c].pc = "idle"
        /\ c = "loop" => wake' = now + Interval
        /\ c # "loop" => wake' = wake
    BY <1>10, FinishMoves
  <2>2. CASE c = "loop"
    <3>1. /\ ~Busy("loop")' /\ check'["adder"] = check["adder"] /\ wake' = now + Interval
      BY <1>0, <2>1, <2>2
    <3> QED
      BY <1>0, <1>10, <3>1
  <2>3. CASE c = "adder"
    <3>1. /\ ~Busy("adder")' /\ check'["loop"] = check["loop"] /\ wake' = wake
      BY <1>0, <2>1, <2>3
    <3> QED
      BY <1>0, <1>10, <3>1
  <2> QED
    BY <1>0, <2>2, <2>3
<1>11. ASSUME NEW c \in Callers, Update(c)
       PROVE  Timely'
  <2>1. UNCHANGED <<now, running, stream, watched>>
    BY <1>11 DEF Update
  <2>2. CASE Finish(c)
    BY <1>10, <1>11, <2>1, <2>2, UpdateMoves
  <2>3. CASE ~Finish(c)
    <3>1. /\ \A d \in Callers : d # c => check'[d] = check[d]
          /\ check[c].pc = "told" /\ check'[c].pc = "alerting"
          /\ check'[c].of = check[c].of /\ check'[c].from = check[c].from
          /\ wake' = wake
      BY <1>11, <2>3, UpdateMoves
    <3> QED
      BY <1>0, <2>1, <3>1
  <2> QED
    BY <2>2, <2>3
<1>12. ASSUME NEW c \in Callers, QueryRaises(c) \/ CallbackEnds(c)
       PROVE  Timely'
  BY <1>10, <1>12 DEF QueryRaises, CallbackEnds
<1>13. CASE UNCHANGED vars
  BY <1>13 DEF vars
<1> QED
  BY <1>1, <1>2, <1>3, <1>4, <1>5, <1>6, <1>7, <1>8, <1>9, <1>11, <1>12, <1>13
  DEF PromptStep, Work

(* An observation stays on the relay. *)
LEMMA SeenStays ==
  /\ Seen => newest # None
  /\ UNCHANGED newest => (Seen' <=> Seen)
  /\ TypeOK /\ Seen /\ Observe => Seen'
<1>1. TypeOK => now # None
  BY Numbers, MonitorAssumption
<1> QED
  BY <1>1, Zenon DEF Seen, Observe

(* What the answers say stays true: observations only get newer, and an    *)
(* answer is the newest one.                                               *)
LEMMA AnsweredStep ==
  ASSUME TypeOK, Timely, faults' = 0, Answered, PromptStep
  PROVE  Answered'
<1> USE DEF Answered, Missed
<1>0. /\ now \in Nat /\ newest \in Nat \union {None} /\ (newest # None => newest <= now)
      /\ "loop" \in Callers /\ "adder" \in Callers
      /\ \A c \in Callers : check[c].from \in Nat /\ check[c].answer \in Nat \union {None}
      /\ \A c \in Callers : check[c].pc # "idle" => check[c].from <= now
      /\ faults \in Nat
  BY Numbers, FrameFields DEF TypeOK, Callers, Timely, Busy
<1>s. /\ Seen => newest # None
      /\ UNCHANGED newest => (Seen' <=> Seen)
      /\ Seen /\ Observe => Seen'
  BY SeenStays
<1>1. CASE Observe
  <2>1. newest' = now /\ check' = check
    BY <1>1 DEF Observe
  <2>2. Seen => Seen' /\ newest # None
    BY <1>1, <1>s
  <2>3. ASSUME NEW c \in Callers, check'[c].answer # None
        PROVE  Seen' /\ check'[c].answer <= newest'
    BY <1>0, <2>1, <2>2, <2>3
  <2>4. ASSUME NEW c \in Callers, Missed(c)'
        PROVE  /\ check'[c].from <= newest'
               /\ \A d \in Callers :
                    check'[d].answer # None => check'[c].from <= check'[d].answer
    <3>1. Missed(c) /\ check[c].from <= now
      BY <1>0, <2>1, <2>4
    <3> QED
      BY <2>1, <3>1
  <2> QED
    BY <2>3, <2>4
<1>2. CASE UNCHANGED <<newest, check>>
  BY <1>2, <1>s
<1>3. ASSUME NEW c \in Callers, UNCHANGED newest,
             \A d \in Callers : d # c => check'[d] = check[d],
             check'[c].pc # "told", check'[c].answer = None
      PROVE  Answered'
  BY <1>0, <1>3, <1>s
<1>4. CASE Stop
  <2>1. check' = [check EXCEPT !["loop"] = Resting] /\ check \in [Callers -> Frames]
    BY <1>4 DEF Stop, TypeOK, FramesFor
  <2>2. /\ check'["loop"].pc = "idle" /\ check'["loop"].answer = None
        /\ \A d \in Callers : d # "loop" => check'[d] = check[d]
    BY <1>0, <2>1 DEF Resting
  <2> QED
    BY <1>0, <1>3, <1>4, <2>2 DEF Stop
<1>5. CASE AddStream
  BY <1>0, <1>3, <1>5, AskMoves DEF AddStream
<1>6. CASE Sweep
  <2>1. CASE stream # 0
    BY <1>0, <1>3, <1>6, <2>1, AskMoves DEF Sweep
  <2>2. CASE stream = 0
    BY <1>2, <1>6, <2>2 DEF Sweep
  <2> QED
    BY <2>1, <2>2
<1>7. CASE Start \/ RemoveStream \/ Tick \/ UNCHANGED vars
  BY <1>2, <1>7 DEF Start, RemoveStream, Tick, vars
<1>8. ASSUME NEW c \in Callers, RelayAnswers(c)
      PROVE  Answered'
  <2> DEFINE a == IF Seen THEN newest ELSE None
  <2>1. /\ \A d \in Callers : d # c => check'[d] = check[d]
        /\ check[c].pc = "asked" /\ check'[c].pc = "told"
        /\ check'[c].from = check[c].from
        /\ check'[c].answer = a /\ newest' = newest
    BY <1>8, RelayMoves DEF RelayAnswers
  <2>2. CASE ~Seen
    <3>1. \A d \in Callers : check[d].answer = None
      BY <2>2
    <3>2. \A d \in Callers : check'[d].answer = None
      BY <2>1, <2>2, <3>1
    <3> QED
      BY <1>s, <2>1, <2>2, <3>2
  <2>3. CASE Seen
    <3>1. a = newest /\ newest # None
      BY <1>s, <2>3, Zenon
    <3>2. \A d \in Callers : check'[d].answer # None => check'[d].answer <= newest
      BY <1>0, <2>1, <3>1
    <3>3. ASSUME NEW e \in Callers, Missed(e)'
          PROVE  /\ check'[e].from <= newest
                 /\ \A d \in Callers :
                      check'[d].answer # None => check'[e].from <= check'[d].answer
      <4>1. e # c /\ check'[e] = check[e] /\ Missed(e)
        BY <2>1, <3>1, <3>3
      <4>2. check[e].from <= newest
        BY <2>3, <4>1
      <4> QED
        BY <2>1, <3>1, <4>1, <4>2
    <3> QED
      BY <1>s, <2>1, <2>3, <3>2, <3>3
  <2> QED
    BY <2>2, <2>3
<1>9. ASSUME NEW c \in Callers, NobodyAnswers(c) \/ QueryRaises(c)
      PROVE  FALSE
  BY <1>0, <1>9 DEF NobodyAnswers, QueryRaises
<1>10. ASSUME NEW c \in Callers, Finish(c), UNCHANGED newest
       PROVE  Answered'
  BY <1>3, <1>10, FinishMoves
<1>11. ASSUME NEW c \in Callers, Update(c)
       PROVE  Answered'
  <2>1. UNCHANGED newest
    BY <1>11 DEF Update
  <2>2. CASE Finish(c)
    BY <1>10, <2>1, <2>2
  <2>3. CASE ~Finish(c)
    <3>1. /\ \A d \in Callers : d # c => check'[d] = check[d]
          /\ check[c].pc = "told" /\ check'[c].pc = "alerting"
          /\ check'[c].answer = check[c].answer /\ check'[c].from = check[c].from
      BY <1>11, <2>3, UpdateMoves
    <3> QED
      BY <1>0, <1>s, <2>1, <3>1
  <2> QED
    BY <2>2, <2>3
<1>12. ASSUME NEW c \in Callers, CallbackEnds(c)
       PROVE  Answered'
  BY <1>10, <1>12 DEF CallbackEnds
<1> QED
  BY <1>1, <1>4, <1>5, <1>6, <1>7, <1>8, <1>9, <1>11, <1>12 DEF PromptStep, Work

(* The health of an answer tells how old it is. *)
LEMMA HealthOfAnswer ==
  ASSUME TypeOK, NEW a \in Nat
  PROVE  /\ Health(a) # "unknown"
         /\ now >= a + 2 * Cadence => Health(a) \in {"stale", "dead"}
BY Numbers, MonitorAssumption DEF Health

(* What a check of the monitored object, begun after the newest            *)
(* observation, finds.                                                     *)
LEMMA UpdateCatches ==
  ASSUME TypeOK, Timely, Answered, Readable, running, stream # 0, Update("loop")
  PROVE  Caught(wake)' /\ Caught(now + Interval)'
<1> DEFINE o == check["loop"].of
           a == check["loop"].answer
           f == check["loop"].from
<1>0. /\ now \in Nat /\ wake \in Nat /\ watched \in Nat /\ stream \in DOMAIN health
      /\ newest \in Nat \union {None} /\ f \in Nat /\ a \in Nat \union {None}
      /\ "loop" \in Callers
  BY Numbers, FrameFields DEF TypeOK, Callers
<1>1. /\ check["loop"].pc = "told"
      /\ health'[stream] = IF stream = o THEN Health(a) ELSE health[stream]
  BY <1>0, UpdateMoves
<1>2. UNCHANGED <<now, newest, running, stream, watched>>
  BY DEF Update
<1>3. /\ f <= now /\ now <= f + QueryTime /\ f = wake
      /\ f > watched => o = stream
  BY <1>0, <1>1 DEF Timely, Busy
<1>4. newest # None => Seen
  BY Zenon DEF Seen
<1>5. a # None => newest # None /\ a <= newest
  BY <1>0, SeenStays DEF Answered
<1>6. newest # None /\ f > newest => a # None
  BY <1>0, <1>1, <1>4 DEF Answered, Missed
<1>7. a # None => /\ Health(a) # "unknown"
                  /\ now >= a + 2 * Cadence => Health(a) \in {"stale", "dead"}
  BY <1>0, HealthOfAnswer
<1>8. wake' = wake \/ wake' = now + Interval
  BY <1>0, UpdateMoves, FinishMoves
<1> HIDE DEF o, a, f
<1>9. ASSUME newest # None, f > watched,
             NEW t \in Nat, f <= t, t <= f + QueryTime, t <= now
      PROVE  /\ t >= newest + 2 * Cadence + QueryTime => health'[stream] \in {"stale", "dead"}
             /\ t > newest + QueryTime => health'[stream] # "unknown"
  <2>1. health'[stream] = Health(a) /\ newest \in Nat
    BY <1>0, <1>1, <1>3, <1>9
  <2>2. t > newest + QueryTime => a # None /\ Health(a) # "unknown"
    BY <1>0, <1>6, <1>7, <1>9, <2>1
  <2>3. ASSUME t >= newest + 2 * Cadence + QueryTime
        PROVE  Health(a) \in {"stale", "dead"}
    <3>1. a \in Nat /\ a <= newest
      BY <1>0, <1>5, <2>1, <2>2, <2>3
    <3>2. now >= a + 2 * Cadence
      BY <1>0, <1>9, <2>1, <2>3, <3>1
    <3> QED
      BY <1>7, <3>1, <3>2
  <2> QED
    BY <2>1, <2>2, <2>3
<1>10. Caught(now + Interval)'
  <2> SUFFICES ASSUME newest # None, now + Interval > watched + QueryTime + Interval
               PROVE  /\ now + Interval >= newest + 2 * Cadence + QueryTime + Interval
                           => health'[stream] \in {"stale", "dead"}
                      /\ now + Interval > newest + QueryTime + Interval
                           => health'[stream] # "unknown"
    BY <1>2 DEF Caught
  <2>1. newest \in Nat /\ f > watched
    BY <1>0, <1>3
  <2> QED
    BY <1>0, <1>3, <1>9, <2>1
<1>11. ASSUME wake' = wake
       PROVE  Caught(wake)'
  <2> SUFFICES ASSUME newest # None, wake > watched + QueryTime + Interval
               PROVE  /\ wake >= newest + 2 * Cadence + QueryTime + Interval
                           => health'[stream] \in {"stale", "dead"}
                      /\ wake > newest + QueryTime + Interval
                           => health'[stream] # "unknown"
    BY <1>2, <1>11 DEF Caught
  <2>1. newest \in Nat /\ f > watched /\ f = wake
    BY <1>0, <1>3
  <2> QED
    BY <1>0, <1>3, <1>9, <2>1
<1>12. ASSUME wake' = now + Interval
       PROVE  Caught(wake)'
  BY <1>2, <1>10, <1>12 DEF Caught
<1> QED
  BY <1>8, <1>10, <1>11, <1>12

(* No step lets the monitored object fall behind: the loop's checks find   *)
(* out, and the check of add_stream ends before the loop's next one.       *)
LEMMA CaughtStep ==
  ASSUME TypeOK, Timely, faults' = 0, Answered, Readable, CaughtUp, PromptStep
  PROVE  CaughtUp'
<1> DEFINE Same == UNCHANGED <<now, newest, running, stream, health, wake, watched>>
<1>0. /\ now \in Nat /\ wake \in Nat /\ watched \in Nat /\ watched <= now /\ wake <= now + Interval
      /\ newest \in Nat \union {None} /\ faults \in Nat /\ stream \in Nat
      /\ stream # 0 => stream \in DOMAIN health
      /\ "loop" \in Callers /\ "adder" \in Callers
      /\ \A c \in Callers : c = "loop" \/ c = "adder"
  BY Numbers DEF TypeOK, Callers, Timely
<1>1. ASSUME watched' = now, now' = now, wake' <= now + Interval, wake' \in Nat
      PROVE  CaughtUp'
  BY <1>0, <1>1 DEF CaughtUp, Caught
<1>2. ASSUME Same, check'["loop"].pc = "alerting" => check["loop"].pc = "alerting"
      PROVE  CaughtUp'
  BY <1>2 DEF CaughtUp, Caught
<1>3. CASE Observe
  <2>1. newest' = now /\ UNCHANGED <<now, wake, watched>>
    BY <1>3 DEF Observe
  <2> QED
    BY <1>0, <2>1 DEF CaughtUp, Caught
<1>4. CASE Start \/ Stop \/ AddStream \/ RemoveStream
  BY <1>0, <1>1, <1>4 DEF Start, Stop, AddStream, RemoveStream
<1>5. CASE Sweep
  <2>1. CASE stream = 0
    BY <1>5, <2>1 DEF Sweep, CaughtUp
  <2>2. CASE stream # 0
    <3>1. check' = [check EXCEPT !["loop"] = Asking(stream)] /\ Same
      BY <1>5, <2>2 DEF Sweep
    <3>2. check'["loop"].pc = "asked"
      BY <1>0, <3>1, AskMoves
    <3> QED
      BY <1>2, <3>1, <3>2
  <2> QED
    BY <2>1, <2>2
<1>6. CASE Prompt /\ Tick
  <2>1. /\ UNCHANGED <<newest, running, stream, health, check, wake, watched>>
        /\ check["loop"].pc # "alerting"
    BY <1>0, <1>6 DEF Prompt, Tick
  <2> QED
    BY <2>1 DEF CaughtUp, Caught
<1>7. ASSUME NEW c \in Callers, RelayAnswers(c)
      PROVE  CaughtUp'
  <2>1. /\ \A d \in Callers : d # c => check'[d] = check[d]
        /\ check'[c].pc = "told" /\ Same
    BY <1>7, RelayMoves DEF RelayAnswers
  <2> QED
    BY <1>0, <1>2, <2>1
<1>8. ASSUME NEW c \in Callers, NobodyAnswers(c) \/ QueryRaises(c)
      PROVE  FALSE
  BY <1>0, <1>8 DEF NobodyAnswers, QueryRaises
<1>9. CASE Update("loop")
  <2>1. UNCHANGED <<now, running, stream>>
    BY <1>9 DEF Update
  <2>2. CASE running /\ stream # 0
    BY <1>9, <2>2, UpdateCatches DEF CaughtUp
  <2> QED
    BY <2>1, <2>2 DEF CaughtUp
<1>10. CASE Update("adder")
  <2> DEFINE o == check["adder"].of
  <2>1. UNCHANGED <<now, newest, running, stream, watched>>
    BY <1>10 DEF Update
  <2>2. /\ check["adder"].pc = "told"
        /\ \A i \in DOMAIN health : i # o => health'[i] = health[i]
        /\ wake' = wake
    BY <1>0, <1>10, UpdateMoves, FinishMoves
  <2>3. check'["loop"] = check["loop"]
    BY <1>0, <1>10, UpdateMoves, FinishMoves
  <2>4. CASE stream = 0 \/ o # stream
    BY <1>0, <2>1, <2>2, <2>3, <2>4 DEF CaughtUp, Caught
  <2>5. CASE stream # 0 /\ o = stream
    <3>1. now <= watched + QueryTime
      <4>1. /\ check["adder"].from <= watched /\ check["adder"].from \in Nat
            /\ now <= check["adder"].from + QueryTime
        BY <1>0, <2>2, <2>5, FrameFields DEF Timely, Busy
      <4> QED
        BY <1>0, <4>1
    <3> QED
      BY <1>0, <2>1, <2>2, <3>1 DEF CaughtUp, Caught
  <2> QED
    BY <2>4, <2>5
<1>11. CASE CallbackEnds("loop")
  <2>1. /\ UNCHANGED <<now, newest, running, stream, health, watched>>
        /\ check["loop"].pc = "alerting" /\ Finish("loop")
    BY <1>11 DEF CallbackEnds
  <2>2. wake' = now + Interval /\ check'["loop"].pc = "idle"
    BY <1>0, <2>1, FinishMoves
  <2> QED
    BY <2>1, <2>2 DEF CaughtUp, Caught
<1>12. CASE CallbackEnds("adder")
  <2>1. UNCHANGED <<now, newest, running, stream, health, watched>> /\ Finish("adder")
    BY <1>12 DEF CallbackEnds
  <2>2. wake' = wake /\ check'["loop"] = check["loop"]
    BY <1>0, <2>1, FinishMoves
  <2> QED
    BY <1>2, <2>1, <2>2
<1>13. CASE UNCHANGED vars
  BY <1>2, <1>13 DEF vars
<1>14. ASSUME NEW c \in Callers, Update(c) \/ CallbackEnds(c)
       PROVE  CaughtUp'
  BY <1>0, <1>9, <1>10, <1>11, <1>12, <1>14
<1> QED
  BY <1>3, <1>4, <1>5, <1>6, <1>7, <1>8, <1>13, <1>14 DEF PromptStep, Work

(* A failed query stays counted. *)
LEMMA FaultsGrow ==
  ASSUME TypeOK, PromptStep, faults' = 0
  PROVE  faults = 0
<1>1. faults \in Nat
  BY DEF TypeOK
<1>2. ASSUME NEW c \in Callers, NobodyAnswers(c) \/ QueryRaises(c)
      PROVE  FALSE
  BY <1>1, <1>2 DEF NobodyAnswers, QueryRaises
<1>3. ASSUME NEW c \in Callers, RelayAnswers(c) \/ Update(c) \/ CallbackEnds(c)
      PROVE  faults' = faults
  BY <1>3 DEF RelayAnswers, Update, CallbackEnds
<1>4. CASE \/ Observe \/ Start \/ Stop \/ AddStream \/ RemoveStream \/ Sweep
           \/ Tick \/ UNCHANGED vars
  BY <1>4 DEF Observe, Start, Stop, AddStream, RemoveStream, Sweep, Tick, vars
<1> QED
  BY <1>2, <1>3, <1>4 DEF PromptStep, Work

(* What has been found out is enough for the property: the loop's last     *)
(* check ended at most a query and an interval ago.                        *)
LEMMA CaughtUpIsKnown ==
  ASSUME TypeOK, Timely, faults = 0 => CaughtUp
  PROVE  HealthCatchesUp
<1> SUFFICES ASSUME NEW o \in DOMAIN health, faults = 0, Watching(o), newest # None
             PROVE  /\ now - newest >= 2 * Cadence + Notice => health[o] \in {"stale", "dead"}
                    /\ now - newest > Notice => health[o] # "unknown"
  BY DEF HealthCatchesUp, SilenceNoticed, SeenIsKnown
<1>0. /\ now \in Nat /\ wake \in Nat /\ watched \in Nat /\ newest \in Nat
      /\ running /\ stream = o /\ stream # 0 /\ now - watched > Notice
      /\ "loop" \in Callers /\ check["loop"].from \in Nat
  BY Numbers, FrameFields DEF TypeOK, Watching, Callers
<1>1. now <= wake + QueryTime
  BY <1>0 DEF Timely, Busy
<1>2. Caught(wake)
  BY <1>0 DEF CaughtUp
<1> QED
  BY <1>0, <1>1, <1>2 DEF Caught, Notice

(* The health of a monitored free stream follows the relay within the time *)
(* of a check, whatever checks overlap and for every cadence, interval and *)
(* query time, until a query fails.                                        *)
THEOREM HealthCatchesUpAlways ==
  ASSUME Readable
  PROVE  PromptSpec => []HealthCatchesUp
<1> DEFINE Inv == TypeOK /\ Timely /\ (faults = 0 => Answered /\ CaughtUp)
<1>1. Init => Inv
  <2>1. Init => Answered /\ CaughtUp
    BY DEF Init, Answered, Missed, CaughtUp, Resting
  <2> QED
    BY <2>1, TypeInit, TimelyInit
<1>2. Inv /\ PromptStep => Inv'
  BY PromptIsNext, TypeStep, TimelyStep, FaultsGrow, AnsweredStep, CaughtStep DEF PromptStep
<1>3. Inv => HealthCatchesUp
  BY CaughtUpIsKnown
<1> QED
  BY <1>1, <1>2, <1>3, PTL DEF PromptSpec, PromptStep

-----------------------------------------------------------------------------
(* No check forgets that an object was reported stale: one that was told   *)
(* of no observation began before the first, and is over before twice the  *)
(* cadence has passed since.                                               *)
LEMMA AlarmedStep ==
  ASSUME QueryTime < 2 * Cadence,
         TypeOK, Timely, faults' = 0, Answered, Alarmed, PromptStep
  PROVE  Alarmed'
<1> USE DEF Alarmed
<1>0. /\ now \in Nat /\ newest \in Nat \union {None} /\ faults \in Nat
      /\ "loop" \in Callers /\ "adder" \in Callers
      /\ \A c \in Callers : check[c].from \in Nat /\ check[c].answer \in Nat \union {None}
      /\ \A c \in Callers : Missed(c) => now <= check[c].from + QueryTime
      /\ alarm \subseteq DOMAIN health
  BY SMTT(60), Numbers, FrameFields DEF TypeOK, Callers, Timely, Busy, Missed
<1>s. /\ Seen => newest # None
      /\ UNCHANGED newest => (Seen' <=> Seen)
      /\ Seen /\ Observe => Seen'
  BY SeenStays
<1>1. CASE Observe
  BY <1>1, <1>s DEF Observe, Missed
<1>2. CASE UNCHANGED <<newest, health, check, alarm>>
  BY <1>2, <1>s DEF Missed
<1>3. ASSUME NEW c \in Callers, UNCHANGED <<newest, alarm>>,
             \A i \in alarm : health'[i] = health[i],
             \A d \in Callers : d # c => check'[d] = check[d],
             check'[c].pc # "told"
      PROVE  Alarmed'
  BY <1>3, <1>s DEF Missed
<1>4. CASE Stop
  <2>1. check' = [check EXCEPT !["loop"] = Resting] /\ check \in [Callers -> Frames]
    BY <1>4 DEF Stop, TypeOK, FramesFor
  <2>2. /\ check'["loop"].pc = "idle"
        /\ \A d \in Callers : d # "loop" => check'[d] = check[d]
    BY <1>0, <2>1 DEF Resting
  <2> QED
    BY <1>0, <1>3, <1>4, <2>2 DEF Stop
<1>5. CASE AddStream
  <2>1. /\ check'["adder"].pc = "asked"
        /\ \A d \in Callers : d # "adder" => check'[d] = check[d]
    BY <1>0, <1>5, AskMoves DEF AddStream
  <2>2. \A i \in alarm : health'[i] = health[i]
    BY <1>0, <1>5 DEF AddStream, TypeOK
  <2> QED
    BY <1>0, <1>3, <1>5, <2>1, <2>2 DEF AddStream
<1>6. CASE Sweep
  <2>1. CASE stream # 0
    BY <1>0, <1>3, <1>6, <2>1, AskMoves DEF Sweep
  <2>2. CASE stream = 0
    BY <1>2, <1>6, <2>2 DEF Sweep
  <2> QED
    BY <2>1, <2>2
<1>7. CASE Start \/ RemoveStream \/ Tick \/ UNCHANGED vars
  BY <1>2, <1>7 DEF Start, RemoveStream, Tick, vars
<1>8. ASSUME NEW c \in Callers, RelayAnswers(c)
      PROVE  Alarmed'
  <2>1. /\ \A d \in Callers : d # c => check'[d] = check[d]
        /\ check'[c].answer = IF Seen THEN newest ELSE None
        /\ UNCHANGED <<newest, health, alarm>>
    BY <1>8, RelayMoves DEF RelayAnswers
  <2>2. CASE Seen
    <3>1. ~Missed(c)'
      BY <1>s, <2>1, <2>2 DEF Missed
    <3> QED
      BY <1>s, <2>1, <2>2, <3>1 DEF Missed
  <2>3. CASE ~Seen
    BY <1>s, <2>1, <2>3
  <2> QED
    BY <2>2, <2>3
<1>9. ASSUME NEW c \in Callers, NobodyAnswers(c) \/ QueryRaises(c)
      PROVE  FALSE
  BY <1>0, <1>9 DEF NobodyAnswers, QueryRaises
<1>10. ASSUME NEW c \in Callers, Update(c)
       PROVE  Alarmed'
  <2> DEFINE o == check[c].of
             a == check[c].answer
  <2>0. UNCHANGED <<now, newest>>
    BY <1>10 DEF Update
  <2>1. /\ check[c].pc = "told" /\ check'[c].pc # "told" /\ o \in DOMAIN health
        /\ \A d \in Callers : d # c => check'[d] = check[d]
        /\ \A i \in DOMAIN health :
             health'[i] = IF i = o THEN Health(a) ELSE health[i]
        /\ \/ alarm' = alarm /\ ~Alerted(health[o], Health(a))
           \/ alarm' = CASE Health(a) = "stale" -> alarm \union {o}
                         [] Health(a) = "active" -> alarm \ {o}
                         [] OTHER -> alarm
    BY <1>10, UpdateMoves, FinishMoves
  <2>2. CASE a = None
    <3>1. o \notin alarm /\ Health(a) = "unknown"
      BY <1>0, <2>1, <2>2 DEF Missed, Health
    <3>2. alarm' = alarm
      BY <2>1, <3>1
    <3> QED
      BY <1>0, <1>3, <2>0, <2>1, <3>1, <3>2
  <2>3. CASE a # None
    <3>1. Seen /\ a \in Nat
      BY <1>0, <2>3 DEF Answered
    <3>2. Health(a) \in {"active", "stale", "dead"}
      BY <2>3 DEF Health
    <3>3. Health(a) # "active" => now >= a + 2 * Cadence
      BY <1>0, <2>3, <3>1 DEF Health
    <3>4. \A d \in Callers : Missed(d)' => d # c /\ Missed(d)
      BY <2>1 DEF Missed
    <3> HIDE DEF o, a
    <3>5. alarm' \ {o} = alarm \ {o}
      BY <2>1, <3>2
    <3>6. o \in alarm' => Health(a) # "active"
      <4>1. CASE alarm' = alarm /\ ~Alerted(health[o], Health(a))
        BY <4>1 DEF Alerted
      <4>2. CASE alarm' = CASE Health(a) = "stale" -> alarm \union {o}
                            [] Health(a) = "active" -> alarm \ {o}
                            [] OTHER -> alarm
        BY <3>2, <4>2
      <4> QED
        BY <2>1, <4>1, <4>2
    <3>7. \A i \in alarm' : health'[i] \in {"stale", "dead"}
      BY <1>0, <2>1, <3>2, <3>5, <3>6
    <3>8. ASSUME NEW d \in Callers, Missed(d)'
          PROVE  check'[d].of \notin alarm'
      <4>1. /\ d # c /\ Missed(d) /\ check'[d] = check[d]
            /\ check[d].of \notin alarm
        BY <2>1, <3>4, <3>8
      <4>2. check[d].from <= a
        BY <2>3, <4>1 DEF Answered, a
      <4>3. now < a + 2 * Cadence
        BY <1>0, <3>1, <4>1, <4>2
      <4>4. Health(a) = "active"
        BY <1>0, <3>1, <3>3, <4>3
      <4> QED
        BY <3>5, <3>6, <4>1, <4>4
    <3> QED
      BY <1>s, <2>0, <3>1, <3>7, <3>8
  <2> QED
    BY <2>2, <2>3
<1>11. ASSUME NEW c \in Callers, CallbackEnds(c)
       PROVE  Alarmed'
  BY <1>3, <1>11, FinishMoves DEF CallbackEnds
<1> QED
  BY <1>1, <1>4, <1>5, <1>6, <1>7, <1>8, <1>9, <1>10, <1>11 DEF PromptStep, Work

(* Only an object that was active is reported stale. *)
LEMMA StaleWasActive ==
  ASSUME TypeOK, Alarmed, PromptStep, NEW c \in Callers, Fires(c, "stale")
  PROVE  check[c].of \notin alarm
<1>0. "loop" \in Callers /\ "adder" \in Callers
  BY DEF Callers
<1>1. check[c].pc = "told" /\ check'[c].pc = "alerting" /\ health'[check[c].of] = "stale"
  BY DEF Fires
<1>2. Update(c)
  <2>1. CASE UNCHANGED check
    BY <1>1, <2>1
  <2>2. CASE Stop
    <3>1. check' = [check EXCEPT !["loop"] = Resting] /\ check \in [Callers -> Frames]
      BY <2>2 DEF Stop, TypeOK, FramesFor
    <3> QED
      BY <1>1, <3>1 DEF Resting
  <2>3. CASE AddStream
    BY <1>0, <1>1, <2>3, AskMoves DEF AddStream
  <2>4. CASE Sweep
    BY <1>0, <1>1, <2>1, <2>4, AskMoves DEF Sweep
  <2>5. ASSUME NEW d \in Callers,
               RelayAnswers(d) \/ NobodyAnswers(d) \/ QueryRaises(d) \/ CallbackEnds(d) \/ Update(d)
        PROVE  Update(c)
    <3>1. CASE RelayAnswers(d) \/ NobodyAnswers(d)
      BY <1>1, <3>1, RelayMoves, NobodyMoves
    <3>2. CASE QueryRaises(d) \/ CallbackEnds(d)
      BY <1>1, <3>2, FinishMoves DEF QueryRaises, CallbackEnds
    <3>3. CASE Update(d)
      <4>1. d = c
        BY <1>1, <3>3, UpdateMoves, FinishMoves
      <4> QED
        BY <3>3, <4>1
    <3> QED
      BY <2>5, <3>1, <3>2, <3>3
  <2>6. CASE Observe \/ Start \/ RemoveStream \/ Tick \/ UNCHANGED vars
    BY <2>1, <2>6 DEF Observe, Start, RemoveStream, Tick, vars
  <2> QED
    BY <2>2, <2>3, <2>4, <2>5, <2>6 DEF PromptStep, Work
<1>3. /\ check[c].of \in DOMAIN health /\ Alerted(health[check[c].of], "stale")
  BY <1>1, <1>2, UpdateMoves, FinishMoves
<1> QED
  BY <1>3 DEF Alarmed, Alerted

(* The callbacks of one object alternate, for every cadence, interval and  *)
(* query time shorter than twice the cadence: a stream is not reported     *)
(* stale twice without being reported active in between.                   *)
THEOREM AlertsAlternateAlways ==
  ASSUME QueryTime < 2 * Cadence
  PROVE  PromptSpec => AlertsAlternate
<1> DEFINE Inv == TypeOK /\ Timely /\ (faults = 0 => Answered /\ Alarmed)
           Alternate == faults = 0 => \A c \in Callers : Fires(c, "stale") => check[c].of \notin alarm
<1>1. Init => Inv
  <2>1. Init => Answered /\ Alarmed
    BY DEF Init, Answered, Missed, Alarmed, Resting
  <2> QED
    BY <2>1, TypeInit, TimelyInit
<1>2. Inv /\ PromptStep => Inv'
  BY PromptIsNext, TypeStep, TimelyStep, FaultsGrow, AnsweredStep, AlarmedStep DEF PromptStep
<1>3. Inv /\ PromptStep => [Alternate]_vars
  BY StaleWasActive
<1> QED
  BY <1>1, <1>2, <1>3, PTL DEF PromptSpec, PromptStep, AlertsAlternate

=============================================================================
