----------------------------- MODULE DedupeCache -----------------------------
(***************************************************************************)
(* The LRU cache of event ids in front of SatoriNostr._handle_event.  The  *)
(* same event comes once from every relay, and again when a relay replays  *)
(* what it has stored; the handler is to see it once.  The cache is an     *)
(* OrderedDict: used[e] stands for the place of e in it, larger is newer.  *)
(***************************************************************************)
EXTENDS Naturals, Sequences, FiniteSets

CONSTANTS
  Events,        \* event ids
  MaxSize,       \* max_size
  MaxArrivals    \* bound: events that arrive, copies included

ASSUME DedupeAssumption ==
  /\ IsFiniteSet(Events)
  /\ MaxSize \in Nat \ {0}
  /\ MaxArrivals \in Nat

VARIABLES
  used,          \* when e was last moved to the end of the dict; 0: not in it
  clock,         \* number of arrivals
  handled,       \* the events passed on to their handlers, in order
  since          \* history: the other events that arrived after e last did

cacheVars == <<used, clock, handled, since>>

Cached(u) == {e \in Events : u[e] # 0}

Handled == {handled[i] : i \in DOMAIN handled}

Oldest(u) == CHOOSE e \in Cached(u) : \A x \in Cached(u) : u[e] <= u[x]

IsSeen(e) == e \in Cached(used)

(* Mutant of MoveToEnd: a second copy does not refresh the entry. *)
StayInPlace(e) == IF IsSeen(e) THEN used ELSE [used EXCEPT ![e] = clock + 1]

(* Both is_seen and mark_seen move an entry they find to the end. *)
MoveToEnd(e) == [used EXCEPT ![e] = clock + 1]

(* Mutant of Trim: room for one entry too few. *)
TrimEarly(u) ==
  IF Cardinality(Cached(u)) >= MaxSize THEN [u EXCEPT ![Oldest(u)] = 0] ELSE u

(* popitem(last=False) when the cache is over max_size. *)
Trim(u) ==
  IF Cardinality(Cached(u)) > MaxSize THEN [u EXCEPT ![Oldest(u)] = 0] ELSE u

Arrive(e) ==
  /\ clock < MaxArrivals
  /\ clock' = clock + 1
  /\ since' = [x \in Events |-> IF x = e THEN {}
                                ELSE IF x \in Handled THEN since[x] \union {e}
                                ELSE since[x]]
  /\ \/ /\ IsSeen(e)
        /\ used' = MoveToEnd(e)
        /\ UNCHANGED handled
     \/ /\ ~IsSeen(e)
        /\ used' = Trim(MoveToEnd(e))
        /\ handled' = Append(handled, e)

CacheInit ==
  /\ used = [e \in Events |-> 0]
  /\ clock = 0
  /\ handled = <<>>
  /\ since = [e \in Events |-> {}]

CacheNext == \E e \in Events : Arrive(e)

CacheSpec == CacheInit /\ [][CacheNext]_cacheVars

(* Relays that send a copy of an event only while fewer than max_size       *)
(* others have come after the previous copy.                               *)
Timely(e) == e \notin Handled \/ Cardinality(since[e]) < MaxSize

TimelyNext == \E e \in Events : Timely(e) /\ Arrive(e)

TimelySpec == CacheInit /\ [][TimelyNext]_cacheVars

-----------------------------------------------------------------------------
CacheType ==
  /\ used \in [Events -> Nat]
  /\ clock \in 0 .. MaxArrivals
  /\ handled \in Seq(Events)
  /\ since \in [Events -> SUBSET Events]
  /\ Cardinality(Cached(used)) <= MaxSize

(* The cache forgets an event exactly when max_size others have arrived    *)
(* after its last copy: not earlier, though each of them may have come     *)
(* many times and in any order, and not later.                             *)
CacheIsWindow ==
  \A e \in Handled : IsSeen(e) <=> Cardinality(since[e]) < MaxSize

(* The order of the entries is the order of last arrivals. *)
OrderIsArrival ==
  \A e, x \in Events :
    used[e] # 0 => (x \in since[e] <=> used[x] > used[e])

(* What makes CacheIsWindow inductive: no two entries have one place, and  *)
(* what is in the cache has been handled.                                  *)
WindowInv ==
  /\ CacheIsWindow
  /\ OrderIsArrival
  /\ \A e \in Events : used[e] <= clock
  /\ \A e, x \in Events : (used[e] = used[x] /\ used[e] # 0) => e = x
  /\ Cached(used) \subseteq Handled

Promise == INSTANCE HandledOnce

(* With timely copies the handlers see every event at most once. *)
EveryEventOnce == Promise!Spec
=============================================================================
