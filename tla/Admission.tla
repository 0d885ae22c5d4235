------------------------------- MODULE Admission -------------------------------
(***************************************************************************)
(* Request admission (crates/engine/src/admission.rs): every HTTP request  *)
(* of the helper, probe or transfer, first obtains a permit that counts    *)
(* against a global cap and against the cap of its origin.  An answer 429  *)
(* or 503 halves the origin's cap and keeps new requests away until a      *)
(* deadline.                                                               *)
(*                                                                         *)
(* A step is one critical section of an origin's mutex, one operation on   *)
(* the global semaphore, or one reading of the clock.                      *)
(***************************************************************************)
EXTENDS Integers, FiniteSets, Sequences, SequencesExt, FiniteSetsExt

CONSTANTS
  Request,    \* tasks that issue requests, one at a time
  Origin,
  Limits,     \* ConcurrencyLimits that settings may choose: [global, perHost]
  MaxOrigins, \* MAX_ORIGINS
  Delays,     \* what a Retry-After header may say (a missing one says 1)
  MaxDelay,   \* MAX_SERVER_DELAY
  Memory,     \* PRESSURE_MEMORY
  Horizon     \* bound on the clock

ASSUME LimitsAssumption ==
  Limits # {} /\ Limits \subseteq [global : Nat \ {0}, perHost : Nat \ {0}]
ASSUME DelaysAssumption == Delays \subseteq Nat /\ MaxDelay \in Nat /\ Memory \in Nat
ASSUME HorizonAssumption == Horizon \in Nat \ {0} /\ MaxOrigins \in Nat
ASSUME RequestAssumption == IsFiniteSet(Request)

VARIABLES
  now,        \* Instant::now()
  limits,     \* Inner.limits
  origins,    \* Inner.origins: the origins the table holds, with their state
  queue,      \* requests waiting for the global semaphore, which is first come first served
  pc,         \* where a request is in acquire, or that it is admitted
  at,         \* its origin
  woken,      \* its watch channel has changed since it last waited on it
  deadline,   \* the not_before it read
  told        \* history: the latest time a server asked an origin's requests to wait for

requestVars == <<pc, at, woken, deadline>>
vars == <<now, limits, origins, queue, pc, at, woken, deadline, told>>

\* notBefore = 0 stands for None: the clock never runs behind it.
OriginStates ==
  [active : Nat, limit : Nat \ {0}, notBefore : Nat, retain : Nat, blocked : BOOLEAN]

Waiting == {"check", "queue", "slot", "decided", "timed", "waiting"}

Admitted == {"held", "answered"}

Init ==
  /\ now = 1 /\ limits \in Limits
  /\ origins = [o \in {} |-> 0] /\ queue = <<>>
  /\ pc = [r \in Request |-> "idle"] /\ at \in [Request -> Origin]
  /\ woken = [r \in Request |-> FALSE] /\ deadline = [r \in Request |-> 0]
  /\ told = [o \in Origin |-> 0]

-------------------------------------------------------------------------------
Goto(r, l) == pc' = [pc EXCEPT ![r] = l]

\* acquire returns or is dropped, and with it the channel and the deadline it held.
Leave(r, l) ==
  /\ Goto(r, l) /\ woken' = [woken EXCEPT ![r] = FALSE]
  /\ deadline' = [deadline EXCEPT ![r] = 0]

State(r) == origins[at[r]]

\* A request holds a reference to its origin from the first to the last step.
Referenced(o) == \E r \in Request : pc[r] # "idle" /\ at[r] = o

\* The condition acquire tests under the lock, before and after it has a global permit.
Ready(r) == State(r).active < State(r).limit /\ now >= State(r).notBefore

\* Guidance that is still to be remembered
Pressed(s) == s.blocked \/ s.retain > now

Kept == {o \in DOMAIN origins : Referenced(o) \/ Pressed(origins[o])}

Fresh ==
  [active |-> 0, limit |-> limits.perHost, notBefore |-> 0, retain |-> now, blocked |-> FALSE]

\* acquire looks up its origin, which also reclaims the idle ones, and subscribes to it.
Arrive(r, o) ==
  /\ pc[r] = "idle"
  /\ IF o \in Kept \/ Cardinality(Kept) < MaxOrigins
     THEN /\ origins' = [p \in Kept \cup {o} |-> IF p \in Kept THEN origins[p] ELSE Fresh]
          /\ at' = [at EXCEPT ![r] = o] /\ woken' = [woken EXCEPT ![r] = FALSE]
          /\ Goto(r, "check")
     ELSE origins' = [p \in Kept |-> origins[p]] /\ UNCHANGED requestVars
  /\ UNCHANGED <<now, limits, queue, deadline, told>>

\* The first look at the origin.
Check(r) ==
  /\ pc[r] = "check"
  /\ IF State(r).blocked
     THEN Leave(r, "idle") /\ UNCHANGED queue
     ELSE IF Ready(r)
     THEN Goto(r, "queue") /\ queue' = Append(queue, r) /\ UNCHANGED <<woken, deadline>>
     ELSE /\ Goto(r, "decided") /\ UNCHANGED <<queue, woken>>
          /\ deadline' = [deadline EXCEPT ![r] = State(r).notBefore]
  /\ UNCHANGED <<now, limits, origins, at, told>>

\* Having decided to wait, it reads the clock again to choose how.
ChooseWait(r) ==
  /\ pc[r] = "decided"
  /\ Goto(r, IF deadline[r] > now THEN "timed" ELSE "waiting")
  /\ UNCHANGED <<now, limits, origins, queue, at, woken, deadline, told>>

Wake(r) ==
  /\ \/ pc[r] \in {"timed", "waiting"} /\ woken[r] /\ woken' = [woken EXCEPT ![r] = FALSE]
     \/ pc[r] = "timed" /\ now >= deadline[r] /\ UNCHANGED woken
  /\ Goto(r, "check") /\ deadline' = [deadline EXCEPT ![r] = 0]
  /\ UNCHANGED <<now, limits, origins, queue, at, told>>

\* The global semaphore.
TakeGlobal(r) ==
  /\ queue # <<>> /\ Head(queue) = r
  /\ Cardinality({s \in Request : pc[s] \in Admitted \cup {"slot"}}) < limits.global
  /\ queue' = Tail(queue) /\ Goto(r, "slot")
  /\ UNCHANGED <<now, limits, origins, at, woken, deadline, told>>

\* Mutant: what was true before the wait for the global permit is not looked at again.
AdmitUnchecked(r) ==
  /\ pc[r] = "slot"
  /\ origins' = [origins EXCEPT ![at[r]].active = @ + 1] /\ Leave(r, "held")
  /\ UNCHANGED <<now, limits, queue, at, told>>

\* Mutant: a request that may not go ahead keeps its global permit and waits.
AdmitOrKeep(r) ==
  /\ pc[r] = "slot"
  /\ IF State(r).blocked
     THEN Leave(r, "idle") /\ UNCHANGED origins
     ELSE /\ Ready(r)
          /\ origins' = [origins EXCEPT ![at[r]].active = @ + 1] /\ Leave(r, "held")
  /\ UNCHANGED <<now, limits, queue, at, told>>

\* The second look; without admission the global permit is returned.
Admit(r) ==
  /\ pc[r] = "slot"
  /\ IF State(r).blocked
     THEN Leave(r, "idle") /\ UNCHANGED origins
     ELSE IF Ready(r)
     THEN origins' = [origins EXCEPT ![at[r]].active = @ + 1] /\ Leave(r, "held")
     ELSE Goto(r, "check") /\ UNCHANGED <<origins, woken, deadline>>
  /\ UNCHANGED <<now, limits, queue, at, told>>

-------------------------------------------------------------------------------
Signal(o) == woken' = [s \in Request |-> woken[s] \/ (pc[s] \in Waiting /\ at[s] = o)]

Halved(n) == Max({n \div 2, 1})

\* Mutant: the last answer decides, although an earlier one asked for a longer delay.
ToldLast(s, d) ==
  IF d > MaxDelay
  THEN [s EXCEPT !.limit = Halved(@), !.blocked = TRUE]
  ELSE [s EXCEPT !.limit = Halved(@), !.notBefore = now + d, !.retain = now + d + Memory]

\* An answer 429 or 503 with the given delay.
Told(s, d) ==
  IF d > MaxDelay
  THEN [s EXCEPT !.limit = Halved(@), !.blocked = TRUE]
  ELSE LET until == Max({s.notBefore, now + d})
       IN [s EXCEPT !.limit = Halved(@), !.notBefore = until, !.retain = until + Memory]

\* RequestPermit::observe
Observe(r, d) ==
  /\ pc[r] = "held" /\ (d <= MaxDelay => now + d + Memory <= Horizon)
  /\ origins' = [origins EXCEPT ![at[r]] = Told(@, d)]
  /\ told' = [told EXCEPT ![at[r]] = Max({@, IF d > MaxDelay THEN Horizon + 1 ELSE now + d})]
  /\ Signal(at[r]) /\ Goto(r, "answered")
  /\ UNCHANGED <<now, limits, queue, at, deadline>>

\* Dropping the permit
Release(r) ==
  /\ pc[r] \in Admitted
  /\ origins' = [origins EXCEPT ![at[r]].active = @ - 1]
  /\ Signal(at[r]) /\ Goto(r, "idle")
  /\ UNCHANGED <<now, limits, queue, at, deadline, told>>

\* Pause, cancellation or a superseded attempt drops the future of acquire.
Abandon(r) ==
  /\ pc[r] \in Waiting
  /\ queue' = RemoveFirst(queue, r) /\ Leave(r, "idle")
  /\ UNCHANGED <<now, limits, origins, at, told>>

Tick ==
  /\ now < Horizon /\ now' = now + 1
  /\ UNCHANGED <<limits, origins, queue, requestVars, told>>

\* Mutant: new settings start with the full width everywhere.
InheritedFullWidth(s, l) == [s EXCEPT !.limit = l.perHost]

Inherited(s, l) == [s EXCEPT !.limit = Min({@, l.perHost})]

\* New settings replace the admission of an inactive engine (inherit_pressure).
Reconfigure(l) ==
  /\ \A r \in Request : pc[r] = "idle"
  /\ limits' = l
  /\ origins' = [o \in {p \in DOMAIN origins : Pressed(origins[p])} |-> Inherited(origins[o], l)]
  /\ UNCHANGED <<now, queue, requestVars, told>>

Next ==
  \/ \E r \in Request :
       \/ \E o \in Origin : Arrive(r, o)
       \/ Check(r) \/ ChooseWait(r) \/ Wake(r) \/ TakeGlobal(r) \/ Admit(r)
       \/ \E d \in Delays : Observe(r, d)
       \/ Release(r) \/ Abandon(r)
  \/ Tick \/ \E l \in Limits : Reconfigure(l)

Spec == Init /\ [][Next]_vars

\* The runtime runs every task that can run, and a request ends: the HTTP client gives it
\* thirty seconds.  The clock may stand still, so a cooldown may outlast everything else.
FairSpec ==
  /\ Spec
  /\ \A r \in Request :
       /\ WF_vars(Check(r)) /\ WF_vars(ChooseWait(r)) /\ WF_vars(Wake(r))
       /\ WF_vars(TakeGlobal(r)) /\ WF_vars(Admit(r)) /\ WF_vars(Release(r))

-------------------------------------------------------------------------------
(***************************************************************************)
(* Properties.                                                             *)
(***************************************************************************)
TypeOK ==
  /\ now \in 1 .. Horizon /\ limits \in Limits
  /\ DOMAIN origins \subseteq Origin /\ origins \in [DOMAIN origins -> OriginStates]
  /\ pc \in [Request -> Waiting \cup Admitted \cup {"idle"}] /\ at \in [Request -> Origin]
  /\ queue \in Seq(Request) /\ IsInjective(queue)
  /\ woken \in [Request -> BOOLEAN] /\ deadline \in [Request -> 0 .. Horizon]
  /\ told \in [Origin -> 0 .. Horizon + 1]

RequestsOf(o) == {r \in Request : pc[r] \in Admitted /\ at[r] = o}

\* The admitted requests never exceed the configured caps, an origin's count is exact
\* however requests end, and no origin in use leaves the bounded table.  However
\* often a width is halved, one request stays possible.
CapsHold ==
  /\ TypeOK
  /\ \A o \in DOMAIN origins : origins[o].limit >= 1
  /\ Cardinality({r \in Request : pc[r] \in Admitted}) <= limits.global
  /\ \A o \in Origin : Cardinality(RequestsOf(o)) <= limits.perHost
  /\ \A o \in Origin : Referenced(o) => o \in DOMAIN origins
  /\ \A o \in DOMAIN origins : origins[o].active = Cardinality(RequestsOf(o))
  /\ Cardinality(DOMAIN origins) <= MaxOrigins

\* No request is admitted before the time any answer of its origin has ever asked for:
\* not by a request that was already waiting for the global permit, not after the origin
\* was reclaimed, and not after new settings.
GuidanceHonoured ==
  [][\A r \in Request :
       pc[r] \notin Admitted /\ pc'[r] \in Admitted => now >= told[at'[r]]]_vars

\* An origin under pressure stays in the table, and its width never grows.
PressureRemembered ==
  [][\A o \in DOMAIN origins :
       Pressed(origins[o]) => o \in DOMAIN origins' /\ origins'[o].limit <= origins[o].limit]_vars

\* Nothing its origin says keeps the request from being admitted.
Open(r) == State(r).active < State(r).limit /\ now >= State(r).notBefore

\* Requests of an origin that never asked to wait are not kept by the cooldown of another:
\* none waits for ever while its own origin has room, or has refused all requests.
UnrelatedProceeds ==
  \A r \in Request :
    []<>~(pc[r] \in Waiting /\ (State(r).blocked \/ (Open(r) /\ State(r).notBefore = 0)))

\* A request waits only while its origin is blocked or full, that is, it does not wait for
\* ever after the cooldown is over.
WaitsOnlyWhileClosed ==
  \A r \in Request : []<>~(pc[r] \in Waiting /\ (State(r).blocked \/ Open(r)))
===============================================================================
