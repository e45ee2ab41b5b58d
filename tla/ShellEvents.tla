---------------------------- MODULE ShellEvents ----------------------------
(***************************************************************************)
(* The long poll of GET /v1/shell/events against the handlers that change  *)
(* the shell state (apps/lobster-waku-gateway/src/main.rs,                 *)
(* http_read_routes.rs and the write routes).                              *)
(*                                                                         *)
(* One thread serves each HTTP request.  Two locks matter, and no thread   *)
(* ever holds both: the runtime mutex, under which a handler changes the   *)
(* state and an event request reads it, and the notifier's mutex, which    *)
(* guards the generation counter and its condition variable.  A handler    *)
(* that announces its change does so after it has released the runtime;    *)
(* some handlers that change the state announce nothing.                   *)
(***************************************************************************)
EXTENDS Naturals

CONSTANTS
  Reader,     \* threads that serve GET /v1/shell/events
  Writer,     \* threads whose handler ends with notifier.notify_changed()
  Version,    \* values of state_version for the viewer, a digest of its rooms
  NoVersion,  \* the request has no "after" parameter
  MaxWrites   \* bound: changes of the shell state

ASSUME ShellEventsConstants ==
  /\ NoVersion \notin Version
  /\ Version # {}
  /\ MaxWrites \in Nat

VARIABLES
  version,     \* state_version the runtime would report now
  generation,  \* GatewayStateNotifier::generation
  writing,     \* writing[w]: w has released the runtime, not yet notified
  writes,      \* changes so far, for the bound
  pc,          \* where each event request is
  after,       \* its "after" parameter
  patient,     \* wait_ms > 0
  expired,     \* its deadline has passed
  observed,    \* observed_generation
  snapshot,    \* the state_version of the state it read last
  quietly      \* history: a quiet change since it read the state

runtimeVars == <<version, writing, writes>>
requestVars == <<after, patient>>
vars == <<version, generation, writing, writes, pc, after, patient, expired,
          observed, snapshot, quietly>>

\* idle: no request.  observe: about to read the generation.  read: about to
\* read the state.  enter: about to lock the notifier and test its loop
\* condition.  parked: inside Condvar::wait_timeout.
Location == {"idle", "observe", "read", "enter", "parked"}

Init ==
  /\ version \in Version
  /\ generation = 0
  /\ writing = [w \in Writer |-> FALSE]
  /\ writes = 0
  /\ pc = [r \in Reader |-> "idle"]
  /\ after = [r \in Reader |-> NoVersion]
  /\ patient = [r \in Reader |-> FALSE]
  /\ expired = [r \in Reader |-> FALSE]
  /\ observed = [r \in Reader |-> 0]
  /\ snapshot = [r \in Reader |-> version]
  /\ quietly = [r \in Reader |-> FALSE]

-----------------------------------------------------------------------------
(* Handlers that change the shell state, under the runtime mutex.  Two      *)
(* changes may cancel out (freeze, unfreeze), so a version can come back.   *)

Change(v) ==
  /\ writes < MaxWrites
  /\ v # version
  /\ version' = v
  /\ writes' = writes + 1

Write(w) ==
  /\ ~writing[w]
  /\ \E v \in Version : Change(v)
  /\ writing' = [writing EXCEPT ![w] = TRUE]
  /\ UNCHANGED <<generation, pc, requestVars, expired, observed, snapshot, quietly>>

\* POST /v1/waku, the /v1/admin writes and others answer without a notification.
QuietWrite ==
  /\ \E v \in Version : Change(v)
  /\ quietly' = [r \in Reader |-> TRUE]
  /\ UNCHANGED <<generation, writing, pc, requestVars, expired, observed, snapshot>>

\* notify_all: every parked thread goes on to lock the notifier again.
WakeAll == pc' = [r \in Reader |-> IF pc[r] = "parked" THEN "enter" ELSE pc[r]]

\* Faulty variant: the generation is counted, nobody is woken.
NotifyNobody(w) ==
  /\ writing[w]
  /\ writing' = [writing EXCEPT ![w] = FALSE]
  /\ generation' = generation + 1
  /\ UNCHANGED <<version, writes, pc, requestVars, expired, observed, snapshot, quietly>>

\* notify_changed
Notify(w) ==
  /\ writing[w]
  /\ writing' = [writing EXCEPT ![w] = FALSE]
  /\ generation' = generation + 1
  /\ WakeAll
  /\ UNCHANGED <<version, writes, requestVars, expired, observed, snapshot, quietly>>

-----------------------------------------------------------------------------
(* handle_get_shell_events *)

Goto(r, location) == pc' = [pc EXCEPT ![r] = location]

\* A client asks for the state, or for a state other than the one it has.
Request(r) ==
  /\ pc[r] = "idle"
  /\ \E v \in {NoVersion, snapshot[r]} : after' = [after EXCEPT ![r] = v]
  /\ \E wait \in BOOLEAN : patient' = [patient EXCEPT ![r] = wait]
  /\ expired' = [expired EXCEPT ![r] = FALSE]
  /\ Goto(r, "observe")
  /\ UNCHANGED <<runtimeVars, generation, observed, snapshot, quietly>>

\* Faulty variant: asks for the generation before, so as to miss none.
ObserveBefore(r) ==
  /\ pc[r] = "observe"
  /\ observed' = [observed EXCEPT ![r] = generation - 1]
  /\ Goto(r, "read")
  /\ UNCHANGED <<runtimeVars, generation, requestVars, expired, snapshot, quietly>>

\* let observed_generation = notifier.generation()
Observe(r) ==
  /\ pc[r] = "observe"
  /\ observed' = [observed EXCEPT ![r] = generation]
  /\ Goto(r, "read")
  /\ UNCHANGED <<runtimeVars, generation, requestVars, expired, snapshot, quietly>>

\* Faulty variant: a request past its deadline goes on waiting.
MayAnswerLate(r, v) == v # after[r] \/ ~patient[r]

\* has_new_state || wait_ms == 0 || Instant::now() >= deadline
MayAnswer(r, v) == v # after[r] \/ ~patient[r] \/ expired[r]

\* Read the state under the runtime mutex; answer, or go and wait.
ReadState(r) ==
  /\ pc[r] = "read"
  /\ snapshot' = [snapshot EXCEPT ![r] = version]
  /\ quietly' = [quietly EXCEPT ![r] = FALSE]
  /\ Goto(r, IF MayAnswer(r, version) THEN "idle" ELSE "enter")
  /\ UNCHANGED <<runtimeVars, generation, requestVars, expired, observed>>

\* Faulty variant: the loop condition is not tested before the first wait.
EnterWaitBlindly(r) ==
  /\ pc[r] = "enter"
  /\ Goto(r, IF expired[r] THEN "observe" ELSE "parked")
  /\ UNCHANGED <<runtimeVars, generation, requestVars, expired, observed, snapshot, quietly>>

\* wait_until_changed_since: test the loop condition holding the notifier's
\* mutex; wait_timeout releases it and parks in one step.
EnterWait(r) ==
  /\ pc[r] = "enter"
  /\ Goto(r, IF generation # observed[r] \/ expired[r] THEN "observe" ELSE "parked")
  /\ UNCHANGED <<runtimeVars, generation, requestVars, expired, observed, snapshot, quietly>>

WaitTimesOut(r) ==
  /\ pc[r] = "parked"
  /\ expired[r]
  /\ Goto(r, "observe")
  /\ UNCHANGED <<runtimeVars, generation, requestVars, expired, observed, snapshot, quietly>>

\* A condition variable may return for no reason; the loop tests again.
SpuriousWakeup(r) ==
  /\ pc[r] = "parked"
  /\ Goto(r, "enter")
  /\ UNCHANGED <<runtimeVars, generation, requestVars, expired, observed, snapshot, quietly>>

DeadlinePasses(r) ==
  /\ pc[r] # "idle"
  /\ patient[r]
  /\ ~expired[r]
  /\ expired' = [expired EXCEPT ![r] = TRUE]
  /\ UNCHANGED <<runtimeVars, generation, pc, requestVars, observed, snapshot, quietly>>

-----------------------------------------------------------------------------

Next ==
  \/ QuietWrite
  \/ \E w \in Writer : Write(w) \/ Notify(w)
  \/ \E r \in Reader :
       \/ Request(r)
       \/ Observe(r)
       \/ ReadState(r)
       \/ EnterWait(r)
       \/ WaitTimesOut(r)
       \/ SpuriousWakeup(r)
       \/ DeadlinePasses(r)

Spec == Init /\ [][Next]_vars

\* A thread that can run keeps running: the operating system schedules it,
\* and neither mutex is held across a wait.
ThreadsRun ==
  /\ \A w \in Writer : WF_vars(Notify(w))
  /\ \A r \in Reader : WF_vars(Observe(r) \/ ReadState(r) \/ EnterWait(r) \/ WaitTimesOut(r))

FairSpec == Spec /\ ThreadsRun

\* The deadline is a point in time and time goes on.  Not part of FairSpec: a
\* request that must be answered because of a notification may not count on it.
ClockRuns == \A r \in Reader : WF_vars(DeadlinePasses(r))

-----------------------------------------------------------------------------
(* Properties *)

TypeOK ==
  /\ version \in Version
  /\ generation \in Nat
  /\ writing \in [Writer -> BOOLEAN]
  /\ writes \in Nat
  /\ pc \in [Reader -> Location]
  /\ after \in [Reader -> Version \cup {NoVersion}]
  /\ patient \in [Reader -> BOOLEAN]
  /\ expired \in [Reader -> BOOLEAN]
  /\ observed \in [Reader -> Nat]
  /\ snapshot \in [Reader -> Version]
  /\ quietly \in [Reader -> BOOLEAN]

Stale(r) == pc[r] = "parked" /\ version # after[r]

\* No wakeup is lost: when the state a parked request would read is no longer
\* the one its client has, a handler is about to notify it, unless the change
\* was one of those no handler announces.
NoLostWakeup ==
  \A r \in Reader : Stale(r) => quietly[r] \/ \E w \in Writer : writing[w]

\* docs/WORLD_CITY_API.md: "the gateway waits until state_version changes or
\* the timeout expires": a parked request is never left with a changed
\* version and nobody about to wake it.
ChangeEndsWait ==
  \A r \in Reader : Stale(r) => \E w \in Writer : writing[w]

\* A change that is announced is answered without the deadline's help,
\* unless it is undone before the request reads the state again.
AnnouncedChangeAnswered ==
  \A r \in Reader :
    Stale(r) /\ ~quietly[r] ~> pc[r] = "idle" \/ version = after[r] \/ quietly[r]

\* Every event request is answered once its deadline comes, whatever changes
\* and whatever wakes it before.
EveryRequestAnswered ==
  ClockRuns => \A r \in Reader : pc[r] # "idle" ~> pc[r] = "idle"
=============================================================================
