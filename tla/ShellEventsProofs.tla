------------------------- MODULE ShellEventsProofs -------------------------
(***************************************************************************)
(* Proofs about ShellEvents for any number of event requests and handlers: *)
(* its type invariant and that no announced change leaves a request        *)
(* parked.                                                                 *)
(***************************************************************************)
EXTENDS ShellEvents, TLAPS

-----------------------------------------------------------------------------
(* Type correctness *)

LEMMA InitTypeOK == Init => TypeOK
  BY DEF Init, TypeOK, Location

LEMMA NextTypeOK == TypeOK /\ [Next]_vars => TypeOK'
  <1> SUFFICES ASSUME TypeOK, [Next]_vars PROVE TypeOK'
    OBVIOUS
  <1> USE DEF TypeOK, runtimeVars, requestVars
  <1>1. CASE QuietWrite
    BY <1>1 DEF QuietWrite, Change
  <1>2. ASSUME NEW w \in Writer, Write(w) PROVE TypeOK'
    BY <1>2 DEF Write, Change
  <1>3. ASSUME NEW w \in Writer, Notify(w) PROVE TypeOK'
    BY <1>3 DEF Notify, WakeAll, Location
  <1>4. ASSUME NEW r \in Reader, Request(r) PROVE TypeOK'
    BY <1>4 DEF Request, Goto, Location
  <1>5. ASSUME NEW r \in Reader, Observe(r) PROVE TypeOK'
    BY <1>5 DEF Observe, Goto, Location
  <1>6. ASSUME NEW r \in Reader, ReadState(r) PROVE TypeOK'
    BY <1>6 DEF ReadState, Goto, Location
  <1>7. ASSUME NEW r \in Reader, EnterWait(r) \/ WaitTimesOut(r) \/ SpuriousWakeup(r)
        PROVE  TypeOK'
    BY <1>7 DEF EnterWait, WaitTimesOut, SpuriousWakeup, Goto, Location
  <1>8. ASSUME NEW r \in Reader, DeadlinePasses(r) PROVE TypeOK'
    BY <1>8 DEF DeadlinePasses
  <1>9. CASE UNCHANGED vars
    BY <1>9 DEF vars
  <1> QED BY <1>1, <1>2, <1>3, <1>4, <1>5, <1>6, <1>7, <1>8, <1>9 DEF Next

\* Type correctness of the long poll.
THEOREM TypeCorrect == Spec => []TypeOK
  BY InitTypeOK, NextTypeOK, PTL DEF Spec

-----------------------------------------------------------------------------
(* The inductive invariant *)

\* The state has changed since r read it, and it has not gone unannounced: a
\* handler is about to count the change, or has counted it.
Announced(r) == generation # observed[r] \/ \E w \in Writer : writing[w]

\* A request goes to wait with the state its client has; while it waits, a
\* change is quiet, or announced; and it parks only on a generation that is
\* still the current one.
Watchful(r) ==
  /\ observed[r] <= generation
  /\ pc[r] \in {"enter", "parked"} =>
       /\ snapshot[r] = after[r]
       /\ version = snapshot[r] \/ quietly[r] \/ Announced(r)
  /\ pc[r] = "parked" => generation = observed[r]

Inv == TypeOK /\ \A r \in Reader : Watchful(r)

LEMMA InitInv == Init => Inv
  BY InitTypeOK DEF Init, Inv, Watchful

\* A step of another request does not disturb r.
LEMMA Undisturbed ==
  ASSUME NEW r \in Reader, Watchful(r),
         UNCHANGED <<version, generation, writing, pc[r], after[r], observed[r],
                     snapshot[r], quietly[r]>>
  PROVE  Watchful(r)'
  BY DEF Watchful, Announced

LEMMA NextInv == Inv /\ [Next]_vars => Inv'
  <1> SUFFICES ASSUME Inv, [Next]_vars, NEW r \in Reader PROVE Watchful(r)'
    BY NextTypeOK DEF Inv
  <1>1. TypeOK /\ Watchful(r)
    BY DEF Inv
  <1>2. CASE QuietWrite
    BY <1>1, <1>2 DEF QuietWrite, Change, Watchful, Announced, requestVars, TypeOK
  <1>3. ASSUME NEW w \in Writer, Write(w) PROVE Watchful(r)'
    <2>1. Announced(r)'
      BY <1>1, <1>3 DEF Write, Announced, TypeOK
    <2> QED BY <1>1, <1>3, <2>1 DEF Write, Change, Watchful, requestVars
  <1>4. ASSUME NEW w \in Writer, Notify(w) PROVE Watchful(r)'
    <2>1. observed'[r] = observed[r] /\ generation' = generation + 1
      BY <1>4 DEF Notify
    <2>2. observed'[r] <= generation' /\ generation' # observed'[r]
      BY <1>1, <2>1 DEF Watchful, TypeOK
    <2>3. /\ pc'[r] # "parked"
          /\ pc'[r] = "enter" => pc[r] \in {"enter", "parked"}
      BY <1>1, <1>4 DEF Notify, WakeAll, TypeOK
    <2> QED BY <1>1, <1>4, <2>2, <2>3 DEF Notify, Watchful, Announced, requestVars
  <1>5. ASSUME NEW s \in Reader, s # r,
               \/ Request(s) \/ Observe(s) \/ ReadState(s) \/ EnterWait(s)
               \/ WaitTimesOut(s) \/ SpuriousWakeup(s) \/ DeadlinePasses(s)
        PROVE  Watchful(r)'
    BY <1>1, <1>5, Undisturbed
      DEF Request, Observe, ReadState, EnterWait, WaitTimesOut, SpuriousWakeup, DeadlinePasses,
          Goto, runtimeVars, requestVars, TypeOK
  <1>6. CASE Request(r) \/ Observe(r)
    BY <1>1, <1>6 DEF Request, Observe, Goto, Watchful, runtimeVars, requestVars, TypeOK
  <1>7. CASE ReadState(r)
    <2>1. pc'[r] = "enter" => version = after[r]
      BY <1>1, <1>7 DEF ReadState, Goto, MayAnswer, TypeOK
    <2> QED BY <1>1, <1>7, <2>1
          DEF ReadState, Goto, Watchful, runtimeVars, requestVars, TypeOK
  <1>8. CASE EnterWait(r) \/ WaitTimesOut(r) \/ SpuriousWakeup(r)
    BY <1>1, <1>8
      DEF EnterWait, WaitTimesOut, SpuriousWakeup, Goto, Watchful, Announced, runtimeVars,
          requestVars, TypeOK
  <1>9. CASE DeadlinePasses(r) \/ UNCHANGED vars
    BY <1>1, <1>9 DEF DeadlinePasses, vars, Watchful, Announced, runtimeVars, requestVars
  <1> QED BY <1>2, <1>3, <1>4, <1>5, <1>6, <1>7, <1>8, <1>9 DEF Next

LEMMA Invariance == Spec => []Inv
  BY InitInv, NextInv, PTL DEF Spec

\* No wakeup is lost, however many requests wait and however many handlers
\* run: the order of notifier.generation(), the read under the runtime mutex
\* and the test under the notifier's mutex is what it takes.
THEOREM WakeupNotLost == Spec => []NoLostWakeup
  <1>1. Inv => NoLostWakeup
    BY DEF Inv, Watchful, Announced, NoLostWakeup, Stale
  <1> QED BY <1>1, Invariance, PTL
=============================================================================
