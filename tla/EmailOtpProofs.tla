-------------------------- MODULE EmailOtpProofs --------------------------
(***************************************************************************)
(* Proofs about EmailOtp for every choice of its constants: resident ids,  *)
(* codes, sign-ins, sign-outs and the limit on requests.                   *)
(***************************************************************************)
EXTENDS EmailOtp, WellFoundedInduction, TLAPS

----------------------------------------------------------------------------
(* The inductive invariant *)

\* The registrations in the file are the first of those in memory.
FileBehind ==
  /\ saved.consumed \subseteq saved.challenges
  /\ Len(saved.registrations) <= Len(registrations)
  /\ \A i \in 1..Len(saved.registrations) :
       saved.registrations[i] = registrations[i]

\* A request that has prepared nothing has left no trace.
Traceless(r) ==
  /\ r \notin challenges \cup saved.challenges \cup mailed \cup sending
  /\ loggedIn[r] = <<>>

Untouched == \A r \in Request : step[r] \in {"idle", "refused"} => Traceless(r)

\* A code that signed somebody in is of no more use, neither in memory nor in the
\* file; the first registration of its email in the file is the one it gave.
SignedIn(r) ==
  /\ Len(loggedIn[r]) = 1
  /\ r \notin Open(Snapshot) \cup Open(saved)
  /\ r \in sessions => r \in saved.sessions
  /\ \E i \in 1..Len(saved.registrations) :
       /\ saved.registrations[i] =
            [resident |-> loggedIn[r][1], email |-> form[r].email]
       /\ \A j \in 1..(i - 1) : saved.registrations[j].email # form[r].email

SignIns == \A r \in Request : loggedIn[r] # <<>> => SignedIn(r)

SignOuts ==
  /\ LogoutFinal
  /\ \A r \in loggedOut : loggedIn[r] # <<>>

\* A request that counts towards the current window holds its email's limit, and
\* no challenge that could still be undone is another's of that email.
Limits ==
  /\ \A r \in Request : at[r] <= now
  /\ \A r \in Request : step[r] \in {"sending", "failing"} => r \in sending
  /\ \A q \in sending :
       step[q] \in {"sending", "sent"} /\ now - at[q] <= Window =>
         /\ asked[form[q].email] = [start |-> at[q], count |-> 1]
         /\ \A r \in (sending \cap challenges) \ {q} : form[r].email # form[q].email

\* A window that still counts was opened by a request whose mail arrived or whose
\* challenge is on the list, to be undone with the window if the mailer fails.
Holds(r, e) ==
  /\ form[r].email = e
  /\ asked[e].start = at[r]
  /\ r \in mailed \/ (r \in challenges /\ step[r] # "failed")

Charges ==
  /\ consumed \cup saved.consumed \subseteq mailed
  /\ \A e \in Email :
       asked[e].count = 1 /\ now - asked[e].start <= Window =>
         \E r \in sending : Holds(r, e)

\* The requests whose code is on its way or has arrived, and is not used, burnt,
\* expired or replaced.
Later(q, r) ==
  /\ form[q].email = form[r].email
  /\ step[q] \notin {"idle", "refused"}
  /\ at[q] >= at[r]

Good(r) ==
  /\ step[r] \in {"sending", "sent"}
  /\ Expires(r) >= now
  /\ loggedIn[r] = <<>>
  /\ r \notin burnt
  /\ \A q \in Request \ {r} : ~Later(q, r)

\* Such a code can be used, before a restart and after it.
Codes == \A r \in Request : Good(r) => r \in Open(Snapshot) \cap Open(saved)

Inv ==
  /\ TypeOK
  /\ FileBehind
  /\ OneOwner
  /\ OneOpenCode
  /\ Untouched
  /\ SignIns
  /\ SignOuts
  /\ Limits
  /\ Charges
  /\ Codes

----------------------------------------------------------------------------
(* Operators *)

\* The least of a set of positions is one of them, and no other is smaller.
LEMMA MinIsLeast ==
  ASSUME NEW S, S \subseteq Nat, S # {}
  PROVE  Min(S) \in S /\ \A y \in S : Min(S) <= y
<1> DEFINE Less == {ss \in Nat \X Nat : ss[1] < ss[2]}
<1>1. \E x \in S : \A y \in S : <<y, x>> \notin Less
  <2>1. IsWellFoundedOn(Less, Nat)
    BY NatLessThanWellFounded, Zenon DEF OpToRel
  <2> HIDE DEF Less
  <2> QED
    BY <2>1, WFMin
<1>2. \E x \in S : \A y \in S : x <= y
  <2>1. PICK x \in S : \A y \in S : <<y, x>> \notin Less
    BY <1>1
  <2>2. \A y \in S : ~(y < x)
    BY <2>1
  <2> QED
    BY <2>2
<1> QED
  BY <1>2 DEF Min

\* A sign-in with a registered email takes the first registration of the email.
LEMMA ResidentOfIsFirst ==
  ASSUME registrations \in Seq(Registration), NEW email, Registered(email)
  PROVE  \E i \in 1..Len(registrations) :
           /\ registrations[i] = [resident |-> ResidentOf(email), email |-> email]
           /\ \A j \in 1..(i - 1) : registrations[j].email # email
<1> DEFINE I == {i \in DOMAIN registrations : registrations[i].email = email}
<1>1. I # {} /\ I \subseteq Nat /\ I \subseteq 1..Len(registrations)
  BY DEF Registered
<1>2. Min(I) \in I /\ \A j \in I : Min(I) <= j
  BY <1>1, MinIsLeast
<1>3. Min(I) \in 1..Len(registrations)
  BY <1>1, <1>2
<1>4. registrations[Min(I)] \in Registration
  BY <1>3
<1>5. registrations[Min(I)] = [resident |-> ResidentOf(email), email |-> email]
  BY <1>2, <1>4 DEF ResidentOf, Registration
<1>6. \A j \in 1..(Min(I) - 1) : registrations[j].email # email
  <2> SUFFICES ASSUME NEW j \in 1..(Min(I) - 1), registrations[j].email = email
               PROVE  FALSE
    OBVIOUS
  <2>1. j \in I
    BY <1>3
  <2> QED
    <3> HIDE DEF I
    <3> QED
      BY <1>2, <1>3, <2>1
<1> QED
  BY <1>3, <1>5, <1>6

\* An upsert never rewrites a registration: it changes nothing when the email is
\* registered, and appends an entry for a free resident id when it is not.
LEMMA UpsertAppends ==
  ASSUME registrations \in Seq(Registration),
         NEW email \in Email, NEW resident \in Resident,
         ~BoundElsewhere(resident, email),
         Registered(email) => resident = ResidentOf(email)
  PROVE  \/ Registered(email) /\ Upserted(resident, email) = registrations
         \/ /\ ~Registered(email)
            /\ Upserted(resident, email) =
                 Append(registrations, [resident |-> resident, email |-> email])
            /\ \A i \in 1..Len(registrations) : registrations[i].resident # resident
<1> DEFINE entry == [resident |-> resident, email |-> email]
           I == {i \in DOMAIN registrations :
                   registrations[i].email = email \/ registrations[i].resident = resident}
<1>2. \A i \in I : registrations[i].email = email
  BY DEF BoundElsewhere
<1>3. CASE Registered(email)
  <2>1. PICK i \in 1..Len(registrations) :
          /\ registrations[i] = [resident |-> ResidentOf(email), email |-> email]
          /\ \A j \in 1..(i - 1) : registrations[j].email # email
    BY <1>3, ResidentOfIsFirst
  <2>2. registrations[i] = entry
    BY <1>3, <2>1
  <2>3. i \in I /\ I \subseteq Nat /\ I \subseteq 1..Len(registrations)
    BY <2>2
  <2>4. Min(I) \in I /\ \A j \in I : Min(I) <= j
    BY <2>3, MinIsLeast
  <2>5. Min(I) = i
    <3>1. Min(I) \in 1..Len(registrations) /\ Min(I) <= i
      BY <2>3, <2>4
    <3>2. registrations[Min(I)].email = email
      BY <1>2, <2>4
    <3>3. ~(Min(I) < i)
      BY <2>1, <3>1, <3>2
    <3> QED
      BY <3>1, <3>3
  <2>6. Upserted(resident, email) = [registrations EXCEPT ![i] = entry]
    BY <2>3, <2>5 DEF Upserted
  <2> QED
    BY <1>3, <2>2, <2>6
<1>4. CASE ~Registered(email)
  <2>1. I = {}
    BY <1>2, <1>4 DEF Registered
  <2>2. Upserted(resident, email) = Append(registrations, entry)
    BY <2>1 DEF Upserted
  <2> QED
    BY <1>4, <2>1, <2>2
<1> QED
  BY <1>3, <1>4

----------------------------------------------------------------------------
(* What every step does to the registrations and the file *)

\* A request that is let through opens a window of its own.
LEMMA CountedIsOne ==
  ASSUME TypeOK, NEW email \in Email, ~Limited(email)
  PROVE  Counted(email) = [asked EXCEPT ![email] = [start |-> now, count |-> 1]]
<1>1. Opened(asked[email]) \in [start : Nat, count : {0, 1}]
  BY DEF TypeOK, Opened
<1>2. Opened(asked[email]).count = 0
  BY <1>1 DEF Limited
<1>3. Opened(asked[email]).start = now
  BY <1>2 DEF TypeOK, Opened
<1> QED
  BY <1>2, <1>3 DEF Counted

\* The window of a request keeps its email limited.
LEMMA WindowLimits ==
  ASSUME TypeOK, NEW email, NEW t \in Nat,
         asked[email] = [start |-> t, count |-> 1], now - t <= Window
  PROVE  Limited(email)
<1>1. ~(now - t > Window)
  BY EmailOtpConstants DEF TypeOK
<1>2. Opened(asked[email]) = asked[email]
  BY <1>1 DEF Opened
<1> QED
  BY <1>2 DEF Limited

Appended ==
  \E entry \in Registration :
    /\ registrations' = Append(registrations, entry)
    /\ \A i \in 1..Len(registrations) : registrations[i].resident # entry.resident

\* Every step but a restart leaves the registrations or appends one of a free
\* resident id, and leaves the file or writes what memory now holds.
Grows ==
  /\ registrations' = registrations \/ Appended
  /\ saved' = saved \/ saved' = Snapshot'

LEMMA AcceptedUpsert ==
  ASSUME TypeOK, NEW r \in Request, NEW requested, NEW resident \in Resident,
         Accepted(r, requested, resident),
         registrations' = Upserted(resident, form[r].email)
  PROVE  /\ registrations' = registrations \/ Appended
         /\ registrations' \in Seq(Registration)
         /\ \E i \in 1..Len(registrations') :
              /\ registrations'[i] = [resident |-> resident, email |-> form[r].email]
              /\ \A j \in 1..(i - 1) : registrations'[j].email # form[r].email
<1> DEFINE email == form[r].email
           entry == [resident |-> resident, email |-> email]
<1>1. email \in Email /\ entry \in Registration /\ registrations \in Seq(Registration)
  BY DEF TypeOK, Registration
<1>2. Registered(email) => resident = ResidentOf(email)
  BY DEF Accepted, Claims
<1>3. ~BoundElsewhere(resident, email)
  BY DEF Accepted
<1> HIDE DEF email
<1>4. CASE Registered(email) /\ Upserted(resident, email) = registrations
  <2>1. \E i \in 1..Len(registrations) :
          /\ registrations[i] = [resident |-> ResidentOf(email), email |-> email]
          /\ \A j \in 1..(i - 1) : registrations[j].email # email
    BY <1>1, <1>4, ResidentOfIsFirst
  <2> QED
    BY <1>1, <1>2, <1>4, <2>1 DEF email
<1>5. CASE /\ ~Registered(email)
           /\ Upserted(resident, email) = Append(registrations, entry)
           /\ \A i \in 1..Len(registrations) : registrations[i].resident # resident
  <2>1. registrations' = Append(registrations, entry)
    BY <1>5 DEF email
  <2>2. Appended
    BY <1>1, <1>5, <2>1 DEF Appended
  <2>3. registrations'[Len(registrations) + 1] = entry
    BY <1>1, <2>1
  <2>4. \A j \in 1..Len(registrations) : registrations'[j].email # email
    BY <1>1, <1>5, <2>1 DEF Registered
  <2>5. Len(registrations') = Len(registrations) + 1 /\ registrations' \in Seq(Registration)
    BY <1>1, <2>1
  <2> QED
    BY <1>1, <2>2, <2>3, <2>4, <2>5 DEF email
<1> QED
  BY <1>1, <1>2, <1>3, <1>4, <1>5, UpsertAppends

LEMMA StepGrows ==
  ASSUME TypeOK, [Next]_vars, ~Restart
  PROVE  Grows
<1>1. CASE UNCHANGED vars
  BY <1>1 DEF vars, authState, Grows, Snapshot
<1>2. ASSUME NEW r \in Request,
             PrepareRefused(r) \/ PrepareSaved(r) \/ PrepareUnsaved(r)
      PROVE  Grows
  BY <1>2 DEF PrepareRefused, PrepareSaved, PrepareUnsaved, Prepare, Save, WriteFails,
              authState, Grows
<1>3. ASSUME NEW r \in Request,
             Deliver(r) \/ DeliveryFails(r) \/ AnswerLost(r) \/ Rollback(r)
      PROVE  Grows
  BY <1>3 DEF Deliver, DeliveryFails, AnswerLost, Rollback, Save, WriteFails, authState,
              Grows
<1>4. ASSUME NEW r \in Request, RevokeSaved(r) \/ RevokeUnsaved(r)
      PROVE  Grows
  BY <1>4 DEF RevokeSaved, RevokeUnsaved, Revoke, Save, WriteFails, Grows
<1>5. ASSUME NEW r \in Request, NEW requested, NEW resident \in Resident,
             \/ VerifyWithoutGuide(r, requested, resident)
             \/ VerifySaved(r, requested, resident)
             \/ VerifyUnsaved(r, requested, resident)
      PROVE  Grows
  <2>1. /\ Accepted(r, requested, resident)
        /\ registrations' = Upserted(resident, form[r].email)
        /\ saved' = saved \/ saved' = Snapshot'
    BY <1>5 DEF VerifyWithoutGuide, VerifySaved, VerifyUnsaved, Verify, Save, WriteFails
  <2> QED
    BY <2>1, AcceptedUpsert DEF Grows
<1>6. ASSUME NEW resident \in Resident, NEW email \in Email, AdminCreate(resident, email)
      PROVE  Grows
  <2>1. [resident |-> resident, email |-> email] \in Registration
    BY DEF Registration
  <2>2. registrations \in Seq(Registration)
    BY DEF TypeOK
  <2>3. /\ registrations' = Append(registrations, [resident |-> resident, email |-> email])
        /\ \A i \in 1..Len(registrations) : registrations[i].resident # resident
        /\ saved' = Snapshot'
    BY <1>6, <2>2 DEF AdminCreate, Save
  <2> QED
    BY <2>1, <2>3 DEF Grows, Appended
<1>7. CASE VerifyRefused \/ Tick
  BY <1>7 DEF VerifyRefused, Tick, authState, Grows
<1> QED
  BY <1>1, <1>2, <1>3, <1>4, <1>5, <1>6, <1>7 DEF Next

----------------------------------------------------------------------------
(* Each part of the invariant is kept by every step *)

\* What can be written to the file is of the file's type.
LEMMA GrownTypes ==
  ASSUME TypeOK, Grows, challenges' \subseteq Request, consumed' \subseteq Request,
         sessions' \subseteq Request
  PROVE  /\ registrations' \in Seq(Registration)
         /\ saved' \in [registrations : Seq(Registration), challenges : SUBSET Request,
                        consumed : SUBSET Request, sessions : SUBSET Request]
<1>1. registrations' \in Seq(Registration)
  <2>1. registrations \in Seq(Registration)
    BY DEF TypeOK
  <2>2. CASE Appended
    BY <2>1, <2>2 DEF Appended
  <2> QED
    BY <2>1, <2>2 DEF Grows
<1>2. CASE saved' = saved
  BY <1>1, <1>2 DEF TypeOK
<1>3. CASE saved' = Snapshot'
  BY <1>1, <1>3 DEF Snapshot
<1> QED
  BY <1>1, <1>2, <1>3 DEF Grows

LEMMA TypeStep ==
  ASSUME TypeOK, FileBehind, [Next]_vars
  PROVE  TypeOK'
<1> USE DEF TypeOK
<1>1. CASE UNCHANGED vars
  BY <1>1 DEF vars, authState, history, bounds
<1>2. CASE Restart
  BY <1>2, EmailOtpConstants DEF Restart, FileBehind, Step, NoWindow
<1> SUFFICES ASSUME Next, ~Restart
             PROVE  TypeOK'
  BY <1>1, <1>2
<1>3. Grows
  BY StepGrows
<1>4. ASSUME NEW r \in Request,
             PrepareRefused(r) \/ Deliver(r) \/ DeliveryFails(r) \/ AnswerLost(r)
      PROVE  TypeOK'
  BY <1>4 DEF PrepareRefused, Deliver, DeliveryFails, AnswerLost, authState, history, bounds,
              Step
<1>5. ASSUME NEW r \in Request, PrepareSaved(r) \/ PrepareUnsaved(r)
      PROVE  TypeOK'
  <2>1. asked' \in [Email -> [start : Nat, count : {0, 1}]]
    <3>1. asked' = Counted(form[r].email) /\ ~Limited(form[r].email)
      BY <1>5 DEF PrepareSaved, PrepareUnsaved, Prepare, Refused
    <3>2. form[r].email \in Email /\ [start |-> now, count |-> 1] \in [start : Nat, count : {0, 1}]
      OBVIOUS
    <3>3. asked' = [asked EXCEPT ![form[r].email] = [start |-> now, count |-> 1]]
      BY <3>1, <3>2, CountedIsOne
    <3> QED
      BY <3>2, <3>3
  <2>2. /\ challenges' \subseteq Request /\ consumed' \subseteq challenges'
        /\ sessions' \subseteq Request
    BY <1>5 DEF PrepareSaved, PrepareUnsaved, Prepare, Replacing, Unexpired
  <2>3. /\ step' \in [Request -> Step]
        /\ at' \in [Request -> Nat]
        /\ sending' \subseteq Request
    <3>1. step' \in [Request -> Step]
      BY <1>5 DEF PrepareSaved, PrepareUnsaved, Step
    <3>2. at' = [at EXCEPT ![r] = now] /\ sending' = sending \cup {r}
      BY <1>5 DEF PrepareSaved, PrepareUnsaved, Prepare
    <3> QED
      BY <3>1, <3>2
  <2>4. UNCHANGED <<now, form, mailed, loggedIn, loggedOut, burnt, admin>>
    BY <1>5 DEF PrepareSaved, PrepareUnsaved, Prepare
  <2> QED
    BY <1>3, <2>1, <2>2, <2>3, <2>4, GrownTypes
<1>6. ASSUME NEW r \in Request, Rollback(r)
      PROVE  TypeOK'
  <2>1. asked' \in [Email -> [start : Nat, count : {0, 1}]]
    <3>1. asked' \in {asked, [asked EXCEPT ![form[r].email] = NoWindow]}
      BY <1>6 DEF Rollback, Forget
    <3>2. NoWindow \in [start : Nat, count : {0, 1}]
      BY DEF NoWindow
    <3> QED
      BY <3>1, <3>2
  <2>2. /\ challenges' \subseteq Request /\ consumed' \subseteq challenges'
        /\ sessions' \subseteq Request
    BY <1>6 DEF Rollback, Forget
  <2>3. step' \in [Request -> Step]
    BY <1>6 DEF Rollback, Step
  <2>4. UNCHANGED <<now, form, at, mailed, loggedIn, loggedOut, burnt, sending, admin>>
    BY <1>6 DEF Rollback, history
  <2> QED
    BY <1>3, <2>1, <2>2, <2>3, <2>4, GrownTypes
<1>7. ASSUME NEW r \in Request, RevokeSaved(r) \/ RevokeUnsaved(r)
      PROVE  TypeOK'
  <2>1. /\ sessions' \subseteq Request
        /\ UNCHANGED <<registrations, challenges, consumed, asked, now, step, form, at,
                       mailed, loggedIn, burnt, sending, admin>>
        /\ loggedOut' \subseteq Request
    BY <1>7 DEF RevokeSaved, RevokeUnsaved, Revoke
  <2> QED
    BY <1>3, <2>1, GrownTypes
<1>8. ASSUME NEW r \in Request, NEW requested, NEW resident \in Resident,
             \/ VerifyWithoutGuide(r, requested, resident)
             \/ VerifySaved(r, requested, resident)
             \/ VerifyUnsaved(r, requested, resident)
      PROVE  TypeOK'
  <2>1. /\ challenges' \subseteq Request /\ consumed' \subseteq challenges'
        /\ sessions' \subseteq Request
    BY <1>8 DEF VerifyWithoutGuide, VerifySaved, VerifyUnsaved, Verify, Accepted, Use,
                Unexpired
  <2>2. loggedIn' \in [Request -> Seq(Resident)] /\ burnt' \subseteq Request
    <3>1. Append(loggedIn[r], resident) \in Seq(Resident)
      OBVIOUS
    <3>2. loggedIn' \in {loggedIn, [loggedIn EXCEPT ![r] = Append(loggedIn[r], resident)]}
      BY <1>8 DEF VerifyWithoutGuide, VerifySaved, VerifyUnsaved, history
    <3>3. burnt' \in {burnt, burnt \cup {r}}
      BY <1>8 DEF VerifyWithoutGuide, VerifySaved, VerifyUnsaved, history
    <3> QED
      BY <3>1, <3>2, <3>3
  <2>3. UNCHANGED <<asked, now, step, form, at, mailed, loggedOut, sending, admin>>
    BY <1>8 DEF VerifyWithoutGuide, VerifySaved, VerifyUnsaved, Verify, history
  <2> QED
    BY <1>3, <2>1, <2>2, <2>3, GrownTypes
<1>9. ASSUME NEW resident \in Resident, NEW email \in Email, AdminCreate(resident, email)
      PROVE  TypeOK'
  BY <1>3, <1>9, GrownTypes DEF AdminCreate, history
<1>10. CASE VerifyRefused
  BY <1>10 DEF VerifyRefused, Unexpired, history, bounds
<1>11. CASE Tick
  BY <1>11 DEF Tick, authState, history, bounds
<1> QED
  BY <1>4, <1>5, <1>6, <1>7, <1>8, <1>9, <1>10, <1>11 DEF Next

LEMMA FileStep ==
  ASSUME Inv, [Next]_vars
  PROVE  FileBehind'
<1> USE DEF Inv, TypeOK, FileBehind
<1>1. CASE Restart
  BY <1>1 DEF Restart
<1>2. CASE ~Restart
  <2>1. Grows /\ TypeOK'
    BY <1>2, StepGrows, TypeStep
  <2>2. Len(registrations) <= Len(registrations')
    BY <2>1 DEF Grows, Appended
  <2>3. \A i \in 1..Len(registrations) : registrations'[i] = registrations[i]
    BY <2>1 DEF Grows, Appended
  <2>4. CASE saved' = saved
    BY <2>1, <2>2, <2>3, <2>4
  <2>5. CASE saved' = Snapshot'
    BY <2>1, <2>5 DEF Snapshot
  <2> QED
    BY <2>1, <2>4, <2>5 DEF Grows
<1> QED
  BY <1>1, <1>2

LEMMA OwnerStep ==
  ASSUME Inv, [Next]_vars
  PROVE  OneOwner'
<1> DEFINE Unique(regs) ==
      \A i, j \in 1..Len(regs) : regs[i].resident = regs[j].resident => i = j
<1>1. Unique(registrations) /\ Unique(saved.registrations)
  BY DEF Inv, TypeOK, OneOwner, States, Snapshot
<1>2. Unique(registrations') /\ Unique(saved'.registrations)
  <2>1. CASE Restart
    BY <1>1, <2>1 DEF Restart
  <2>2. CASE ~Restart
    <3>1. Grows
      BY <2>2, StepGrows DEF Inv
    <3>2. Unique(registrations')
      <4>1. CASE Appended
        BY <1>1, <4>1 DEF Inv, TypeOK, Appended
      <4> QED
        BY <1>1, <3>1, <4>1 DEF Grows
    <3> QED
      BY <1>1, <3>1, <3>2 DEF Grows, Snapshot
  <2> QED
    BY <2>1, <2>2
<1>3. registrations' \in Seq(Registration) /\ saved'.registrations \in Seq(Registration)
  BY TypeStep DEF Inv, TypeOK
<1> QED
  BY <1>2, <1>3 DEF OneOwner, States, Snapshot

\* Only a prepared request adds to the codes that can be used.
LEMMA OpenShrinks ==
  ASSUME TypeOK, [Next]_vars, ~Restart, NEW q \in Request,
         q \in Open(Snapshot)', q \notin Open(Snapshot)
  PROVE  /\ PrepareSaved(q) \/ PrepareUnsaved(q)
         /\ Open(Snapshot)' = Replacing(q)
<1> USE DEF Open, Snapshot
<1>1. ~UNCHANGED vars
  BY DEF vars, authState
<1>2. ASSUME NEW r \in Request, PrepareSaved(r) \/ PrepareUnsaved(r)
      PROVE  q = r /\ Open(Snapshot)' = Replacing(r)
  <2>1. challenges' = Replacing(r) /\ consumed' = {}
    BY <1>2 DEF PrepareSaved, PrepareUnsaved, Prepare
  <2> QED
    BY <2>1 DEF Replacing, Unexpired
<1>3. ASSUME NEW r \in Request,
             \/ PrepareRefused(r) \/ Deliver(r) \/ DeliveryFails(r) \/ AnswerLost(r)
             \/ RevokeSaved(r) \/ RevokeUnsaved(r)
      PROVE  FALSE
  BY <1>3 DEF PrepareRefused, Deliver, DeliveryFails, AnswerLost, RevokeSaved,
              RevokeUnsaved, Revoke, authState
<1>4. ASSUME NEW r \in Request, Rollback(r)
      PROVE  FALSE
  BY <1>4 DEF Rollback, Forget
<1>5. ASSUME NEW r \in Request, NEW requested, NEW resident \in Resident,
             \/ VerifyWithoutGuide(r, requested, resident)
             \/ VerifySaved(r, requested, resident)
             \/ VerifyUnsaved(r, requested, resident)
      PROVE  FALSE
  BY <1>5 DEF VerifyWithoutGuide, VerifySaved, VerifyUnsaved, Verify, Unexpired
<1>6. ASSUME NEW resident \in Resident, NEW email \in Email, AdminCreate(resident, email)
      PROVE  FALSE
  BY <1>6 DEF AdminCreate
<1>7. ~VerifyRefused /\ ~Tick
  BY DEF VerifyRefused, Unexpired, Tick, authState
<1>8. \E r \in Request : PrepareSaved(r) \/ PrepareUnsaved(r)
  BY <1>1, <1>3, <1>4, <1>5, <1>6, <1>7 DEF Next
<1> QED
  BY <1>2, <1>8

LEMMA FormFixed ==
  ASSUME [Next]_vars
  PROVE  form' = form
BY DEF Next, vars, PrepareRefused, PrepareSaved, PrepareUnsaved, Prepare, Deliver,
       DeliveryFails, AnswerLost, Rollback, RevokeSaved, RevokeUnsaved, Revoke,
       VerifyWithoutGuide, VerifySaved, VerifyUnsaved, Verify, AdminCreate, VerifyRefused,
       Tick, Restart

LEMMA CodeStep ==
  ASSUME Inv, [Next]_vars
  PROVE  OneOpenCode'
<1> DEFINE Single(codes) ==
      \A q, r \in codes : form[q].email = form[r].email => q = r
<1>1. Single(Open(Snapshot)) /\ Single(Open(saved))
  BY DEF Inv, OneOpenCode, States
<1>2. Single(Open(Snapshot)') /\ Single(Open(saved)')
  <2>1. CASE Restart
    BY <1>1, <2>1 DEF Restart, Open, Snapshot
  <2>2. CASE ~Restart
    <3>1. Single(Open(Snapshot)')
      <4>1. CASE Open(Snapshot)' \subseteq Open(Snapshot)
        BY <1>1, <4>1
      <4>2. CASE ~(Open(Snapshot)' \subseteq Open(Snapshot))
        <5>1. PICK q \in Request : q \in Open(Snapshot)' /\ q \notin Open(Snapshot)
          BY <4>2, TypeStep DEF Inv, TypeOK, Open, Snapshot
        <5>2. Open(Snapshot)' = Replacing(q)
          BY <2>2, <5>1, OpenShrinks DEF Inv
        <5> QED
          BY <1>1, <5>2 DEF Replacing, Unexpired, Open, Snapshot
      <4> QED
        BY <4>1, <4>2
    <3> QED
      BY <1>1, <2>2, <3>1, StepGrows DEF Inv, Grows, Open, Snapshot
  <2> QED
    BY <2>1, <2>2
<1> QED
  BY <1>2, FormFixed DEF OneOpenCode, States

LEMMA UntouchedStep ==
  ASSUME Inv, [Next]_vars
  PROVE  Untouched'
<1> SUFFICES ASSUME NEW q \in Request, step'[q] \in {"idle", "refused"}
             PROVE  Traceless(q)'
  BY DEF Untouched
<1> USE DEF Inv, TypeOK, FileBehind, Untouched, Traceless
<1>1. CASE UNCHANGED vars
  BY <1>1 DEF vars, authState, history
<1>2. CASE Restart
  <2>1. step[q] \in {"idle", "refused"}
    BY <1>2 DEF Restart
  <2> QED
    BY <1>2, <2>1 DEF Restart
<1>3. ASSUME NEW r \in Request, PrepareRefused(r)
      PROVE  Traceless(q)'
  BY <1>3 DEF PrepareRefused, authState, history
<1>4. ASSUME NEW r \in Request, PrepareSaved(r) \/ PrepareUnsaved(r)
      PROVE  Traceless(q)'
  <2>1. q # r /\ step[q] = step'[q]
    BY <1>4 DEF PrepareSaved, PrepareUnsaved
  <2>2. q \notin challenges' \cup sending' \cup mailed' /\ loggedIn'[q] = <<>>
    BY <1>4, <2>1 DEF PrepareSaved, PrepareUnsaved, Prepare, Replacing, Unexpired
  <2>3. saved'.challenges \in {saved.challenges, challenges'}
    BY <1>4 DEF PrepareSaved, PrepareUnsaved, Save, WriteFails, Snapshot
  <2> QED
    BY <2>1, <2>2, <2>3
<1>5. ASSUME NEW r \in Request, Deliver(r) \/ DeliveryFails(r) \/ AnswerLost(r)
      PROVE  Traceless(q)'
  <2>1. q # r /\ step[q] = step'[q]
    BY <1>5 DEF Deliver, DeliveryFails, AnswerLost
  <2> QED
    BY <1>5, <2>1 DEF Deliver, DeliveryFails, AnswerLost, authState, history
<1>6. ASSUME NEW r \in Request, Rollback(r)
      PROVE  Traceless(q)'
  <2>1. q # r /\ step[q] = step'[q]
    BY <1>6 DEF Rollback
  <2>2. challenges' \subseteq challenges /\ saved'.challenges \in {saved.challenges, challenges'}
    BY <1>6 DEF Rollback, Forget, Save, WriteFails, Snapshot
  <2> QED
    BY <1>6, <2>1, <2>2 DEF Rollback, history
<1>7. ASSUME NEW r \in Request, RevokeSaved(r) \/ RevokeUnsaved(r)
      PROVE  Traceless(q)'
  BY <1>7 DEF RevokeSaved, RevokeUnsaved, Revoke, Save, WriteFails, Snapshot
<1>8. ASSUME NEW r \in Request, NEW requested, NEW resident \in Resident,
             \/ VerifyWithoutGuide(r, requested, resident)
             \/ VerifySaved(r, requested, resident)
             \/ VerifyUnsaved(r, requested, resident)
      PROVE  Traceless(q)'
  <2>1. /\ r \in challenges
        /\ challenges' \subseteq challenges
        /\ saved'.challenges \in {saved.challenges, challenges'}
        /\ UNCHANGED <<step, mailed, sending>>
        /\ loggedIn' \in {loggedIn, [loggedIn EXCEPT ![r] = Append(loggedIn[r], resident)]}
    BY <1>8 DEF VerifyWithoutGuide, VerifySaved, VerifyUnsaved, Verify, Accepted,
                Unexpired, Save, WriteFails, Snapshot, history
  <2> QED
    BY <2>1
<1>9. ASSUME NEW resident \in Resident, NEW email \in Email, AdminCreate(resident, email)
      PROVE  Traceless(q)'
  BY <1>9 DEF AdminCreate, Save, Snapshot, history
<1>10. CASE VerifyRefused \/ Tick
  BY <1>10 DEF VerifyRefused, Unexpired, Tick, authState, history
<1> QED
  BY <1>1, <1>2, <1>3, <1>4, <1>5, <1>6, <1>7, <1>8, <1>9, <1>10 DEF Next

\* The sign-in of a code stays as it is while the code cannot be used again.
LEMMA SignInKept ==
  ASSUME Inv, TypeOK', Grows, form' = form,
         NEW r \in Request, SignedIn(r), loggedIn'[r] = loggedIn[r],
         r \notin Open(Snapshot)',
         r \in sessions' => r \in sessions \/ saved' = Snapshot'
  PROVE  SignedIn(r)'
<1> USE DEF Inv, TypeOK, FileBehind
<1>1. r \notin Open(saved)'
  BY DEF Grows, SignedIn, Open, Snapshot
<1>2. r \in sessions' => r \in saved'.sessions
  BY DEF Grows, SignedIn, Snapshot
<1>3. \A i \in 1..Len(saved.registrations) :
        /\ i \in 1..Len(saved'.registrations)
        /\ saved'.registrations[i] = saved.registrations[i]
  <2>1. \A i \in 1..Len(registrations) :
          /\ i \in 1..Len(registrations')
          /\ registrations'[i] = registrations[i]
    <3>1. CASE Appended
      BY <3>1 DEF Appended
    <3> QED
      BY <3>1 DEF Grows
  <2>2. CASE saved' = Snapshot'
    <3>1. saved'.registrations = registrations'
      BY <2>2 DEF Snapshot
    <3>2. \A i \in 1..Len(saved.registrations) : i \in 1..Len(registrations)
      OBVIOUS
    <3> QED
      BY <2>1, <3>1, <3>2
  <2> QED
    BY <2>2 DEF Grows
<1>4. PICK i \in 1..Len(saved.registrations) :
        /\ saved.registrations[i] = [resident |-> loggedIn[r][1], email |-> form[r].email]
        /\ \A j \in 1..(i - 1) : saved.registrations[j].email # form[r].email
  BY DEF SignedIn
<1>5. \A j \in 1..(i - 1) : j \in 1..Len(saved.registrations)
  OBVIOUS
<1>6. /\ i \in 1..Len(saved'.registrations)
      /\ saved'.registrations[i] =
           [resident |-> loggedIn'[r][1], email |-> form'[r].email]
      /\ \A j \in 1..(i - 1) : saved'.registrations[j].email # form'[r].email
  BY <1>3, <1>4, <1>5
<1> QED
  BY <1>1, <1>2, <1>6 DEF SignedIn

LEMMA SignInStep ==
  ASSUME Inv, [Next]_vars
  PROVE  SignIns'
<1> SUFFICES ASSUME NEW q \in Request, loggedIn'[q] # <<>>
             PROVE  SignedIn(q)'
  BY DEF SignIns
<1> USE DEF Inv
<1>1. CASE Restart
  <2>1. SignedIn(q)
    BY <1>1 DEF Restart, SignIns
  <2> QED
    BY <1>1, <2>1 DEF Restart, SignedIn, Open, Snapshot
<1> SUFFICES ASSUME ~Restart
             PROVE  SignedIn(q)'
  BY <1>1
<1>2. Grows /\ TypeOK' /\ form' = form
  BY StepGrows, TypeStep, FormFixed
<1>3. ASSUME SignedIn(q), loggedIn'[q] = loggedIn[q], loggedIn[q] # <<>>,
             q \in sessions' => q \in sessions \/ saved' = Snapshot'
      PROVE  SignedIn(q)'
  <2>1. q \notin Open(Snapshot)'
    <3> SUFFICES ASSUME q \in Open(Snapshot)'
                 PROVE  FALSE
      OBVIOUS
    <3>1. PrepareSaved(q) \/ PrepareUnsaved(q)
      BY <1>3, OpenShrinks DEF SignedIn
    <3> QED
      BY <1>3, <3>1 DEF PrepareSaved, PrepareUnsaved, Prepare, Untouched, Traceless
  <2> QED
    BY <1>2, <1>3, <2>1, SignInKept
<1>4. ASSUME UNCHANGED loggedIn, q \in sessions' => q \in sessions \/ saved' = Snapshot'
      PROVE  SignedIn(q)'
  BY <1>3, <1>4 DEF SignIns
<1>5. CASE UNCHANGED vars
  BY <1>4, <1>5 DEF vars, authState, history
<1>6. ASSUME NEW r \in Request,
             \/ PrepareRefused(r) \/ PrepareSaved(r) \/ PrepareUnsaved(r)
             \/ Deliver(r) \/ DeliveryFails(r) \/ AnswerLost(r) \/ Rollback(r)
             \/ RevokeSaved(r) \/ RevokeUnsaved(r)
      PROVE  SignedIn(q)'
  <2>1. UNCHANGED loggedIn /\ sessions' \subseteq sessions
    BY <1>6 DEF PrepareRefused, PrepareSaved, PrepareUnsaved, Prepare, Deliver,
                DeliveryFails, AnswerLost, Rollback, RevokeSaved, RevokeUnsaved, Revoke,
                authState, history
  <2> QED
    BY <1>4, <2>1
<1>7. ASSUME NEW r \in Request, NEW requested, NEW resident \in Resident,
             VerifyWithoutGuide(r, requested, resident)
      PROVE  SignedIn(q)'
  BY <1>4, <1>7 DEF VerifyWithoutGuide, history
<1>8. ASSUME NEW r \in Request, NEW requested, NEW resident \in Resident,
             VerifyUnsaved(r, requested, resident)
      PROVE  SignedIn(q)'
  <2>1. r \in Open(Snapshot) /\ sessions' = sessions \cup {r} /\ UNCHANGED loggedIn
    BY <1>8 DEF VerifyUnsaved, Verify, Accepted, Unexpired, Open, Snapshot
  <2>2. loggedIn[q] # <<>> /\ SignedIn(q)
    BY <2>1 DEF SignIns
  <2>3. q # r
    BY <2>1, <2>2 DEF SignedIn
  <2> QED
    BY <1>4, <2>1, <2>3
<1>9. ASSUME NEW r \in Request, NEW requested, NEW resident \in Resident,
             VerifySaved(r, requested, resident)
      PROVE  SignedIn(q)'
  <2>1. /\ Accepted(r, requested, resident)
        /\ registrations' = Upserted(resident, form[r].email)
        /\ challenges' = Unexpired /\ consumed' = {r}
        /\ saved' = Snapshot'
        /\ loggedIn' = [loggedIn EXCEPT ![r] = Append(@, resident)]
    BY <1>9 DEF VerifySaved, Verify, Use, Save
  <2>2. CASE q # r
    <3>1. loggedIn'[q] = loggedIn[q]
      BY <2>1, <2>2 DEF TypeOK
    <3> QED
      BY <1>3, <2>1, <3>1 DEF SignIns
  <2>3. CASE q = r
    <3>1. r \in Open(Snapshot)
      BY <2>1 DEF Accepted, Unexpired, Open, Snapshot
    <3>2. loggedIn[r] = <<>>
      BY <3>1 DEF SignIns, SignedIn
    <3>3. loggedIn'[r] = <<resident>>
      BY <2>1, <3>2 DEF TypeOK
    <3>4. r \notin Open(Snapshot)' /\ r \notin Open(saved)'
      BY <2>1 DEF Open, Snapshot
    <3>5. \E i \in 1..Len(registrations') :
            /\ registrations'[i] = [resident |-> resident, email |-> form[r].email]
            /\ \A j \in 1..(i - 1) : registrations'[j].email # form[r].email
      BY <2>1, AcceptedUpsert
    <3>6. saved'.registrations = registrations' /\ saved'.sessions = sessions'
      BY <2>1 DEF Snapshot
    <3>7. Len(loggedIn'[r]) = 1 /\ loggedIn'[r][1] = resident
      BY <3>3
    <3> QED
      BY <1>2, <2>3, <3>4, <3>5, <3>6, <3>7 DEF SignedIn
  <2> QED
    BY <2>2, <2>3
<1>10. ASSUME NEW resident \in Resident, NEW email \in Email, AdminCreate(resident, email)
       PROVE  SignedIn(q)'
  BY <1>4, <1>10 DEF AdminCreate, history
<1>11. CASE VerifyRefused \/ Tick
  BY <1>4, <1>11 DEF VerifyRefused, Tick, authState, history
<1> QED
  BY <1>5, <1>6, <1>7, <1>8, <1>9, <1>10, <1>11 DEF Next

LEMMA SignOutStep ==
  ASSUME Inv, [Next]_vars
  PROVE  SignOuts'
<1> DEFINE Out(r) == r \notin sessions /\ r \notin saved.sessions /\ loggedIn[r] # <<>>
<1> SUFFICES ASSUME NEW q \in loggedOut'
             PROVE  Out(q)'
  BY DEF SignOuts, LogoutFinal
<1> USE DEF Inv, TypeOK
<1>1. q \in loggedOut => Out(q)
  BY DEF SignOuts, LogoutFinal
<1>2. CASE UNCHANGED vars
  BY <1>1, <1>2 DEF vars, authState, history
<1>3. ASSUME NEW r \in Request, RevokeSaved(r)
      PROVE  Out(q)'
  <2>1. q = r \/ q \in loggedOut
    BY <1>3 DEF RevokeSaved
  <2> QED
    BY <1>1, <1>3, <2>1 DEF RevokeSaved, Revoke, Save, Snapshot
<1>4. ASSUME NEW r \in Request,
             \/ PrepareRefused(r) \/ PrepareSaved(r) \/ PrepareUnsaved(r)
             \/ Deliver(r) \/ DeliveryFails(r) \/ AnswerLost(r) \/ Rollback(r)
             \/ RevokeUnsaved(r)
      PROVE  Out(q)'
  BY <1>1, <1>4 DEF PrepareRefused, PrepareSaved, PrepareUnsaved, Prepare, Deliver,
     DeliveryFails, AnswerLost, Rollback, RevokeUnsaved, Revoke, Save, WriteFails, Snapshot,
     authState, history
<1>5. ASSUME NEW r \in Request, NEW requested, NEW resident \in Resident,
             VerifyWithoutGuide(r, requested, resident)
      PROVE  Out(q)'
  BY <1>1, <1>5 DEF VerifyWithoutGuide, WriteFails, history
<1>6. ASSUME NEW r \in Request, NEW requested, NEW resident \in Resident,
             VerifySaved(r, requested, resident) \/ VerifyUnsaved(r, requested, resident)
      PROVE  Out(q)'
  <2>1. /\ r \in Open(Snapshot)
        /\ sessions' = sessions \cup {r}
        /\ saved'.sessions \in {saved.sessions, sessions'}
        /\ loggedOut' = loggedOut
        /\ loggedIn' \in {loggedIn, [loggedIn EXCEPT ![r] = Append(loggedIn[r], resident)]}
    BY <1>6 DEF VerifySaved, VerifyUnsaved, Verify, Accepted, Unexpired, Save, WriteFails,
                Open, Snapshot
  <2>2. q # r
    BY <1>1, <2>1 DEF SignIns, SignedIn
  <2> QED
    BY <1>1, <2>1, <2>2
<1>7. ASSUME NEW resident \in Resident, NEW email \in Email, AdminCreate(resident, email)
      PROVE  Out(q)'
  BY <1>1, <1>7 DEF AdminCreate, Save, Snapshot, history
<1>8. CASE VerifyRefused \/ Tick \/ Restart
  BY <1>1, <1>8 DEF VerifyRefused, Tick, Restart, authState, history
<1> QED
  BY <1>2, <1>3, <1>4, <1>5, <1>6, <1>7, <1>8 DEF Next

LEMMA LimitStep ==
  ASSUME Inv, [Next]_vars
  PROVE  Limits'
<1> USE DEF Inv, TypeOK, Limits
<1>1. CASE UNCHANGED vars
  BY <1>1 DEF vars, authState, history
<1>2. ASSUME NEW r \in Request,
             \/ PrepareRefused(r) \/ Deliver(r) \/ DeliveryFails(r) \/ AnswerLost(r)
             \/ RevokeSaved(r) \/ RevokeUnsaved(r)
      PROVE  Limits'
  <2>1. UNCHANGED <<challenges, asked, now, form, at, sending>>
    BY <1>2 DEF PrepareRefused, Deliver, DeliveryFails, AnswerLost, RevokeSaved,
                RevokeUnsaved, Revoke, authState, history
  <2>2. \A q \in Request :
          /\ step'[q] \in {"sending", "failing"} => step[q] = "sending" \/ step'[q] = step[q]
          /\ step'[q] \in {"sending", "sent"} => step[q] \in {"sending", "sent"}
    BY <1>2 DEF PrepareRefused, Deliver, DeliveryFails, AnswerLost, RevokeSaved,
                RevokeUnsaved, Revoke
  <2> QED
    BY <2>1, <2>2
<1>3. ASSUME NEW r \in Request, PrepareSaved(r) \/ PrepareUnsaved(r)
      PROVE  Limits'
  <2>1. /\ ~Refused(r)
        /\ asked' = Counted(form[r].email)
        /\ challenges' = Replacing(r)
        /\ at' = [at EXCEPT ![r] = now]
        /\ sending' = sending \cup {r}
        /\ UNCHANGED <<now, form>>
        /\ step' \in {[step EXCEPT ![r] = "sending"], [step EXCEPT ![r] = "unsaved"]}
        /\ r \notin sending
    BY <1>3 DEF PrepareSaved, PrepareUnsaved, Prepare, Untouched, Traceless
  <2>2. asked' = [asked EXCEPT ![form[r].email] = [start |-> now, count |-> 1]]
    BY <2>1, CountedIsOne DEF Refused
  <2>3. \A q \in challenges' \ {r} : q \in challenges /\ form[q].email # form[r].email
    BY <2>1 DEF Replacing, Unexpired
  <2>4. ASSUME NEW q \in sending, step[q] \in {"sending", "sent"}, now - at[q] <= Window
        PROVE  form[q].email # form[r].email
    <3> SUFFICES ASSUME form[q].email = form[r].email
                 PROVE  FALSE
      OBVIOUS
    <3>1. asked[form[r].email] = [start |-> at[q], count |-> 1]
      BY <2>4
    <3>2. Limited(form[r].email)
      BY <2>4, <3>1, WindowLimits
    <3> QED
      BY <2>1, <3>2 DEF Refused
  <2>5. ASSUME NEW q \in sending', step'[q] \in {"sending", "sent"},
               now - at'[q] <= Window
        PROVE  /\ asked'[form[q].email] = [start |-> at'[q], count |-> 1]
               /\ \A x \in (sending' \cap challenges') \ {q} :
                    form[x].email # form[q].email
    <3>1. CASE q = r
      BY <2>1, <2>2, <2>3, <3>1
    <3>2. CASE q # r
      <4>1. /\ q \in sending /\ step[q] \in {"sending", "sent"}
            /\ at'[q] = at[q] /\ now - at[q] <= Window
        BY <2>1, <2>5, <3>2
      <4>2. form[q].email # form[r].email
        BY <2>4, <4>1
      <4>3. asked'[form[q].email] = [start |-> at'[q], count |-> 1]
        BY <2>2, <4>1, <4>2
      <4>4. \A x \in (sending' \cap challenges') \ {q} : form[x].email # form[q].email
        BY <2>1, <2>3, <4>1, <4>2
      <4> QED
        BY <4>3, <4>4
    <3> QED
      BY <3>1, <3>2
  <2>6. /\ \A q \in Request : at'[q] <= now
        /\ \A q \in Request : step'[q] \in {"sending", "failing"} => q \in sending'
    BY <2>1
  <2> QED
    BY <2>1, <2>5, <2>6
<1>4. ASSUME NEW r \in Request, Rollback(r)
      PROVE  Limits'
  <2>1. /\ step[r] = "failing" /\ step' = [step EXCEPT ![r] = "failed"]
        /\ challenges' \subseteq challenges
        /\ \/ asked' = asked
           \/ r \in challenges /\ asked' = [asked EXCEPT ![form[r].email] = NoWindow]
        /\ UNCHANGED <<now, form, at, sending>>
    BY <1>4 DEF Rollback, Forget, history
  <2>2. r \in sending
    BY <2>1
  <2>3. ASSUME NEW q \in sending', step'[q] \in {"sending", "sent"},
               now - at[q] <= Window
        PROVE  /\ asked'[form[q].email] = [start |-> at[q], count |-> 1]
               /\ \A x \in (sending' \cap challenges') \ {q} :
                    form[x].email # form[q].email
    <3>1. q \in sending /\ q # r /\ step[q] \in {"sending", "sent"}
      BY <2>1, <2>3
    <3>2. /\ asked[form[q].email] = [start |-> at[q], count |-> 1]
          /\ \A x \in (sending \cap challenges) \ {q} : form[x].email # form[q].email
      BY <2>3, <3>1
    <3> QED
      BY <2>1, <2>2, <3>1, <3>2
  <2> QED
    BY <2>1, <2>3
<1>5. ASSUME NEW r \in Request, NEW requested, NEW resident \in Resident,
             \/ VerifyWithoutGuide(r, requested, resident)
             \/ VerifySaved(r, requested, resident)
             \/ VerifyUnsaved(r, requested, resident)
      PROVE  Limits'
  <2>1. challenges' \subseteq challenges /\ UNCHANGED <<asked, now, step, form, at, sending>>
    BY <1>5 DEF VerifyWithoutGuide, VerifySaved, VerifyUnsaved, Verify, Unexpired, history
  <2> QED
    BY <2>1
<1>6. ASSUME NEW resident \in Resident, NEW email \in Email, AdminCreate(resident, email)
      PROVE  Limits'
  BY <1>6 DEF AdminCreate, history
<1>7. CASE VerifyRefused
  BY <1>7 DEF VerifyRefused, Unexpired, history
<1>8. CASE Tick
  <2>1. now' = now + 1 /\ UNCHANGED <<challenges, asked, step, form, at, sending>>
    BY <1>8 DEF Tick, authState, history
  <2>2. \A q \in Request : now' - at[q] <= Window => now - at[q] <= Window
    BY <2>1, EmailOtpConstants
  <2>3. \A q \in Request : at[q] <= now'
    BY <2>1
  <2> QED
    BY <2>1, <2>2, <2>3
<1>9. CASE Restart
  BY <1>9 DEF Restart
<1> QED
  BY <1>1, <1>2, <1>3, <1>4, <1>5, <1>6, <1>7, <1>8, <1>9 DEF Next

LEMMA ChargeStep ==
  ASSUME Inv, [Next]_vars
  PROVE  Charges'
<1> USE DEF Inv, TypeOK, Charges
<1> DEFINE Charged(e) == asked[e].count = 1 /\ now - asked[e].start <= Window
           Held(e) == \E r \in sending : Holds(r, e)
<1>0. form' = form /\ TypeOK'
  BY FormFixed, TypeStep
<1>1. CASE UNCHANGED vars
  BY <1>1 DEF vars, authState, history, Holds
<1>2. ASSUME NEW r \in Request,
             \/ PrepareRefused(r) \/ Deliver(r) \/ DeliveryFails(r) \/ AnswerLost(r)
             \/ RevokeSaved(r) \/ RevokeUnsaved(r)
      PROVE  Charges'
  <2>1. /\ UNCHANGED <<challenges, consumed, asked, now, form, at, sending>>
        /\ mailed \subseteq mailed'
        /\ \A q \in Request : step[q] # "failed" => step'[q] # "failed"
    BY <1>2 DEF PrepareRefused, Deliver, DeliveryFails, AnswerLost, RevokeSaved,
                RevokeUnsaved, Revoke, authState, history
  <2>2. saved'.consumed \in {saved.consumed, consumed}
    BY <1>2 DEF PrepareRefused, Deliver, DeliveryFails, AnswerLost, RevokeSaved,
                RevokeUnsaved, Revoke, authState, Save, WriteFails, Snapshot
  <2> QED
    BY <2>1, <2>2 DEF Holds
<1>3. ASSUME NEW r \in Request, PrepareSaved(r) \/ PrepareUnsaved(r)
      PROVE  Charges'
  <2>1. /\ ~Refused(r)
        /\ asked' = Counted(form[r].email)
        /\ challenges' = Replacing(r) /\ consumed' = {}
        /\ at' = [at EXCEPT ![r] = now]
        /\ sending' = sending \cup {r}
        /\ UNCHANGED <<now, form, mailed>>
        /\ step' \in {[step EXCEPT ![r] = "sending"], [step EXCEPT ![r] = "unsaved"]}
        /\ r \notin sending
        /\ saved'.consumed \in {saved.consumed, {}}
    BY <1>3 DEF PrepareSaved, PrepareUnsaved, Prepare, Untouched, Traceless, Save, WriteFails,
                Snapshot
  <2>2. asked' = [asked EXCEPT ![form[r].email] = [start |-> now, count |-> 1]]
    BY <2>1, CountedIsOne DEF Refused
  <2>3. ASSUME NEW e \in Email, Charged(e)'
        PROVE  Held(e)'
    <3>1. CASE e = form[r].email
      <4>1. r \in sending' /\ r \in challenges' /\ step'[r] # "failed"
        BY <2>1 DEF Replacing
      <4>2. asked'[e].start = at'[r]
        BY <2>1, <2>2, <3>1
      <4> QED
        BY <2>1, <3>1, <4>1, <4>2 DEF Holds
    <3>2. CASE e # form[r].email
      <4>1. asked'[e] = asked[e] /\ Charged(e)
        BY <2>1, <2>2, <2>3, <3>2
      <4>2. PICK q \in sending : Holds(q, e)
        BY <4>1
      <4>3. q # r /\ at'[q] = at[q] /\ step'[q] = step[q] /\ q \in sending'
        BY <2>1, <4>2
      <4>4. q \in mailed \/ q \in challenges'
        <5> SUFFICES ASSUME q \notin mailed
                     PROVE  q \in challenges'
          OBVIOUS
        <5>1. q \in challenges \ consumed
          BY <4>2 DEF Holds
        <5>2. Expires(q) >= now
          BY <4>1, <4>2, CodesOutliveTheWindow, EmailOtpConstants DEF Holds, Expires
        <5> QED
          BY <2>1, <3>2, <4>2, <5>1, <5>2 DEF Replacing, Unexpired, Holds
      <4> QED
        BY <2>1, <4>1, <4>2, <4>3, <4>4 DEF Holds
    <3> QED
      BY <3>1, <3>2
  <2> QED
    BY <2>1, <2>3
<1>4. ASSUME NEW r \in Request, Rollback(r)
      PROVE  Charges'
  <2>1. /\ step' = [step EXCEPT ![r] = "failed"]
        /\ consumed' \subseteq consumed
        /\ UNCHANGED <<now, form, at, mailed, sending>>
        /\ saved'.consumed \in {saved.consumed, consumed'}
    BY <1>4 DEF Rollback, Forget, Save, WriteFails, Snapshot, history
  <2>2. ASSUME NEW e \in Email, Charged(e)'
        PROVE  Held(e)'
    <3>1. asked'[e] = asked[e] /\ (r \in challenges => e # form[r].email)
      BY <1>4, <2>2 DEF Rollback, Forget, NoWindow
    <3>2. PICK q \in sending : Holds(q, e)
      BY <2>1, <2>2, <3>1
    <3>3. q \in mailed \/ (q \in challenges /\ q # r /\ step[q] # "failed")
      BY <3>1, <3>2 DEF Holds
    <3>4. q # r => (q \in challenges => q \in challenges')
      BY <1>4 DEF Rollback, Forget
    <3> QED
      BY <2>1, <3>1, <3>2, <3>3, <3>4 DEF Holds
  <2> QED
    BY <2>1, <2>2
<1>5. ASSUME challenges' = Unexpired, consumed' \subseteq mailed,
             saved'.consumed \in {saved.consumed, consumed'},
             UNCHANGED <<asked, now, step, form, at, mailed, sending>>
      PROVE  Charges'
  <2>1. ASSUME NEW e \in Email, Charged(e)
        PROVE  Held(e)'
    <3>1. PICK q \in sending : Holds(q, e)
      BY <2>1
    <3>2. q \in mailed \/ q \in challenges'
      <4> SUFFICES ASSUME q \notin mailed
                   PROVE  q \in challenges'
        OBVIOUS
      <4>1. q \in challenges \ consumed
        BY <3>1 DEF Holds
      <4>2. Expires(q) >= now
        BY <2>1, <3>1, CodesOutliveTheWindow, EmailOtpConstants DEF Holds, Expires
      <4> QED
        BY <1>5, <4>1, <4>2 DEF Unexpired
    <3> QED
      BY <1>5, <3>1, <3>2 DEF Holds
  <2> QED
    BY <1>5, <2>1
<1>6. ASSUME NEW r \in Request, NEW requested, NEW resident \in Resident,
             \/ VerifyWithoutGuide(r, requested, resident)
             \/ VerifySaved(r, requested, resident)
             \/ VerifyUnsaved(r, requested, resident)
      PROVE  Charges'
  <2>1. /\ challenges' = Unexpired
        /\ consumed' \subseteq mailed
        /\ saved'.consumed \in {saved.consumed, consumed'}
        /\ UNCHANGED <<asked, now, step, form, at, mailed, sending>>
    BY <1>6 DEF VerifyWithoutGuide, VerifySaved, VerifyUnsaved, Verify, Accepted, Use,
                Save, WriteFails, Snapshot, history
  <2> QED
    BY <1>5, <2>1
<1>7. ASSUME NEW resident \in Resident, NEW email \in Email, AdminCreate(resident, email)
      PROVE  Charges'
  BY <1>7 DEF AdminCreate, Save, Snapshot, history, Holds
<1>8. CASE VerifyRefused
  BY <1>5, <1>8 DEF VerifyRefused, history
<1>9. CASE Tick
  <2>1. now' = now + 1 /\ UNCHANGED <<challenges, consumed, saved, asked, step, form, at,
                                      mailed, sending>>
    BY <1>9 DEF Tick, authState, history
  <2>2. \A e \in Email : Charged(e)' => Charged(e)
    BY <2>1, EmailOtpConstants
  <2> QED
    BY <2>1, <2>2 DEF Holds
<1>10. CASE Restart
  BY <1>10 DEF Restart, NoWindow
<1> QED
  BY <1>1, <1>2, <1>3, <1>4, <1>6, <1>7, <1>8, <1>9, <1>10 DEF Next

\* A code that is good after a step that prepares nothing was good before it.
LEMMA GoodBefore ==
  ASSUME TypeOK, NEW r \in Request, Good(r)',
         UNCHANGED <<form, at>>, now <= now', now' \in Nat,
         loggedIn'[r] = <<>> => loggedIn[r] = <<>>, burnt \subseteq burnt',
         step'[r] \in {"sending", "sent"} => step[r] \in {"sending", "sent"},
         \A q \in Request :
           step[q] \notin {"idle", "refused"} => step'[q] \notin {"idle", "refused"}
  PROVE  Good(r)
<1>1. step[r] \in {"sending", "sent"} /\ loggedIn[r] = <<>> /\ r \notin burnt
  BY DEF Good
<1>2. Expires(r) >= now
  BY EmailOtpConstants DEF Good, Expires, TypeOK
<1>3. ASSUME NEW q \in Request, Later(q, r)
      PROVE  Later(q, r)'
  BY <1>3 DEF Later
<1> QED
  BY <1>1, <1>2, <1>3 DEF Good

LEMMA GoodStep ==
  ASSUME Inv, [Next]_vars
  PROVE  Codes'
<1> SUFFICES ASSUME NEW r \in Request, Good(r)'
             PROVE  r \in Open(Snapshot)' \cap Open(saved)'
  BY DEF Codes
<1> USE DEF Inv, TypeOK, Open, Snapshot
<1>1. Good(r) => r \in Open(Snapshot) \cap Open(saved)
  BY DEF Codes
<1>2. form' = form /\ TypeOK'
  BY FormFixed, TypeStep
<1>3. ASSUME challenges \ consumed \subseteq challenges' \ consumed',
             saved' = saved \/ saved' = Snapshot',
             Good(r)
      PROVE  r \in Open(Snapshot)' \cap Open(saved)'
  BY <1>1, <1>3
<1>4. CASE UNCHANGED vars
  <2>1. UNCHANGED <<now, form, at, loggedIn, burnt, step>>
    BY <1>4 DEF vars, history
  <2>2. \A q \in Request : step'[q] = step[q]
    BY <2>1
  <2>3. Good(r)
    BY <2>1, <2>2, GoodBefore
  <2> QED
    BY <1>3, <1>4, <2>3 DEF vars, authState
<1>5. ASSUME NEW p \in Request,
             \/ PrepareRefused(p) \/ Deliver(p) \/ DeliveryFails(p) \/ AnswerLost(p)
             \/ RevokeSaved(p) \/ RevokeUnsaved(p)
      PROVE  r \in Open(Snapshot)' \cap Open(saved)'
  <2>1. /\ UNCHANGED <<challenges, consumed, now, form, at, loggedIn, burnt>>
        /\ saved' = saved \/ saved' = Snapshot'
        /\ step'[r] \in {"sending", "sent"} => step[r] \in {"sending", "sent"}
        /\ \A q \in Request :
             step[q] \notin {"idle", "refused"} => step'[q] \notin {"idle", "refused"}
    BY <1>5 DEF PrepareRefused, Deliver, DeliveryFails, AnswerLost, RevokeSaved,
                RevokeUnsaved, Revoke, Save, WriteFails, authState, history
  <2>2. Good(r)
    BY <2>1, GoodBefore
  <2> QED
    BY <1>3, <2>1, <2>2
<1>6. ASSUME NEW p \in Request, PrepareSaved(p) \/ PrepareUnsaved(p)
      PROVE  r \in Open(Snapshot)' \cap Open(saved)'
  <2>1. /\ challenges' = Replacing(p) /\ consumed' = {}
        /\ at' = [at EXCEPT ![p] = now]
        /\ saved' = saved \/ saved' = Snapshot'
        /\ UNCHANGED <<now, form, loggedIn, burnt>>
        /\ step' \in {[step EXCEPT ![p] = "sending"], [step EXCEPT ![p] = "unsaved"]}
        /\ step[p] = "idle"
    BY <1>6 DEF PrepareSaved, PrepareUnsaved, Prepare, Save, WriteFails
  <2>2. CASE p = r
    <3>1. saved' = Snapshot'
      BY <1>6, <2>2 DEF PrepareSaved, PrepareUnsaved, Good, Save
    <3> QED
      BY <2>1, <2>2, <3>1 DEF Replacing, Unexpired
  <2>3. CASE p # r
    <3>1. form[p].email # form[r].email
      <4>1. ~Later(p, r)'
        BY <2>3 DEF Good
      <4>2. step'[p] \notin {"idle", "refused"} /\ at'[p] = now /\ at'[r] = at[r]
        BY <2>1, <2>3
      <4>3. at'[p] >= at'[r]
        BY <4>2 DEF Limits
      <4> QED
        BY <1>2, <4>1, <4>2, <4>3 DEF Later
    <3>2. Good(r)
      <4>1. /\ step'[r] = step[r] /\ Expires(r)' = Expires(r)
            /\ loggedIn[r] = <<>> /\ r \notin burnt
        BY <2>1, <2>3 DEF Good, Expires
      <4>2. \A q \in Request \ {r} : Later(q, r) => Later(q, r)'
        BY <2>1, <2>3 DEF Later
      <4> QED
        BY <2>1, <4>1, <4>2 DEF Good
    <3>3. r \in Unexpired
      BY <1>1, <3>2 DEF Unexpired, Good
    <3> QED
      BY <1>1, <2>1, <3>1, <3>2, <3>3 DEF Replacing
  <2> QED
    BY <2>2, <2>3
<1>7. ASSUME NEW p \in Request, Rollback(p)
      PROVE  r \in Open(Snapshot)' \cap Open(saved)'
  <2>1. /\ step[p] = "failing" /\ step' = [step EXCEPT ![p] = "failed"]
        /\ saved' = saved \/ saved' = Snapshot'
        /\ UNCHANGED <<now, form, at, loggedIn, burnt>>
    BY <1>7 DEF Rollback, Save, WriteFails, history
  <2>2. p # r /\ Good(r)
    <3>1. p # r
      BY <2>1 DEF Good
    <3> QED
      BY <2>1, <3>1, GoodBefore
  <2>3. r \in challenges' \ consumed'
    BY <1>1, <1>7, <2>2 DEF Rollback, Forget
  <2> QED
    BY <1>1, <2>1, <2>2, <2>3
<1>8. ASSUME challenges' = Unexpired, r \notin consumed',
             saved' = saved \/ saved' = Snapshot', Good(r)
      PROVE  r \in Open(Snapshot)' \cap Open(saved)'
  <2>1. r \in Unexpired
    BY <1>1, <1>8 DEF Unexpired, Good
  <2> QED
    BY <1>1, <1>8, <2>1
<1>9. ASSUME NEW p \in Request, NEW requested, NEW resident \in Resident,
             \/ VerifyWithoutGuide(p, requested, resident)
             \/ VerifySaved(p, requested, resident)
             \/ VerifyUnsaved(p, requested, resident)
      PROVE  r \in Open(Snapshot)' \cap Open(saved)'
  <2>1. /\ challenges' = Unexpired
        /\ saved' = saved \/ saved' = Snapshot'
        /\ UNCHANGED <<now, step, form, at>>
        /\ burnt \subseteq burnt'
    BY <1>9 DEF VerifyWithoutGuide, VerifySaved, VerifyUnsaved, Verify, Save, WriteFails,
                history
  <2>2. loggedIn'[r] = <<>> /\ r \notin burnt'
    BY DEF Good
  <2>3. loggedIn[r] = <<>> /\ r \notin consumed'
    <3>1. CASE VerifyWithoutGuide(p, requested, resident)
      BY <2>2, <3>1 DEF VerifyWithoutGuide, history
    <3>2. CASE VerifySaved(p, requested, resident)
      <4>1. loggedIn' = [loggedIn EXCEPT ![p] = Append(loggedIn[p], resident)] /\ consumed' = {p}
        BY <3>2 DEF VerifySaved, Verify, Use
      <4>2. Append(loggedIn[p], resident) # <<>>
        <5>1. loggedIn[p] \in Seq(Resident)
          OBVIOUS
        <5> HIDE DEF Inv, TypeOK
        <5> QED
          BY <5>1
      <4> QED
        BY <2>2, <4>1, <4>2
    <3>3. CASE VerifyUnsaved(p, requested, resident)
      BY <2>2, <3>3 DEF VerifyUnsaved, Verify, Use
    <3> QED
      BY <1>9, <3>1, <3>2, <3>3
  <2>4. \A q \in Request : step'[q] = step[q]
    BY <2>1
  <2>5. now <= now' /\ now' \in Nat /\ step'[r] = step[r]
    BY <2>1
  <2>6. Good(r)
    BY <2>1, <2>3, <2>4, <2>5, GoodBefore
  <2> QED
    BY <1>8, <2>1, <2>3, <2>6
<1>10. ASSUME NEW resident \in Resident, NEW email \in Email, AdminCreate(resident, email)
       PROVE  r \in Open(Snapshot)' \cap Open(saved)'
  <2>1. /\ UNCHANGED <<challenges, consumed, now, step, form, at, loggedIn, burnt>>
        /\ saved' = Snapshot'
    BY <1>10 DEF AdminCreate, Save, history
  <2>2. Good(r)
    BY <2>1, GoodBefore
  <2> QED
    BY <1>3, <2>1, <2>2
<1>11. CASE VerifyRefused
  <2>1. Good(r)
    BY <1>11, GoodBefore DEF VerifyRefused, history
  <2> QED
    BY <1>8, <1>11, <2>1 DEF VerifyRefused
<1>12. CASE Tick
  <2>1. Good(r)
    BY <1>2, <1>12, GoodBefore DEF Tick, history
  <2> QED
    BY <1>3, <1>12, <2>1 DEF Tick, authState
<1>13. CASE Restart
  <2>1. Good(r)
    BY <1>13, GoodBefore DEF Restart
  <2> QED
    BY <1>1, <1>13, <2>1 DEF Restart
<1> QED
  BY <1>4, <1>5, <1>6, <1>7, <1>9, <1>10, <1>11, <1>12, <1>13 DEF Next

----------------------------------------------------------------------------
(* The theorems *)

LEMMA InvInit == Init => Inv
<1> SUFFICES ASSUME Init
             PROVE  Inv
  OBVIOUS
<1> USE DEF Init, Snapshot
<1>1. TypeOK
  BY EmailOtpConstants DEF TypeOK, Step, NoWindow, Registration
<1>2. FileBehind /\ OneOwner /\ OneOpenCode
  BY DEF FileBehind, OneOwner, OneOpenCode, States, Open
<1>3. Untouched /\ SignIns /\ SignOuts
  BY DEF Untouched, Traceless, SignIns, SignOuts, LogoutFinal
<1>4. Limits
  BY DEF Limits
<1>5. Charges /\ Codes
  BY DEF Charges, NoWindow, Codes, Good
<1> QED
  BY <1>1, <1>2, <1>3, <1>4, <1>5 DEF Inv

LEMMA InvStep == Inv /\ [Next]_vars => Inv'
BY TypeStep, FileStep, OwnerStep, CodeStep, UntouchedStep, SignInStep, SignOutStep,
   LimitStep, ChargeStep, GoodStep DEF Inv

LEMMA InvHolds == Spec => []Inv
BY InvInit, InvStep, PTL DEF Spec

\* The variables of the sign-in keep their types, a window never counts more than
\* one request, and only a challenge on the list is marked as used.
THEOREM TypeCorrect == Spec => []TypeOK
<1>1. Inv => TypeOK
  BY DEF Inv
<1> QED
  BY <1>1, InvHolds, PTL

\* A resident id has one registration, in memory and on disk (verify_email_otp,
\* admin_create_resident).
THEOREM ResidentsHaveOneOwner == Spec => []OneOwner
<1>1. Inv => OneOwner
  BY DEF Inv
<1> QED
  BY <1>1, InvHolds, PTL

\* An email has one code that can be used, in memory and on disk
\* (prepare_email_otp_request).
THEOREM EmailsHaveOneOpenCode == Spec => []OneOpenCode
<1>1. Inv => OneOpenCode
  BY DEF Inv
<1> QED
  BY <1>1, InvHolds, PTL

\* No sequence of failed saves and restarts lets a code sign in twice
\* (verify_email_otp).
THEOREM CodesSignInOnce == Spec => []OneLoginPerCode
<1>1. Inv => OneLoginPerCode
  <2> SUFFICES ASSUME Inv, NEW r \in Request
               PROVE  Len(loggedIn[r]) <= 1
    BY DEF OneLoginPerCode
  <2>1. CASE loggedIn[r] = <<>>
    BY <2>1
  <2>2. CASE loggedIn[r] # <<>>
    <3>1. SignedIn(r)
      BY <2>2 DEF Inv, SignIns
    <3> QED
      BY <3>1 DEF SignedIn
  <2> QED
    BY <2>1, <2>2
<1> QED
  BY <1>1, InvHolds, PTL

\* The registration and the session a verification was answered with are in the
\* file (verify_email_otp, persist_auth_state).
THEOREM SignInsAreDurable == Spec => []LoginDurable
<1>1. Inv => LoginDurable
  BY DEF Inv, TypeOK, LoginDurable, SignIns, SignedIn
<1> QED
  BY <1>1, InvHolds, PTL

\* An email signs in as one resident for ever (verify_email_otp).
THEOREM EmailsKeepTheirResident == Spec => []SameResident
<1>1. Inv => SameResident
  <2> SUFFICES ASSUME Inv, NEW q \in Request, NEW r \in Request,
                      form[q].email = form[r].email,
                      loggedIn[q] # <<>>, loggedIn[r] # <<>>
               PROVE  loggedIn[q][1] = loggedIn[r][1]
    BY DEF SameResident
  <2>1. PICK i \in 1..Len(saved.registrations) :
          /\ saved.registrations[i] =
               [resident |-> loggedIn[q][1], email |-> form[q].email]
          /\ \A j \in 1..(i - 1) : saved.registrations[j].email # form[q].email
    BY DEF Inv, SignIns, SignedIn
  <2>2. PICK k \in 1..Len(saved.registrations) :
          /\ saved.registrations[k] =
               [resident |-> loggedIn[r][1], email |-> form[r].email]
          /\ \A j \in 1..(k - 1) : saved.registrations[j].email # form[r].email
    BY DEF Inv, SignIns, SignedIn
  <2>3. i = k
    BY <2>1, <2>2 DEF Inv, TypeOK
  <2> QED
    BY <2>1, <2>2, <2>3
<1> QED
  BY <1>1, InvHolds, PTL

\* A confirmed sign-out is final (revoke_auth_session).
THEOREM SignOutsAreFinal == Spec => []LogoutFinal
<1>1. Inv => LogoutFinal
  BY DEF Inv, SignOuts
<1> QED
  BY <1>1, InvHolds, PTL

\* A late rollback never lifts the limit of a newer request
\* (rollback_email_otp_request).
THEOREM RequestsAreLimited == Spec => []OneCodePerWindow
<1>1. Inv => OneCodePerWindow
  <2> SUFFICES ASSUME Inv, NEW r \in sending, step[r] \in {"sending", "sent"},
                      now - at[r] <= Window
               PROVE  Limited(form[r].email)
    BY DEF OneCodePerWindow
  <2>1. asked[form[r].email] = [start |-> at[r], count |-> 1]
    BY DEF Inv, Limits
  <2> QED
    BY <2>1, WindowLimits DEF Inv, TypeOK
<1> QED
  BY <1>1, InvHolds, PTL

\* A failed delivery costs its email nothing (rollback_email_otp_request), for
\* codes that outlive the window.
THEOREM FailuresCostNothing == Spec => []FailuresNotCounted
<1>1. Inv => FailuresNotCounted
  <2> SUFFICES ASSUME Inv, NEW e \in Email, Limited(e)
               PROVE  \E r \in sending :
                        /\ form[r].email = e
                        /\ now - at[r] <= Window
                        /\ step[r] = "failed" => r \in mailed
    BY DEF FailuresNotCounted
  <2>1. asked[e] \in [start : Nat, count : {0, 1}]
    BY DEF Inv, TypeOK
  <2>2. asked[e].count = 1 /\ ~(now - asked[e].start > Window)
    BY <2>1 DEF Limited, Opened
  <2>3. now - asked[e].start <= Window
    BY <2>1, <2>2, EmailOtpConstants DEF Inv, TypeOK
  <2>4. PICK r \in sending : Holds(r, e)
    BY <2>2, <2>3 DEF Inv, Charges
  <2> QED
    BY <2>3, <2>4 DEF Holds
<1> QED
  BY <1>1, InvHolds, PTL

\* A code that was sent works until it expires, is replaced or is burnt by a
\* failed save: no rollback, purge or restart takes it away.
THEOREM SentCodesWork == Spec => []SentCodeWorks
<1>1. Inv => SentCodeWorks
  <2> SUFFICES ASSUME Inv, NEW r \in Request, step[r] = "sent", Expires(r) >= now,
                      loggedIn[r] = <<>>, r \notin burnt,
                      \A q \in Request \ {r} :
                        form[q].email = form[r].email /\ step[q] \notin {"idle", "refused"} =>
                          at[q] < at[r]
               PROVE  r \in Open(Snapshot)
    BY DEF SentCodeWorks
  <2>1. \A q \in Request \ {r} : ~Later(q, r)
    BY DEF Inv, TypeOK, Later
  <2>2. Good(r)
    BY <2>1 DEF Good
  <2> QED
    BY <2>2 DEF Inv, Codes
<1> QED
  BY <1>1, InvHolds, PTL

=============================================================================
