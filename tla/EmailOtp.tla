----------------------------- MODULE EmailOtp -----------------------------
(***************************************************************************)
(* Signing in by a mailed code (apps/lobster-waku-gateway/src/             *)
(* auth_runtime.rs and http_auth_routes.rs).                               *)
(*                                                                         *)
(* A thread that serves POST /v1/auth/email-otp/request holds the runtime  *)
(* mutex while it prepares a challenge, releases it while the mailer is    *)
(* called, and takes it again to undo the challenge when the mailer        *)
(* reported a failure; other requests, a verification of the same code     *)
(* among them, run in between.  Every handler saves the whole             *)
(* authentication state in one file, the write may fail, and most handlers *)
(* do not undo their change in memory when it does.  A challenge is named  *)
(* by the request that created it, and so is the session it leads to.      *)
(*                                                                         *)
(* Blacklists, wrong codes and the limit on attempts at one code only      *)
(* refuse a verification: VerifyRefused covers them without a condition.   *)
(***************************************************************************)
EXTENDS Naturals, Sequences, FiniteSetsExt

CONSTANTS
  Request,   \* threads that serve a request for a code
  Email,     \* normalised addresses
  Resident,  \* resident ids
  Nobody,    \* no resident id asked for
  Window,    \* length of a rate limit window
  Lifetime,  \* how long a code is valid
  MaxTime,   \* bound: the clock
  MaxAdmin,  \* bound: residents created by an administrator
  MaxFaults  \* bound: failed writes and restarts

ASSUME EmailOtpConstants ==
  /\ Nobody \notin Resident
  /\ {Window, Lifetime, MaxTime, MaxAdmin, MaxFaults} \subseteq Nat

\* check_rate_limit counts within a minute, a code expires after ten.
ASSUME CodesOutliveTheWindow == Window <= Lifetime

VARIABLES
  registrations,  \* GatewayRuntime::registrations, in the order of the Vec
  challenges,     \* email_otp_challenges
  consumed,       \* those with a consumed_at_ms
  sessions,       \* auth_sessions neither revoked nor expired
  asked,          \* rate_limits under "otp-req:<email>"
  saved,          \* the authentication state file
  now,            \* the clock
  step,           \* how far each request for a code is
  form,           \* the email and the resident id it asks for
  at,             \* requested_at_ms of its challenge
  mailed,         \* codes that reached their mailbox
  loggedIn,       \* history: residents that verifications of a code were
                  \* answered with, in order
  loggedOut,      \* history: sessions whose logout was answered with success
  burnt,          \* history: codes whose verification was consumed, not saved
  sending,        \* history: requests prepared since the gateway started
  admin,          \* residents created by an administrator, for the bound
  faults          \* failed writes and restarts, for the bound

authState == <<registrations, challenges, consumed, sessions>>
history == <<loggedIn, loggedOut, burnt, sending>>
bounds == <<admin, faults>>
vars == <<authState, asked, saved, now, step, form, at, mailed, history, bounds>>

\* sending: the mailer is being called.  failing: it reported a failure.
Step == {"idle", "sending", "failing", "sent", "failed", "refused", "unsaved",
         "lost"}

Registration == [resident : Resident, email : Email]
NoWindow == [start |-> 0, count |-> 0]

\* auth_state_snapshot: what the file holds.
Snapshot ==
  [registrations |-> registrations, challenges |-> challenges,
   consumed |-> consumed, sessions |-> sessions]

Init ==
  /\ registrations = <<>>
  /\ challenges = {}
  /\ consumed = {}
  /\ sessions = {}
  /\ asked = [e \in Email |-> NoWindow]
  /\ saved = Snapshot
  /\ now = 0
  /\ step = [r \in Request |-> "idle"]
  /\ form \in [Request -> [email : Email, resident : Resident \cup {Nobody}]]
  /\ at = [r \in Request |-> 0]
  /\ mailed = {}
  /\ loggedIn = [r \in Request |-> <<>>]
  /\ loggedOut = {}
  /\ burnt = {}
  /\ sending = {}
  /\ admin = 0
  /\ faults = 0

----------------------------------------------------------------------------
(* The operators of the runtime. *)

\* The window a rate limit counts in now.
Opened(window) ==
  IF window.count = 0 \/ now - window.start > Window
    THEN [start |-> now, count |-> 0] ELSE window

\* Faulty variant: lets one request too many through.
LimitedLate(email) == Opened(asked[email]).count > 1

Limited(email) == Opened(asked[email]).count >= 1

Counted(email) ==
  LET window == Opened(asked[email])
  IN [asked EXCEPT ![email] = [start |-> window.start, count |-> window.count + 1]]

Expires(r) == at[r] + Lifetime

\* Faulty variant: also purges the code that expires at this very moment.
UnexpiredStrictly == {r \in challenges \ consumed : Expires(r) > now}

\* The challenges purge_expired_email_otp_challenges retains.
Unexpired == {r \in challenges \ consumed : Expires(r) >= now}

\* Faulty variant: never bound.
BoundNowhere(resident, email) == FALSE

BoundElsewhere(resident, email) ==
  \E i \in DOMAIN registrations :
    registrations[i].resident = resident /\ registrations[i].email # email

Registered(email) ==
  \E i \in DOMAIN registrations : registrations[i].email = email

\* The resident of the first registration with the email.
ResidentOf(email) ==
  registrations[Min({i \in DOMAIN registrations :
                       registrations[i].email = email})].resident

\* Faulty variant: the resident asked for wins over the one registered.
ClaimsAsAsked(r, requested) ==
  IF form[r].resident # Nobody THEN {form[r].resident}
  ELSE IF Registered(form[r].email) THEN {ResidentOf(form[r].email)}
  ELSE IF requested # Nobody THEN {requested}
  ELSE Resident

\* The resident a verification of code r logs in: the one registered with the
\* email, else the one asked for with the code, else the one asked for now, else
\* one made up from the email's local part and, when that is taken, the clock.
Claims(r, requested) ==
  IF Registered(form[r].email) THEN {ResidentOf(form[r].email)}
  ELSE IF form[r].resident # Nobody THEN {form[r].resident}
  ELSE IF requested # Nobody THEN {requested}
  ELSE Resident

\* Faulty variant: always appends.
UpsertedTwice(resident, email) ==
  Append(registrations, [resident |-> resident, email |-> email])

\* The upsert of a verification: it finds the first registration with the email
\* or the resident, writes both into it, or appends a new one.
Upserted(resident, email) ==
  LET found == {i \in DOMAIN registrations :
                  registrations[i].email = email \/ registrations[i].resident = resident}
      entry == [resident |-> resident, email |-> email]
  IN IF found = {} THEN Append(registrations, entry)
                   ELSE [registrations EXCEPT ![Min(found)] = entry]

Save == saved' = Snapshot' /\ UNCHANGED faults

\* The file cannot be written.
WriteFails == faults < MaxFaults /\ faults' = faults + 1 /\ UNCHANGED saved

----------------------------------------------------------------------------
(* A request for a code. *)

Refused(r) ==
  \/ form[r].resident # Nobody /\ BoundElsewhere(form[r].resident, form[r].email)
  \/ Limited(form[r].email)

\* Bound to another email, or asked for within the last minute.
PrepareRefused(r) ==
  /\ step[r] = "idle"
  /\ Refused(r)
  /\ step' = [step EXCEPT ![r] = "refused"]
  /\ UNCHANGED <<authState, asked, saved, now, form, at, mailed, history, bounds>>

\* Faulty variant: keeps the earlier code beside the new one.
ReplacingNone(r) == Unexpired \cup {r}

\* The new challenge takes the place of the email's unused one.
Replacing(r) ==
  {q \in Unexpired : form[q].email # form[r].email} \cup {r}

Prepare(r) ==
  /\ step[r] = "idle"
  /\ ~Refused(r)
  /\ asked' = Counted(form[r].email)
  /\ challenges' = Replacing(r)
  /\ consumed' = {}
  /\ at' = [at EXCEPT ![r] = now]
  /\ sending' = sending \cup {r}
  /\ UNCHANGED <<registrations, sessions, now, form, mailed, loggedIn, loggedOut,
                 burnt, admin>>

PrepareSaved(r) ==
  /\ Prepare(r)
  /\ Save
  /\ step' = [step EXCEPT ![r] = "sending"]

\* The file cannot be written: the request fails, the challenge stays.
PrepareUnsaved(r) ==
  /\ Prepare(r)
  /\ WriteFails
  /\ step' = [step EXCEPT ![r] = "unsaved"]

\* The mailer answers outside the lock.
Deliver(r) ==
  /\ step[r] = "sending"
  /\ mailed' = mailed \cup {r}
  /\ step' = [step EXCEPT ![r] = "sent"]
  /\ UNCHANGED <<authState, asked, saved, now, form, at, history, bounds>>

DeliveryFails(r) ==
  /\ step[r] = "sending"
  /\ step' = [step EXCEPT ![r] = "failing"]
  /\ UNCHANGED <<authState, asked, saved, now, form, at, mailed, history, bounds>>

\* The mail is on its way, and the mailer's answer is late.
AnswerLost(r) ==
  /\ step[r] = "sending"
  /\ mailed' = mailed \cup {r}
  /\ step' = [step EXCEPT ![r] = "failing"]
  /\ UNCHANGED <<authState, asked, saved, now, form, at, history, bounds>>

\* Faulty variant: lifts the rate limit of whichever request holds it.
ForgetLimit(r) ==
  /\ challenges' = challenges \ {r}
  /\ consumed' = consumed \ {r}
  /\ asked' = [asked EXCEPT ![form[r].email] = NoWindow]

\* Faulty variant: leaves the rate limit.
ForgetChallengeOnly(r) ==
  /\ challenges' = challenges \ {r}
  /\ consumed' = consumed \ {r}
  /\ UNCHANGED asked

\* rollback_email_otp_request.  A challenge that is gone (replaced by a later
\* request, expired, or used and purged) takes no rate limit with it.
Forget(r) ==
  IF r \in challenges
    THEN /\ challenges' = challenges \ {r}
         /\ consumed' = consumed \ {r}
         /\ asked' = [asked EXCEPT ![form[r].email] = NoWindow]
    ELSE UNCHANGED <<challenges, consumed, asked>>

\* The answer is the same whether the file could be written or not.
Rollback(r) ==
  /\ step[r] = "failing"
  /\ Forget(r)
  /\ UNCHANGED <<registrations, sessions>>
  /\ \/ r \in challenges /\ (Save \/ WriteFails)
     \/ r \notin challenges /\ UNCHANGED <<saved, faults>>
  /\ step' = [step EXCEPT ![r] = "failed"]
  /\ UNCHANGED <<now, form, at, mailed, history, admin>>

----------------------------------------------------------------------------
(* A verification, a logout, the administrator, the clock, a restart. *)

\* Whatever refuses a verification, expired challenges are purged first.
VerifyRefused ==
  /\ challenges' = Unexpired
  /\ consumed' = {}
  /\ UNCHANGED <<registrations, sessions, asked, saved, now, step, form, at,
                 mailed, history, bounds>>

\* The challenge is known and unused, the code is right, the resident asked for
\* is the one the code was issued for, and no other email holds the resident.
Accepted(r, requested, resident) ==
  /\ r \in Unexpired \cap mailed
  /\ Nobody \notin {form[r].resident, requested} => requested = form[r].resident
  /\ resident \in Claims(r, requested)
  /\ ~BoundElsewhere(resident, form[r].email)

\* The conversation with the guide cannot be saved: the registration is written
\* already, in memory only, and the code is not used.
VerifyWithoutGuide(r, requested, resident) ==
  /\ Accepted(r, requested, resident)
  /\ registrations' = Upserted(resident, form[r].email)
  /\ challenges' = Unexpired
  /\ consumed' = {}
  /\ WriteFails
  /\ UNCHANGED <<sessions, asked, now, step, form, at, mailed, history, admin>>

\* Faulty variant: forgets to mark the code as used.
UseAgain(r) == consumed' = {}

Use(r) == consumed' = {r}

Verify(r, requested, resident) ==
  /\ Accepted(r, requested, resident)
  /\ registrations' = Upserted(resident, form[r].email)
  /\ challenges' = Unexpired
  /\ Use(r)
  /\ sessions' = sessions \cup {r}
  /\ UNCHANGED <<asked, now, step, form, at, mailed, loggedOut, sending, admin>>

VerifySaved(r, requested, resident) ==
  /\ Verify(r, requested, resident)
  /\ Save
  /\ loggedIn' = [loggedIn EXCEPT ![r] = Append(@, resident)]
  /\ UNCHANGED burnt

\* The file cannot be written: nobody learns the session's token.
VerifyUnsaved(r, requested, resident) ==
  /\ Verify(r, requested, resident)
  /\ WriteFails
  /\ burnt' = burnt \cup {r}
  /\ UNCHANGED loggedIn

Revoke(r) ==
  /\ r \in sessions
  /\ loggedIn[r] # <<>>
  /\ sessions' = sessions \ {r}
  /\ UNCHANGED <<registrations, challenges, consumed, asked, now, step, form, at,
                 mailed, loggedIn, burnt, sending, admin>>

\* Faulty variant: answers before it saves.
RevokeAnswered(r) ==
  /\ Revoke(r)
  /\ UNCHANGED <<saved, faults>>
  /\ loggedOut' = loggedOut \cup {r}

RevokeSaved(r) ==
  /\ Revoke(r)
  /\ Save
  /\ loggedOut' = loggedOut \cup {r}

RevokeUnsaved(r) ==
  /\ Revoke(r)
  /\ WriteFails
  /\ UNCHANGED loggedOut

\* Only the resident id is looked up.  A failed write is undone, which is no
\* step at all.
AdminCreate(resident, email) ==
  /\ admin < MaxAdmin
  /\ \A i \in DOMAIN registrations : registrations[i].resident # resident
  /\ registrations' = Append(registrations, [resident |-> resident, email |-> email])
  /\ admin' = admin + 1
  /\ UNCHANGED <<challenges, consumed, sessions>>
  /\ Save
  /\ UNCHANGED <<asked, now, step, form, at, mailed, history>>

Tick ==
  /\ now < MaxTime
  /\ now' = now + 1
  /\ UNCHANGED <<authState, asked, saved, step, form, at, mailed, history, bounds>>

\* A stop and a start: the threads and the rate limits are gone, the rest is
\* read back.
Restart ==
  /\ faults < MaxFaults
  /\ faults' = faults + 1
  /\ registrations' = saved.registrations
  /\ challenges' = saved.challenges
  /\ consumed' = saved.consumed
  /\ sessions' = saved.sessions
  /\ asked' = [e \in Email |-> NoWindow]
  /\ step' = [r \in Request |->
                IF step[r] \in {"sending", "failing"} THEN "lost" ELSE step[r]]
  /\ sending' = {}
  /\ UNCHANGED <<saved, now, form, at, mailed, loggedIn, loggedOut, burnt, admin>>

Next ==
  \/ \E r \in Request :
       \/ PrepareRefused(r)
       \/ PrepareSaved(r)
       \/ PrepareUnsaved(r)
       \/ Deliver(r)
       \/ DeliveryFails(r)
       \/ AnswerLost(r)
       \/ Rollback(r)
       \/ RevokeSaved(r)
       \/ RevokeUnsaved(r)
  \/ \E r \in Request, requested \in Resident \cup {Nobody}, resident \in Resident :
       \/ VerifyWithoutGuide(r, requested, resident)
       \/ VerifySaved(r, requested, resident)
       \/ VerifyUnsaved(r, requested, resident)
  \/ \E resident \in Resident, email \in Email : AdminCreate(resident, email)
  \/ VerifyRefused
  \/ Tick
  \/ Restart

Spec == Init /\ [][Next]_vars

----------------------------------------------------------------------------
(* Properties *)

States == {Snapshot, saved}
Open(state) == state.challenges \ state.consumed

\* Every variable holds a value of its kind, a rate limit never counts more than
\* the one request it allows (check_rate_limit), and only a challenge on the
\* list can be marked as used.
TypeOK ==
  /\ registrations \in Seq(Registration)
  /\ challenges \subseteq Request
  /\ consumed \subseteq challenges
  /\ sessions \subseteq Request
  /\ asked \in [Email -> [start : Nat, count : {0, 1}]]
  /\ saved \in [registrations : Seq(Registration), challenges : SUBSET Request,
                consumed : SUBSET Request, sessions : SUBSET Request]
  /\ now \in Nat
  /\ step \in [Request -> Step]
  /\ form \in [Request -> [email : Email, resident : Resident \cup {Nobody}]]
  /\ at \in [Request -> Nat]
  /\ mailed \subseteq Request
  /\ loggedIn \in [Request -> Seq(Resident)]
  /\ loggedOut \subseteq Request
  /\ burnt \subseteq Request
  /\ sending \subseteq Request
  /\ admin \in Nat

\* However requests, verifications, failed saves and the administrator
\* interleave, a resident id has one registration, in memory and on disk.
OneOwner ==
  \A state \in States :
    \A i, j \in DOMAIN state.registrations :
      state.registrations[i].resident = state.registrations[j].resident => i = j

\* An email has one code that can be used, in memory and on disk: asking again
\* replaces the earlier one.
OneOpenCode ==
  \A state \in States :
    \A q, r \in Open(state) : form[q].email = form[r].email => q = r

\* A code signs in at most once, even when a save failed or the gateway
\* restarted between its uses.
OneLoginPerCode == \A r \in Request : Len(loggedIn[r]) <= 1

\* What a verification was answered with survives a restart: the registration
\* stays in the file, though a resident id that was free when the code was asked
\* for may be taken when it is used, and the session until its owner signs out.
LoginDurable ==
  \A r \in Request : loggedIn[r] # <<>> =>
    /\ \E i \in DOMAIN saved.registrations :
         saved.registrations[i] =
           [resident |-> loggedIn[r][1], email |-> form[r].email]
    /\ r \in sessions => r \in saved.sessions

\* All sign-ins with one email are the same resident, across the failed saves,
\* the restarts and the residents an administrator creates with that email.
SameResident ==
  \A q, r \in Request :
    /\ form[q].email = form[r].email
    /\ loggedIn[q] # <<>>
    /\ loggedIn[r] # <<>>
    => loggedIn[q][1] = loggedIn[r][1]

\* A session whose logout was confirmed is never accepted again.
LogoutFinal == loggedOut \cap (sessions \cup saved.sessions) = {}

\* While the gateway runs, an email that was sent a code, or is being sent one,
\* is refused another within the window, however late the failure of an earlier
\* delivery is noticed.
OneCodePerWindow ==
  \A r \in sending :
    step[r] \in {"sending", "sent"} /\ now - at[r] <= Window =>
      Limited(form[r].email)

\* A failed delivery does not consume the rate limit: an email that is refused a
\* code was asked for one within the window, by a request that is still being
\* delivered, was answered, could not be saved, or whose mail did arrive.
FailuresNotCounted ==
  \A e \in Email : Limited(e) =>
    \E r \in sending :
      /\ form[r].email = e
      /\ now - at[r] <= Window
      /\ step[r] = "failed" => r \in mailed

\* A code that was sent can be used until it expires or a later one replaces it,
\* unless a failed save burnt it: no rollback and no purge of somebody else's
\* request takes it away.
SentCodeWorks ==
  \A r \in Request :
    /\ step[r] = "sent"
    /\ Expires(r) >= now
    /\ loggedIn[r] = <<>>
    /\ r \notin burnt
    /\ \A q \in Request \ {r} :
         form[q].email = form[r].email /\ step[q] \notin {"idle", "refused"} =>
           at[q] < at[r]
    => r \in Open(Snapshot)
=============================================================================
