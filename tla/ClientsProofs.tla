--------------------------- MODULE ClientsProofs ---------------------------
(***************************************************************************)
(* Proofs about the gateway's clients in module Gateway: what a terminal   *)
(* sends, the session that the command line client keeps in a file, and    *)
(* what the version of a shell tells the client that polls it; for any     *)
(* conversations, residents, processes, rooms and windows.                 *)
(***************************************************************************)
EXTENDS GatewayProofs, ConversationsProofs, FiniteSetTheorems, WellFoundedInduction

----------------------------------------------------------------------------
(* The terminal.  A notice is stored beside the messages; only what is      *)
(* pending is sent, and what is pending was spoken.                         *)

PendingWasSpoken == \A e \in store : e.state = "pending" => Te!FrameOf(e) \in spoken

SpeechInv == Te!NoticesStayLocal /\ PendingWasSpoken

----------------------------------------------------------------------------
(* Lemmas about the helpers. *)

\* What comes in by the relay is not pending.
LEMMA MergedAddsNothingPending ==
  ASSUME NEW frames, NEW e \in Te!Merged(frames), e.state = "pending"
  PROVE  e \in store
  BY DEF Te!Merged

\* Archiving makes nothing pending that was not.
LEMMA ShelveAddsNothingPending ==
  ASSUME NEW entries, Te!Shelve(entries), NEW e \in store', e.state = "pending"
  PROVE  e \in entries
  <1>1. PICK old \in SUBSET {d \in entries : d.state = "pending"} :
          store' = (entries \ old) \cup {[d EXCEPT !.state = "shelved"] : d \in old}
    BY DEF Te!Shelve
  <1>2. ASSUME NEW d \in old, e = [d EXCEPT !.state = "shelved"] PROVE FALSE
    BY <1>2
  <1> QED BY <1>1, <1>2

\* A notice and a message that was answered are kept as delivered ones.
LEMMA KeptDelivered ==
  ASSUME NEW c, NEW notice, Te!Kept(c, notice, "delivered"), NEW e \in store',
         e.state = "pending"
  PROVE  e \in store
  BY DEF Te!Kept

----------------------------------------------------------------------------
(* The invariant. *)

LEMMA SpeechStarts == Te!Init => SpeechInv
  BY DEF Te!Init, SpeechInv, Te!NoticesStayLocal, PendingWasSpoken

\* A round sends what is pending, and that was spoken.
LEMMA RoundKeeps == SpeechInv /\ Te!Round => SpeechInv'
  <1> SUFFICES ASSUME SpeechInv, Te!Round PROVE SpeechInv'
    OBVIOUS
  <1>1. PICK frames \in SUBSET {f \in relay : f.conversation \in subscribed} :
          \E sent \in SUBSET {e \in Te!Merged(frames) : e.state = "pending"} :
            /\ relay' = relay \cup {Te!FrameOf(e) : e \in sent}
            /\ Te!Shelve((Te!Merged(frames) \ sent)
                        \cup {[e EXCEPT !.state = "delivered"] : e \in sent})
    BY DEF Te!Round
  <1>2. PICK sent \in SUBSET {e \in Te!Merged(frames) : e.state = "pending"} :
          /\ relay' = relay \cup {Te!FrameOf(e) : e \in sent}
          /\ Te!Shelve((Te!Merged(frames) \ sent)
                      \cup {[e EXCEPT !.state = "delivered"] : e \in sent})
    BY <1>1
  <1>3. spoken' = spoken
    BY DEF Te!Round
  <1>4. \A e \in Te!Merged(frames) : e.state = "pending" => Te!FrameOf(e) \in spoken
    BY MergedAddsNothingPending DEF SpeechInv, PendingWasSpoken
  <1>5. Te!NoticesStayLocal'
    BY <1>2, <1>3, <1>4 DEF SpeechInv, Te!NoticesStayLocal
  <1>6. ASSUME NEW e \in store', e.state = "pending" PROVE Te!FrameOf(e) \in spoken
    <2>1. \/ e \in Te!Merged(frames)
          \/ \E d \in sent : e = [d EXCEPT !.state = "delivered"]
      BY <1>2, <1>6, ShelveAddsNothingPending
    <2>2. ASSUME NEW d \in sent, e = [d EXCEPT !.state = "delivered"] PROVE FALSE
      BY <1>6, <2>2
    <2> QED BY <1>4, <1>6, <2>1, <2>2
  <1> QED BY <1>3, <1>5, <1>6 DEF SpeechInv, PendingWasSpoken, Te!FrameOf

\* What is spoken may be pending, and may reach the relay at once.
LEMMA SpeakKeeps == SpeechInv /\ Te!Speak => SpeechInv'
  <1> SUFFICES ASSUME SpeechInv, Te!Speak PROVE SpeechInv'
    OBVIOUS
  <1> DEFINE frame == [id |-> written', conversation |-> active]
  <1>1. /\ spoken' = spoken \cup {frame}
        /\ relay' \in {relay, relay \cup {frame}}
        /\ Te!Kept(active, FALSE, "delivered") \/ Te!Kept(active, FALSE, "pending")
    BY DEF Te!Speak
  <1>2. ASSUME NEW e \in store', e \notin store PROVE Te!FrameOf(e) = frame
    BY <1>1, <1>2 DEF Te!Kept, Te!FrameOf
  <1> QED BY <1>1, <1>2 DEF SpeechInv, Te!NoticesStayLocal, PendingWasSpoken, Te!FrameOf

\* A notice is kept, and not to be sent.
LEMMA NotifyKeeps == SpeechInv /\ Te!Notify => SpeechInv'
  <1> SUFFICES ASSUME SpeechInv, Te!Notify PROVE SpeechInv'
    OBVIOUS
  <1>1. UNCHANGED <<relay, spoken>> /\ Te!Kept(active, TRUE, "delivered")
    BY DEF Te!Notify, Te!AppendNotice, Te!world
  <1> QED BY <1>1, KeptDelivered DEF SpeechInv, Te!NoticesStayLocal, PendingWasSpoken,
     Te!FrameOf

LEMMA SpeechStep == SpeechInv /\ [Te!Next]_termVars => SpeechInv'
  <1> SUFFICES ASSUME SpeechInv, [Te!Next]_termVars PROVE SpeechInv'
    OBVIOUS
  <1>1. CASE UNCHANGED <<store, relay, spoken>>
    BY <1>1 DEF SpeechInv, Te!NoticesStayLocal, PendingWasSpoken, Te!FrameOf
  <1>2. CASE Te!RoundFails
    BY <1>2, ShelveAddsNothingPending
      DEF Te!RoundFails, Te!world, SpeechInv, Te!NoticesStayLocal, PendingWasSpoken, Te!FrameOf
  <1>3. CASE Te!Start \/ Te!Stop \/ Te!QuitKey \/ Te!LeaveInput \/ Te!EnterSelected \/
     Te!FocusInput
    BY <1>1, <1>3 DEF Te!Start, Te!Stop, Te!QuitKey, Te!LeaveInput, Te!EnterSelected,
       Te!FocusInput, Te!world
  <1>4. ASSUME NEW b \in BOOLEAN, Te!TurnFocus(b) \/ Te!MoveSelection(b) PROVE SpeechInv'
    BY <1>1, <1>4 DEF Te!TurnFocus, Te!MoveSelection, Te!world
  <1>5. ASSUME NEW d \in Te!Draft, Te!TypeKey(d) PROVE SpeechInv'
    BY <1>1, <1>5 DEF Te!TypeKey, Te!world
  <1>6. CASE Te!WorldCommand \/ Te!OpenCommand \/ Te!QuitCommand \/ Te!DirectToNobody
    BY <1>1, <1>6
      DEF Te!WorldCommand, Te!OpenCommand, Te!QuitCommand, Te!DirectToNobody, Te!IfListed,
         Te!GoTo, Te!Stay, Te!world
  <1>7. ASSUME NEW c \in Private, Te!DirectCommand(c) \/ Te!DirectFails(c) PROVE SpeechInv'
    BY <1>1, <1>7 DEF Te!DirectCommand, Te!DirectFails
  <1>8. CASE \/ Te!HelpCommand \/ Te!SearchCommand \/ Te!AmendCommand \/ Te!InspectCommand
             \/ Te!AdminCommand \/ Te!InviteCommand
    BY <1>8, NotifyKeeps
      DEF Te!HelpCommand, Te!SearchCommand, Te!AmendCommand, Te!InspectCommand,
         Te!AdminCommand, Te!InviteCommand
  <1>9. CASE UNCHANGED termVars
    BY <1>1, <1>9 DEF termVars
  <1> QED
    BY <1>2, <1>3, <1>4, <1>5, <1>6, <1>7, <1>8, <1>9, RoundKeeps, SpeakKeeps DEF Te!Next

\* Whatever is typed, looked up, administered, sent again or left over from an
\* earlier session: the gateway gets no notice and no command of a terminal as a
\* message, and no message in another conversation than it was spoken in.
THEOREM NoticesAreLocal == GatewaySpec => []NoticesStayLocal
<1>1. GatewayInit => SpeechInv
  BY PartsStart, SpeechStarts
<1>2. SpeechInv /\ [GatewayNext]_gatewayVars => SpeechInv'
  BY OneAtATime, SpeechStep
<1>3. SpeechInv => NoticesStayLocal
  BY DEF SpeechInv, NoticesStayLocal
<1>4. QED
  BY <1>1, <1>2, <1>3, PTL DEF GatewaySpec

----------------------------------------------------------------------------
(* The cached session.  While no two logins write at the same time, the one *)
(* that writes has the file at .tmp for itself, and that is not the cache.  *)

Whole ==
  /\ \A p, q \in Process : Cl!Writing(p) /\ Cl!Writing(q) => p = q
  /\ \A p \in Process : Cl!Writing(p) => hand[p].file = tmp
  /\ \A p \in Process : step[p] = "created" => body[hand[p].file] = Cl!Half
  /\ \A p \in Process : step[p] = "written" => body[hand[p].file] # Cl!Half
  /\ tmp # Cl!NoFile => tmp # cache
  /\ cache # Cl!NoFile => body[cache] # Cl!Half

CacheInv == Cl!TypeOK /\ (~overlap => Whole)

\* There are more files than the cache and the processes hold.
LEMMA SpareFile ==
  ASSUME NEW p \in Process, NEW h
  PROVE  \E f \in Cl!File : f # cache /\ \A q \in Process \ {p} : h[q].file # f
<1> DEFINE use == [q \in Process |-> IF q = p THEN cache ELSE h[q].file]
<1>1. SUFFICES ASSUME \A f \in Cl!File : \E q \in Process : use[q] = f PROVE FALSE
  OBVIOUS
<1> HIDE DEF use
<1> DEFINE user == [f \in Cl!File |-> CHOOSE q \in Process : use[q] = f]
<1>2. user \in [Cl!File -> Process] /\ \A f \in Cl!File : use[user[f]] = f
  BY <1>1
<1>3. IsFiniteSet(Process) /\ Cardinality(Process) \in Nat
  <2>1. IsFiniteSet(Process)
    BY GatewayConstants
  <2> QED
    BY <2>1, FS_CardinalityType
<1>4. IsFiniteSet(Cl!File) /\ Cardinality(Cl!File) = Cardinality(Process) + 1
  <2>1. Cl!File = 1..(Cardinality(Process) + 1)
    BY DEF Cl!File, Cl!Cardinality, Cardinality
  <2> QED
    BY <1>3, <2>1, FS_Interval
<1>5. Cardinality(Process) < Cardinality(Cl!File)
  BY <1>3, <1>4
<1> HIDE DEF user
<1>6. PICK f, g \in Cl!File : f # g /\ user[f] = user[g]
  BY <1>2, <1>3, <1>4, <1>5, FS_PigeonHole
<1> QED
  BY <1>2, <1>6

\* Which token a command resolves.
LEMMA ResolvedTyped ==
  ASSUME Cl!TypeOK, NEW explicit \in Cl!Given, NEW env \in Cl!Given
  PROVE  /\ explicit \in Cl!Token /\ env \in Cl!Token
         /\ Cl!Resolved(explicit, env) \in Cl!Token \cup {Cl!NotLoggedIn}
<1>1. /\ MaxSessions \in Nat /\ Len(opened) \in Nat /\ DOMAIN opened = 1..Len(opened)
      /\ Len(opened) <= MaxSessions
  BY GatewayConstants DEF Cl!TypeOK
<1>2. DOMAIN opened \subseteq Cl!Token /\ Cl!NoToken \in Cl!Token /\ Cl!Agent \in Cl!Token
  BY <1>1 DEF Cl!Token, Cl!Agent, Cl!NoToken
<1>3. explicit \in Cl!Token /\ env \in Cl!Token
  BY <1>2 DEF Cl!Given, Cl!TypeOK
<1>4. Cl!Cached \in Cl!Token
  BY <1>2 DEF Cl!Cached, Cl!TypeOK, Cl!Half, Cl!NoToken, Cl!NoFile
<1> QED
  BY <1>3, <1>4 DEF Cl!Resolved

LEMMA TokensTyped ==
  ASSUME Cl!TypeOK, NEW explicit \in Cl!Given, NEW env \in Cl!Given,
         NEW sidecar \in {Cl!Agent, Cl!NoToken}, NEW agent \in BOOLEAN
  PROVE  /\ Cl!MessageToken(agent, explicit, env, sidecar) \in Cl!Token \cup {Cl!NotLoggedIn}
         /\ Cl!ScopedToken(agent, explicit, env, sidecar) \in Cl!Token \cup {Cl!NotLoggedIn}
         /\ Cl!ShellToken(agent, explicit, env) \in Cl!Token \cup {Cl!NotLoggedIn}
         /\ Cl!AdminReadToken(explicit, env, sidecar) \in Cl!Token \cup {Cl!NotLoggedIn}
<1>1. Cl!Resolved(explicit, env) \in Cl!Token \cup {Cl!NotLoggedIn}
  BY ResolvedTyped
<1>2. sidecar \in Cl!Token /\ Cl!NoToken \in Cl!Token
  BY GatewayConstants DEF Cl!Token, Cl!Agent, Cl!NoToken
<1> QED
  BY <1>1, <1>2 DEF Cl!MessageToken, Cl!TokenOrNone, Cl!ScopedToken, Cl!ShellToken,
     Cl!AdminReadToken

Steps == {"start", "acting", "code", "verified", "created", "written", "leaving", "following"}
Hands == [session : Cl!Token, actor : Operator \cup {NoOne}, file : Cl!File \cup {Cl!NoFile}]

\* What a step of process p may do with the files standing still.
Untouched ==
  /\ UNCHANGED <<cache, tmp, body, overlap>>
  /\ \A q \in Process : Cl!Writing(q)' =>
       step'[q] = step[q] /\ hand'[q].file = hand[q].file

LEMMA UntouchedKeeps == ASSUME CacheInv, Untouched, Cl!TypeOK' PROVE CacheInv'
<1> SUFFICES ASSUME ~overlap, Whole PROVE Whole'
  BY DEF CacheInv, Untouched
<1>1. \A q \in Process : Cl!Writing(q)' =>
        /\ Cl!Writing(q) /\ step'[q] = step[q] /\ hand'[q].file = hand[q].file
  BY DEF Untouched, Cl!Writing
<1>2. \A q \in Process : step'[q] \in {"created", "written"} => Cl!Writing(q)'
  BY DEF Cl!Writing
<1>3. /\ cache' = cache /\ tmp' = tmp /\ body' = body
  BY DEF Untouched
<1> QED
  BY <1>1, <1>2, <1>3 DEF Whole

\* Types of what a step changes at process p only, or not at all.
LEMMA ProcessTyped ==
  ASSUME Cl!TypeOK, NEW p \in Process, NEW at \in Steps, NEW mine \in Hands,
         step' = [step EXCEPT ![p] = at], hand' = [hand EXCEPT ![p] = mine],
         opened' = opened,
         at = "verified" \/ at \in {"created", "written"} => mine.session \in DOMAIN opened,
         at \in {"created", "written"} <=> mine.file # Cl!NoFile
  PROVE  /\ step' \in [Process -> Steps] /\ hand' \in [Process -> Hands]
         /\ \A q \in Process :
              /\ (step[q] = "verified" \/ Cl!Writing(q) => hand[q].session \in DOMAIN opened)'
              /\ (Cl!Writing(q) <=> hand[q].file # Cl!NoFile)'
<1>1. step \in [Process -> Steps] /\ hand \in [Process -> Hands]
  BY DEF Cl!TypeOK, Steps, Hands
<1>2. /\ step' \in [Process -> Steps] /\ hand' \in [Process -> Hands]
      /\ step'[p] = at /\ hand'[p] = mine
      /\ \A q \in Process \ {p} : step'[q] = step[q] /\ hand'[q] = hand[q]
  BY <1>1
<1>3. \A q \in Process : /\ step[q] = "verified" \/ Cl!Writing(q) => hand[q].session \in DOMAIN opened
                         /\ Cl!Writing(q) <=> hand[q].file # Cl!NoFile
  BY DEF Cl!TypeOK
<1>4. ASSUME NEW q \in Process
      PROVE  /\ (step[q] = "verified" \/ Cl!Writing(q) => hand[q].session \in DOMAIN opened)'
             /\ (Cl!Writing(q) <=> hand[q].file # Cl!NoFile)'
  <2>1. CASE q = p
    BY <1>2, <2>1 DEF Cl!Writing
  <2>2. CASE q # p
    BY <1>2, <1>3, <2>2 DEF Cl!Writing
  <2> QED
    BY <2>1, <2>2
<1> QED
  BY <1>2, <1>4

\* A process that is over, and one that only moves on.
LEMMA DoneTyped ==
  ASSUME Cl!TypeOK, NEW p \in Process, Cl!Done(p), opened' = opened
  PROVE  /\ step' \in [Process -> Steps] /\ hand' \in [Process -> Hands]
         /\ seen' \in [Process -> SUBSET (1..MaxPosts)]
         /\ \A q \in Process :
              /\ (step[q] = "verified" \/ Cl!Writing(q) => hand[q].session \in DOMAIN opened)'
              /\ (Cl!Writing(q) <=> hand[q].file # Cl!NoFile)'
         /\ \A q \in Process : Cl!Writing(q)' =>
              q # p /\ step'[q] = step[q] /\ hand'[q].file = hand[q].file
<1>1. Cl!Nothing \in Hands /\ Cl!Nothing.file = Cl!NoFile
  BY GatewayConstants DEF Cl!Nothing, Hands, Cl!Token, Cl!Agent, Cl!NoToken
<1>2. /\ step' = [step EXCEPT ![p] = "start"] /\ hand' = [hand EXCEPT ![p] = Cl!Nothing]
      /\ seen' = [seen EXCEPT ![p] = {}]
  BY DEF Cl!Done
<1>3. "start" \in Steps /\ "start" \notin {"verified", "created", "written"}
  BY DEF Steps
<1>4. seen' \in [Process -> SUBSET (1..MaxPosts)]
  BY <1>2 DEF Cl!TypeOK
<1>5. /\ step' \in [Process -> Steps] /\ hand' \in [Process -> Hands]
      /\ \A q \in Process :
           /\ (step[q] = "verified" \/ Cl!Writing(q) => hand[q].session \in DOMAIN opened)'
           /\ (Cl!Writing(q) <=> hand[q].file # Cl!NoFile)'
  BY <1>1, <1>2, <1>3, ProcessTyped
<1>6. step \in [Process -> Steps] /\ hand \in [Process -> Hands]
  BY DEF Cl!TypeOK, Steps, Hands
<1>7. \A q \in Process : Cl!Writing(q)' =>
        q # p /\ step'[q] = step[q] /\ hand'[q].file = hand[q].file
  BY <1>2, <1>6 DEF Cl!Writing
<1> QED
  BY <1>4, <1>5, <1>7

LEMMA CacheStarts == ASSUME Cl!Init PROVE CacheInv
<1>1. Cl!Nothing \in Hands /\ Cl!Nothing.file = Cl!NoFile /\ Cl!NoToken \in Cl!Token
  BY GatewayConstants DEF Cl!Nothing, Hands, Cl!Token, Cl!Agent, Cl!NoToken
<1>2. \A q \in Process : ~Cl!Writing(q) /\ step[q] # "verified" /\ step[q] = "start"
                         /\ hand[q].file = Cl!NoFile
  BY <1>1 DEF Cl!Init, Cl!Writing
<1>3. opened \in Seq(Operator) /\ Len(opened) <= MaxSessions /\ cliLive \subseteq DOMAIN opened
  BY GatewayConstants DEF Cl!Init
<1>4. /\ step \in [Process -> Steps] /\ hand \in [Process -> Hands]
      /\ body \in [Cl!File -> DOMAIN opened \cup {Cl!Half}]
      /\ seen \in [Process -> SUBSET (1..MaxPosts)] /\ posts \in 0..MaxPosts
      /\ cliFaults \in 0..MaxFailures
  BY <1>1, GatewayConstants DEF Cl!Init, Steps
<1>5. Cl!TypeOK
  BY <1>1, <1>2, <1>3, <1>4 DEF Cl!Init, Cl!TypeOK, Steps, Hands
<1>6. Whole
  BY <1>2 DEF Cl!Init, Whole
<1> QED
  BY <1>5, <1>6 DEF CacheInv

\* Commands of one request: the gateway gets it or the command is over.
LEMMA SendKeeps ==
  ASSUME CacheInv, NEW p \in Process, NEW token \in Cl!Token \cup {Cl!NotLoggedIn},
         Cl!Send(p, NoOne, token)
  PROVE  CacheInv'
<1>1. /\ UNCHANGED <<cliLive, opened, cache, tmp, body, overlap, step, hand, seen, posts, cliFaults>>
      /\ cliRequest' = IF token = Cl!NotLoggedIn THEN cliRequest
                       ELSE [actor |-> NoOne, token |-> token]
  BY DEF Cl!Send, Cl!files
<1>2. cliRequest'.token \in Cl!Token /\ cliRequest'.actor \in Operator \cup {NoOne}
  BY <1>1 DEF CacheInv, Cl!TypeOK
<1>3. Cl!TypeOK'
  BY <1>1, <1>2 DEF CacheInv, Cl!TypeOK, Cl!Writing
<1>4. Untouched
  BY <1>1 DEF Untouched
<1> QED
  BY <1>3, <1>4, UntouchedKeeps

\* What a command leaves in place when it only turns its own step and hand.
OwnOnly == UNCHANGED <<cliLive, opened, cache, tmp, body, overlap, posts>>

LEMMA OwnKeeps ==
  ASSUME CacheInv, OwnOnly,
         step' \in [Process -> Steps], hand' \in [Process -> Hands],
         seen' \in [Process -> SUBSET (1..MaxPosts)], cliFaults' \in 0..MaxFailures,
         (cliRequest.token \in Cl!Token /\ cliRequest.actor \in Operator \cup {NoOne})',
         \A q \in Process :
           /\ (step[q] = "verified" \/ Cl!Writing(q) => hand[q].session \in DOMAIN opened)'
           /\ (Cl!Writing(q) <=> hand[q].file # Cl!NoFile)',
         \A q \in Process : Cl!Writing(q)' =>
           step'[q] = step[q] /\ hand'[q].file = hand[q].file
  PROVE  CacheInv'
<1>1. Cl!TypeOK'
  BY DEF CacheInv, OwnOnly, Cl!TypeOK, Steps, Hands
<1>2. Untouched
  BY DEF OwnOnly, Untouched
<1> QED
  BY <1>1, <1>2, UntouchedKeeps

\* Steps of a command that moves on without a file in hand.
LEMMA MoveKeeps ==
  ASSUME CacheInv, OwnOnly, NEW p \in Process, NEW from, NEW at \in Steps, NEW mine \in Hands,
         step[p] = from, from \notin {"created", "written"},
         at \notin {"verified", "created", "written"}, mine.file = hand[p].file,
         step' = [step EXCEPT ![p] = at], hand' = [hand EXCEPT ![p] = mine], seen' = seen,
         cliFaults' \in 0..MaxFailures,
         (cliRequest.token \in Cl!Token /\ cliRequest.actor \in Operator \cup {NoOne})'
  PROVE  CacheInv'
<1>1. Cl!TypeOK /\ opened' = opened /\ seen' \in [Process -> SUBSET (1..MaxPosts)]
  BY DEF CacheInv, OwnOnly, Cl!TypeOK
<1>2. mine.file = Cl!NoFile
  BY <1>1 DEF Cl!TypeOK, Cl!Writing
<1>3. /\ step' \in [Process -> Steps] /\ hand' \in [Process -> Hands]
      /\ \A q \in Process :
           /\ (step[q] = "verified" \/ Cl!Writing(q) => hand[q].session \in DOMAIN opened)'
           /\ (Cl!Writing(q) <=> hand[q].file # Cl!NoFile)'
  BY <1>1, <1>2, ProcessTyped
<1>4. step \in [Process -> Steps] /\ hand \in [Process -> Hands]
  BY <1>1 DEF Cl!TypeOK, Steps, Hands
<1>5. \A q \in Process : Cl!Writing(q)' => step'[q] = step[q] /\ hand'[q].file = hand[q].file
  BY <1>4 DEF Cl!Writing
<1> QED
  BY <1>1, <1>3, <1>5, OwnKeeps

LEMMA HandIsTyped == ASSUME Cl!TypeOK, NEW p \in Process PROVE hand[p] \in Hands
BY DEF Cl!TypeOK, Hands

LEMMA NameActorKeeps ==
  ASSUME CacheInv, NEW p \in Process, NEW actor \in Operator \cup {NoOne},
         Cl!NameActor(p, actor)
  PROVE  CacheInv'
<1> DEFINE who == IF actor # NoOne THEN actor ELSE opened[Cl!Cached]
           mine == [hand[p] EXCEPT !.actor = who]
<1>1. Cl!TypeOK
  BY DEF CacheInv
<1>2. who \in Operator \cup {NoOne}
  <2>1. CASE actor # NoOne
    BY <2>1
  <2>2. CASE actor = NoOne
    <3>1. cache # Cl!NoFile /\ body[cache] # Cl!Half /\ Cl!Cached = body[cache]
      BY <2>2 DEF Cl!NameActor, Cl!Unreadable, Cl!Cached
    <3>2. Cl!Cached \in DOMAIN opened
      BY <1>1, <3>1 DEF Cl!TypeOK
    <3> QED
      BY <1>1, <2>2, <3>2 DEF Cl!TypeOK
  <2> QED
    BY <2>1, <2>2
<1>3. /\ step[p] = "start" /\ step' = [step EXCEPT ![p] = "acting"]
      /\ hand' = [hand EXCEPT ![p] = mine]
      /\ UNCHANGED <<cliLive, opened, cache, tmp, body, overlap, seen, posts, cliRequest, cliFaults>>
  BY DEF Cl!NameActor, Cl!At, Cl!files
<1> HIDE DEF who
<1>4. mine \in Hands /\ mine.file = hand[p].file
  BY <1>1, <1>2, HandIsTyped DEF Hands
<1> HIDE DEF mine
<1>5. "acting" \in Steps /\ OwnOnly /\ cliFaults' \in 0..MaxFailures
      /\ (cliRequest.token \in Cl!Token /\ cliRequest.actor \in Operator \cup {NoOne})'
  BY <1>1, <1>3 DEF Steps, OwnOnly, Cl!TypeOK
<1> QED
  BY <1>3, <1>4, <1>5, MoveKeeps

LEMMA FollowKeeps ==
  ASSUME CacheInv, NEW p \in Process, NEW agent \in BOOLEAN, NEW explicit \in Cl!Given,
         NEW env \in Cl!Given, NEW sidecar \in {Cl!Agent, Cl!NoToken},
         Cl!Follow(p, agent, explicit, env, sidecar)
  PROVE  CacheInv'
<1> DEFINE token == Cl!ScopedToken(agent, explicit, env, sidecar)
           mine == [hand[p] EXCEPT !.session = token]
<1>1. Cl!TypeOK
  BY DEF CacheInv
<1>2. token \in Cl!Token
  BY <1>1, TokensTyped DEF Cl!Follow
<1>3. /\ step[p] = "start" /\ step' = [step EXCEPT ![p] = "following"]
      /\ hand' = [hand EXCEPT ![p] = mine]
      /\ UNCHANGED <<cliLive, opened, cache, tmp, body, overlap, seen, posts, cliRequest, cliFaults>>
  BY DEF Cl!Follow, Cl!At, Cl!files
<1> HIDE DEF token
<1>4. mine \in Hands /\ mine.file = hand[p].file
  BY <1>1, <1>2, HandIsTyped DEF Hands
<1> HIDE DEF mine
<1>5. "following" \in Steps /\ OwnOnly /\ cliFaults' \in 0..MaxFailures
      /\ (cliRequest.token \in Cl!Token /\ cliRequest.actor \in Operator \cup {NoOne})'
  BY <1>1, <1>3 DEF Steps, OwnOnly, Cl!TypeOK
<1> QED
  BY <1>3, <1>4, <1>5, MoveKeeps

LEMMA RequestCodeKeeps ==
  ASSUME CacheInv, NEW p \in Process, Cl!RequestCode(p)
  PROVE  CacheInv'
<1>1. Cl!TypeOK
  BY DEF CacheInv
<1>2. /\ step[p] = "start" /\ step' = [step EXCEPT ![p] = "code"] /\ hand' = hand
      /\ UNCHANGED <<cliLive, opened, cache, tmp, body, overlap, seen, posts, cliRequest, cliFaults>>
  BY DEF Cl!RequestCode, Cl!At, Cl!files
<1>3. hand' = [hand EXCEPT ![p] = hand[p]] /\ hand[p] \in Hands
  BY <1>1, <1>2, HandIsTyped DEF Cl!TypeOK
<1>4. "code" \in Steps /\ OwnOnly /\ cliFaults' \in 0..MaxFailures
      /\ (cliRequest.token \in Cl!Token /\ cliRequest.actor \in Operator \cup {NoOne})'
  BY <1>1, <1>2 DEF Steps, OwnOnly, Cl!TypeOK
<1> QED
  BY <1>2, <1>3, <1>4, MoveKeeps

\* A command that ends with its last request, or is killed.
LEMMA OverKeeps ==
  ASSUME CacheInv, NEW p \in Process, Cl!Done(p), OwnOnly, cliFaults' \in 0..MaxFailures,
         (cliRequest.token \in Cl!Token /\ cliRequest.actor \in Operator \cup {NoOne})'
  PROVE  CacheInv'
<1>1. Cl!TypeOK /\ opened' = opened
  BY DEF CacheInv, OwnOnly
<1> QED
  BY <1>1, DoneTyped, OwnKeeps

LEMMA LastRequestKeeps ==
  ASSUME CacheInv, NEW p \in Process,
         \/ \E explicit, env \in Cl!Given : Cl!AdminCommand(p, explicit, env)
         \/ Cl!Die(p)
  PROVE  CacheInv'
<1>1. Cl!TypeOK
  BY DEF CacheInv
<1>2. ASSUME NEW explicit \in Cl!Given, NEW env \in Cl!Given, Cl!AdminCommand(p, explicit, env)
      PROVE  CacheInv'
  <2>1. Cl!Resolved(explicit, env) \in Cl!Token \cup {Cl!NotLoggedIn}
    BY <1>1, ResolvedTyped
  <2>2. hand[p].actor \in Operator \cup {NoOne}
    BY <1>1, HandIsTyped DEF Hands
  <2>3. /\ Cl!Done(p) /\ OwnOnly /\ cliFaults' = cliFaults
        /\ cliRequest' = IF Cl!Resolved(explicit, env) = Cl!NotLoggedIn THEN cliRequest
             ELSE [actor |-> hand[p].actor, token |-> Cl!Resolved(explicit, env)]
    BY <1>2 DEF Cl!AdminCommand, OwnOnly, Cl!files
  <2>4. (cliRequest.token \in Cl!Token /\ cliRequest.actor \in Operator \cup {NoOne})'
    BY <1>1, <2>1, <2>2, <2>3 DEF Cl!TypeOK
  <2> QED
    BY <1>1, <2>3, <2>4, OverKeeps DEF Cl!TypeOK
<1>3. CASE Cl!Die(p)
  <2>1. Cl!Done(p) /\ OwnOnly /\ cliRequest' = cliRequest /\ cliFaults' \in 0..MaxFailures
    BY <1>1, <1>3, GatewayConstants DEF Cl!Die, Cl!Fault, OwnOnly, Cl!files, Cl!TypeOK
  <2> QED
    BY <1>1, <2>1, OverKeeps DEF Cl!TypeOK
<1> QED
  BY <1>2, <1>3

\* One session more; the numbers of the old ones stay.
LEMMA OpenedGrows ==
  ASSUME Cl!TypeOK, NEW r \in Operator, Len(opened) < MaxSessions, opened' = Append(opened, r)
  PROVE  /\ opened' \in Seq(Operator) /\ Len(opened') <= MaxSessions
         /\ Len(opened') = Len(opened) + 1 /\ Len(opened') \in DOMAIN opened'
         /\ DOMAIN opened \subseteq DOMAIN opened' /\ DOMAIN opened' \subseteq Cl!Token
<1>1. opened \in Seq(Operator) /\ Len(opened) \in Nat /\ MaxSessions \in Nat
  BY GatewayConstants DEF Cl!TypeOK
<1>2. /\ opened' \in Seq(Operator) /\ Len(opened') = Len(opened) + 1
      /\ DOMAIN opened = 1..Len(opened) /\ DOMAIN opened' = 1..Len(opened')
  BY <1>1
<1> QED
  BY <1>1, <1>2 DEF Cl!Token, Cl!NoToken, Cl!Agent

LEMMA VerifyCodeKeeps ==
  ASSUME CacheInv, NEW p \in Process, NEW r \in Operator, Cl!VerifyCode(p, r)
  PROVE  CacheInv'
<1>1. Cl!TypeOK
  BY DEF CacheInv
<1>2. /\ Len(opened) < MaxSessions /\ opened' = Append(opened, r)
      /\ cliLive' = cliLive \cup {Len(opened')} /\ step[p] = "code"
      /\ UNCHANGED <<cache, tmp, body, overlap, posts, cliRequest>>
  BY DEF Cl!VerifyCode, Cl!files, Cl!At
<1>3. /\ opened' \in Seq(Operator) /\ Len(opened') <= MaxSessions
      /\ Len(opened') \in DOMAIN opened'
      /\ DOMAIN opened \subseteq DOMAIN opened' /\ DOMAIN opened' \subseteq Cl!Token
  BY <1>1, <1>2, OpenedGrows
<1>4. /\ cliLive' \subseteq DOMAIN opened' /\ body' \in [Cl!File -> DOMAIN opened' \cup {Cl!Half}]
  BY <1>1, <1>2, <1>3 DEF Cl!TypeOK
<1>5. step \in [Process -> Steps] /\ hand \in [Process -> Hands]
  BY <1>1 DEF Cl!TypeOK, Steps, Hands
<1>6. /\ step' \in [Process -> Steps] /\ hand' \in [Process -> Hands]
      /\ seen' \in [Process -> SUBSET (1..MaxPosts)] /\ cliFaults' \in 0..MaxFailures
      /\ \A q \in Process \ {p} : step'[q] = step[q] /\ hand'[q] = hand[q]
      /\ hand'[p].file = Cl!NoFile /\ step'[p] \in {"start", "verified"}
      /\ step'[p] = "verified" => hand'[p].session \in DOMAIN opened'
  <2>1. CASE Cl!At(p, "code", "verified") /\ UNCHANGED <<seen, cliFaults>>
             /\ hand' = [hand EXCEPT ![p].session = Len(opened')]
    <3>1. hand[p].file = Cl!NoFile
      BY <1>1, <1>2 DEF Cl!TypeOK, Cl!Writing
    <3> DEFINE mine == [hand[p] EXCEPT !.session = Len(opened')]
    <3>2. mine \in Hands /\ mine.file = Cl!NoFile /\ mine.session = Len(opened')
      BY <1>3, <1>5, <3>1 DEF Hands
    <3>3. hand' = [hand EXCEPT ![p] = mine]
      BY <2>1
    <3> HIDE DEF mine
    <3>4. step' = [step EXCEPT ![p] = "verified"] /\ "verified" \in Steps
      BY <2>1 DEF Cl!At, Steps
    <3>5. seen' \in [Process -> SUBSET (1..MaxPosts)] /\ cliFaults' \in 0..MaxFailures
      BY <1>1, <2>1 DEF Cl!TypeOK
    <3> QED
      BY <1>3, <1>5, <3>2, <3>3, <3>4, <3>5
  <2>2. CASE Cl!Fault /\ Cl!Done(p)
    <3>1. /\ step' = [step EXCEPT ![p] = "start"] /\ hand' = [hand EXCEPT ![p] = Cl!Nothing]
          /\ seen' = [seen EXCEPT ![p] = {}] /\ "start" \in Steps
      BY <2>2 DEF Cl!Done, Steps
    <3>2. Cl!Nothing \in Hands /\ Cl!Nothing.file = Cl!NoFile
      BY GatewayConstants DEF Cl!Nothing, Hands, Cl!Token, Cl!Agent, Cl!NoToken
    <3>3. cliFaults' \in 0..MaxFailures /\ seen' \in [Process -> SUBSET (1..MaxPosts)]
      BY <1>1, <2>2, <3>1, GatewayConstants DEF Cl!Fault, Cl!TypeOK
    <3> QED
      BY <1>5, <3>1, <3>2, <3>3
  <2> QED
    BY <2>1, <2>2 DEF Cl!VerifyCode
<1>7. \A q \in Process :
        /\ step'[q] = "verified" \/ step'[q] \in {"created", "written"} =>
             hand'[q].session \in DOMAIN opened'
        /\ step'[q] \in {"created", "written"} <=> hand'[q].file # Cl!NoFile
  <2> TAKE q \in Process
  <2>1. CASE q = p
    BY <1>6, <2>1
  <2>2. CASE q # p
    BY <1>1, <1>3, <1>6, <2>2 DEF Cl!TypeOK, Cl!Writing
  <2> QED
    BY <2>1, <2>2
<1>8. Cl!TypeOK'
  BY <1>1, <1>2, <1>3, <1>4, <1>6, <1>7 DEF Cl!TypeOK, Cl!Writing, Steps, Hands
<1>9. Untouched
  BY <1>2, <1>6 DEF Untouched, Cl!Writing
<1> QED
  BY <1>8, <1>9, UntouchedKeeps

\* The file that a login makes at .tmp, or empties there, is not the cache.
LEMMA FileForIsFree ==
  ASSUME CacheInv, NEW p \in Process, step[p] = "verified"
  PROVE  /\ Cl!FileFor(p) \in Cl!File
         /\ tmp = Cl!NoFile => Cl!FileFor(p) # cache /\ \A q \in Process : hand[q].file # Cl!FileFor(p)
<1>1. CASE tmp # Cl!NoFile
  BY <1>1 DEF Cl!FileFor, CacheInv, Cl!TypeOK
<1>2. CASE tmp = Cl!NoFile
  <2>1. hand[p].file = Cl!NoFile
    BY DEF CacheInv, Cl!TypeOK, Cl!Writing
  <2>2. PICK f \in Cl!File : f # cache /\ \A q \in Process \ {p} : hand[q].file # f
    BY SpareFile
  <2>3. f # Cl!NoFile
    BY GatewayConstants DEF Cl!File, Cl!NoFile
  <2>4. \E g \in Cl!File : g # cache /\ \A q \in Process : hand[q].file # g
    BY <2>1, <2>2, <2>3
  <2>5. Cl!FileFor(p) = CHOOSE g \in Cl!File : g # cache /\ \A q \in Process : hand[q].file # g
    BY <1>2 DEF Cl!FileFor
  <2> QED
    BY <2>4, <2>5
<1> QED
  BY <1>1, <1>2

LEMMA CreateTmpKeeps ==
  ASSUME CacheInv, NEW p \in Process, Cl!CreateTmp(p)
  PROVE  CacheInv'
<1> DEFINE f == Cl!FileFor(p)
           mine == [hand[p] EXCEPT !.file = f]
<1>1. Cl!TypeOK /\ step[p] = "verified"
  BY DEF CacheInv, Cl!CreateTmp, Cl!At
<1>2. f \in Cl!File /\ f # Cl!NoFile
  BY <1>1, FileForIsFree, GatewayConstants DEF Cl!File, Cl!NoFile
<1>3. /\ step' = [step EXCEPT ![p] = "created"] /\ tmp' = f /\ body' = [body EXCEPT ![f] = Cl!Half]
      /\ hand' = [hand EXCEPT ![p] = mine] /\ cache' = cache
      /\ overlap' = (overlap \/ \E q \in Process \ {p} : Cl!Writing(q))
      /\ UNCHANGED <<cliLive, opened, seen, posts, cliRequest, cliFaults>>
  BY DEF Cl!CreateTmp, Cl!CreateFile, Cl!At
<1>4. tmp # Cl!NoFile => f = tmp
  BY DEF Cl!FileFor
<1>5. tmp = Cl!NoFile => f # cache
  BY <1>1, FileForIsFree
<1> HIDE DEF f
<1>6. mine \in Hands /\ mine.file = f /\ mine.session = hand[p].session
  BY <1>1, <1>2, HandIsTyped DEF Hands
<1>7. mine.session \in DOMAIN opened /\ "created" \in Steps
  BY <1>1, <1>6 DEF Cl!TypeOK, Steps
<1> HIDE DEF mine
<1>8. /\ step' \in [Process -> Steps] /\ hand' \in [Process -> Hands]
      /\ \A q \in Process :
           /\ (step[q] = "verified" \/ Cl!Writing(q) => hand[q].session \in DOMAIN opened)'
           /\ (Cl!Writing(q) <=> hand[q].file # Cl!NoFile)'
  BY <1>1, <1>2, <1>3, <1>6, <1>7, ProcessTyped
<1>9. body' \in [Cl!File -> DOMAIN opened \cup {Cl!Half}] /\ overlap' \in BOOLEAN
  BY <1>1, <1>2, <1>3 DEF Cl!TypeOK
<1>10. Cl!TypeOK'
  BY <1>1, <1>2, <1>3, <1>8, <1>9 DEF Cl!TypeOK, Steps, Hands
<1>11. ASSUME ~overlap' PROVE Whole'
  <2>1. Whole /\ \A q \in Process \ {p} : ~Cl!Writing(q)
    BY <1>3, <1>11 DEF CacheInv
  <2>2. step \in [Process -> Steps] /\ hand \in [Process -> Hands]
        /\ body \in [Cl!File -> DOMAIN opened \cup {Cl!Half}]
    BY <1>1 DEF Cl!TypeOK, Steps, Hands
  <2>3. /\ step'[p] = "created" /\ hand'[p].file = f /\ body'[f] = Cl!Half
        /\ \A q \in Process \ {p} : step'[q] = step[q]
        /\ \A g \in Cl!File : g # f => body'[g] = body[g]
    BY <1>2, <1>3, <1>6, <2>2
  <2>4. \A q \in Process : step'[q] \in {"created", "written"} => q = p
    BY <2>1, <2>3 DEF Cl!Writing
  <2>5. f # cache
    BY <1>4, <1>5, <2>1 DEF Whole
  <2>6. cache # Cl!NoFile => cache \in Cl!File /\ body'[cache] # Cl!Half
    BY <1>1, <2>1, <2>3, <2>5 DEF Cl!TypeOK, Whole
  <2> QED
    BY <1>3, <2>3, <2>4, <2>5, <2>6 DEF Whole, Cl!Writing
<1> QED
  BY <1>10, <1>11 DEF CacheInv

LEMMA WriteTmpKeeps ==
  ASSUME CacheInv, NEW p \in Process, Cl!WriteTmp(p)
  PROVE  CacheInv'
<1> DEFINE f == hand[p].file
<1>1. Cl!TypeOK /\ step[p] = "created"
  BY DEF CacheInv, Cl!WriteTmp, Cl!At
<1>2. f \in Cl!File /\ hand[p].session \in DOMAIN opened
  BY <1>1, HandIsTyped DEF Cl!TypeOK, Cl!Writing, Hands
<1>3. hand[p].session # Cl!Half
  BY <1>1, <1>2 DEF Cl!TypeOK, Cl!Half
<1>4. /\ step' = [step EXCEPT ![p] = "written"]
      /\ UNCHANGED <<cliLive, opened, cache, tmp, hand, seen, posts, cliRequest, overlap, cliFaults>>
      /\ \/ body' = [body EXCEPT ![f] = hand[p].session]
         \/ body[f] # Cl!Half /\ body' = [body EXCEPT ![f] = Cl!Half]
  BY DEF Cl!WriteTmp, Cl!At
<1> HIDE DEF f
<1>5. hand' = [hand EXCEPT ![p] = hand[p]] /\ hand[p] \in Hands /\ "written" \in Steps
      /\ hand[p].file # Cl!NoFile
  BY <1>1, <1>4, HandIsTyped DEF Cl!TypeOK, Steps, Cl!Writing
<1>6. /\ step' \in [Process -> Steps] /\ hand' \in [Process -> Hands]
      /\ \A q \in Process :
           /\ (step[q] = "verified" \/ Cl!Writing(q) => hand[q].session \in DOMAIN opened)'
           /\ (Cl!Writing(q) <=> hand[q].file # Cl!NoFile)'
  BY <1>1, <1>2, <1>4, <1>5, ProcessTyped
<1>7. body' \in [Cl!File -> DOMAIN opened \cup {Cl!Half}]
  BY <1>1, <1>2, <1>4 DEF Cl!TypeOK
<1>8. Cl!TypeOK'
  BY <1>1, <1>4, <1>6, <1>7 DEF Cl!TypeOK, Steps, Hands
<1>9. ASSUME ~overlap' PROVE Whole'
  <2>1. Whole /\ step \in [Process -> Steps] /\ body \in [Cl!File -> DOMAIN opened \cup {Cl!Half}]
    BY <1>1, <1>4, <1>9 DEF CacheInv, Cl!TypeOK, Steps
  <2>2. \A q \in Process : Cl!Writing(q) => q = p
    BY <1>1, <2>1 DEF Whole, Cl!Writing
  <2>3. f = tmp /\ body[f] = Cl!Half /\ f # cache
    BY <1>1, <1>5, <2>1 DEF Whole, Cl!Writing, f
  <2>4. body'[f] # Cl!Half /\ \A g \in Cl!File : g # f => body'[g] = body[g]
    BY <1>2, <1>3, <1>4, <2>1, <2>3
  <2>5. step'[p] = "written" /\ \A q \in Process \ {p} : step'[q] = step[q]
    BY <1>4, <2>1
  <2>6. \A q \in Process : step'[q] \in {"created", "written"} => q = p
    BY <2>2, <2>5 DEF Cl!Writing
  <2>7. cache # Cl!NoFile => cache \in Cl!File /\ body'[cache] # Cl!Half
    BY <1>1, <2>1, <2>3, <2>4 DEF Cl!TypeOK, Whole
  <2> QED
    BY <1>4, <2>3, <2>4, <2>5, <2>6, <2>7 DEF Whole, Cl!Writing, f
<1> QED
  BY <1>8, <1>9 DEF CacheInv

LEMMA RenameKeeps ==
  ASSUME CacheInv, NEW p \in Process, Cl!Rename(p)
  PROVE  CacheInv'
<1>1. /\ Cl!TypeOK /\ step[p] = "written" /\ Cl!Done(p)
      /\ UNCHANGED <<cliLive, opened, body, posts, cliRequest, overlap, cliFaults>>
      /\ IF tmp = Cl!NoFile THEN UNCHANGED <<cache, tmp>> ELSE cache' = tmp /\ tmp' = Cl!NoFile
  BY DEF CacheInv, Cl!Rename
<1>2. /\ step' \in [Process -> Steps] /\ hand' \in [Process -> Hands]
      /\ seen' \in [Process -> SUBSET (1..MaxPosts)]
      /\ \A q \in Process :
           /\ (step[q] = "verified" \/ Cl!Writing(q) => hand[q].session \in DOMAIN opened)'
           /\ (Cl!Writing(q) <=> hand[q].file # Cl!NoFile)'
      /\ \A q \in Process : Cl!Writing(q)' =>
           q # p /\ step'[q] = step[q] /\ hand'[q].file = hand[q].file
  BY <1>1, DoneTyped
<1>3. {cache', tmp'} \subseteq Cl!File \cup {Cl!NoFile}
  BY <1>1 DEF Cl!TypeOK
<1>4. Cl!TypeOK'
  BY <1>1, <1>2, <1>3 DEF Cl!TypeOK, Steps, Hands
<1>5. ASSUME ~overlap' PROVE Whole'
  <2>1. Whole
    BY <1>1, <1>5 DEF CacheInv
  <2>2. \A q \in Process : ~Cl!Writing(q)'
    BY <1>1, <1>2, <2>1 DEF Whole, Cl!Writing
  <2>3. \A q \in Process : step'[q] # "created" /\ step'[q] # "written"
    BY <2>2 DEF Cl!Writing
  <2>4. hand[p].file = tmp /\ body[tmp] # Cl!Half
    BY <1>1, <2>1 DEF Whole, Cl!Writing
  <2> QED
    BY <1>1, <2>1, <2>2, <2>3, <2>4 DEF Whole
<1> QED
  BY <1>4, <1>5 DEF CacheInv

LEMMA EndSessionKeeps ==
  ASSUME CacheInv, NEW p \in Process, NEW explicit \in Cl!Given, NEW env \in Cl!Given,
         Cl!EndSession(p, explicit, env)
  PROVE  CacheInv'
<1>1. /\ Cl!TypeOK /\ step[p] = "start" /\ step' = [step EXCEPT ![p] = "leaving"]
      /\ cliLive' \subseteq cliLive
      /\ UNCHANGED <<opened, cache, tmp, body, overlap, hand, seen, posts, cliRequest>>
      /\ cliFaults' \in 0..MaxFailures
  <2>1. MaxFailures \in Nat
    BY GatewayConstants
  <2> QED
    BY <2>1 DEF CacheInv, Cl!EndSession, Cl!At, Cl!files, Cl!Fault, Cl!TypeOK
<1>2. hand' = [hand EXCEPT ![p] = hand[p]] /\ hand[p] \in Hands /\ "leaving" \in Steps
      /\ hand[p].file = Cl!NoFile
  BY <1>1, HandIsTyped DEF Cl!TypeOK, Steps, Cl!Writing
<1>3. /\ step' \in [Process -> Steps] /\ hand' \in [Process -> Hands]
      /\ \A q \in Process :
           /\ (step[q] = "verified" \/ Cl!Writing(q) => hand[q].session \in DOMAIN opened)'
           /\ (Cl!Writing(q) <=> hand[q].file # Cl!NoFile)'
  BY <1>1, <1>2, ProcessTyped
<1>4. Cl!TypeOK'
  BY <1>1, <1>3 DEF Cl!TypeOK, Steps, Hands
<1>5. step \in [Process -> Steps]
  BY <1>1 DEF Cl!TypeOK, Steps
<1>6. Untouched
  BY <1>1, <1>5 DEF Untouched, Cl!Writing
<1> QED
  BY <1>4, <1>6, UntouchedKeeps

LEMMA DeleteCacheKeeps ==
  ASSUME CacheInv, NEW p \in Process, Cl!DeleteCache(p)
  PROVE  CacheInv'
<1>1. /\ Cl!TypeOK /\ step[p] = "leaving" /\ Cl!Done(p) /\ cache' = Cl!NoFile
      /\ UNCHANGED <<cliLive, opened, tmp, body, posts, cliRequest, overlap, cliFaults>>
  BY DEF CacheInv, Cl!DeleteCache
<1>2. /\ step' \in [Process -> Steps] /\ hand' \in [Process -> Hands]
      /\ seen' \in [Process -> SUBSET (1..MaxPosts)]
      /\ \A q \in Process :
           /\ (step[q] = "verified" \/ Cl!Writing(q) => hand[q].session \in DOMAIN opened)'
           /\ (Cl!Writing(q) <=> hand[q].file # Cl!NoFile)'
      /\ \A q \in Process : Cl!Writing(q)' =>
           q # p /\ step'[q] = step[q] /\ hand'[q].file = hand[q].file
  BY <1>1, DoneTyped
<1>3. Cl!TypeOK'
  BY <1>1, <1>2 DEF Cl!TypeOK, Steps, Hands
<1>4. ASSUME ~overlap' PROVE Whole'
  <2>1. Whole
    BY <1>1, <1>4 DEF CacheInv
  <2>2. \A q \in Process : Cl!Writing(q)' =>
          Cl!Writing(q) /\ step'[q] = step[q] /\ hand'[q].file = hand[q].file
    BY <1>2 DEF Cl!Writing
  <2>3. \A q \in Process : step'[q] \in {"created", "written"} => Cl!Writing(q)'
    BY DEF Cl!Writing
  <2> QED
    BY <1>1, <2>1, <2>2, <2>3 DEF Whole
<1> QED
  BY <1>3, <1>4 DEF CacheInv

LEMMA TailRoundKeeps ==
  ASSUME CacheInv, NEW p \in Process, Cl!TailRound(p)
  PROVE  CacheInv'
<1>1. /\ Cl!TypeOK /\ OwnOnly /\ cliFaults' = cliFaults /\ step[p] = "following"
      /\ cliRequest' = [actor |-> NoOne, token |-> hand[p].session]
  BY DEF CacheInv, Cl!TailRound, OwnOnly, Cl!files
<1>2. (cliRequest.token \in Cl!Token /\ cliRequest.actor \in Operator \cup {NoOne})'
  BY <1>1, HandIsTyped DEF Hands
<1>3. CASE Cl!Done(p)
  BY <1>1, <1>2, <1>3, OverKeeps DEF Cl!TypeOK
<1>4. CASE UNCHANGED <<step, hand>>
           /\ seen' = [seen EXCEPT ![p] = @ \cup {m \in 1..posts : m + TailWindow > posts}]
  <2>1. seen' \in [Process -> SUBSET (1..MaxPosts)]
    BY <1>1, <1>4, GatewayConstants DEF Cl!TypeOK
  <2>2. /\ step' \in [Process -> Steps] /\ hand' \in [Process -> Hands] /\ opened' = opened
    BY <1>1, <1>4 DEF Cl!TypeOK, Steps, Hands, OwnOnly
  <2>3. \A q \in Process :
          /\ (step[q] = "verified" \/ Cl!Writing(q) => hand[q].session \in DOMAIN opened)'
          /\ (Cl!Writing(q) <=> hand[q].file # Cl!NoFile)'
    BY <1>1, <1>4, <2>2 DEF Cl!TypeOK, Cl!Writing
  <2> QED
    BY <1>1, <1>2, <1>4, <2>1, <2>2, <2>3, OwnKeeps DEF Cl!TypeOK
<1> QED
  BY <1>3, <1>4 DEF Cl!TailRound

LEMMA PostKeeps == ASSUME CacheInv, Cl!Post PROVE CacheInv'
<1>1. /\ Cl!TypeOK /\ posts' \in 0..MaxPosts
      /\ UNCHANGED <<cliLive, opened, cache, tmp, body, overlap, step, hand, seen, cliRequest, cliFaults>>
  BY GatewayConstants DEF CacheInv, Cl!Post, Cl!TypeOK, Cl!files
<1>2. Cl!TypeOK'
  BY <1>1 DEF Cl!TypeOK, Cl!Writing
<1>3. Untouched
  BY <1>1 DEF Untouched
<1> QED
  BY <1>2, <1>3, UntouchedKeeps

LEMMA CacheStep == ASSUME CacheInv, [Cl!Next]_cliVars PROVE CacheInv'
<1>1. ASSUME NEW p \in Process, NEW explicit \in Cl!Given, NEW env \in Cl!Given,
             \/ Cl!SessionCommand(p, explicit, env)
             \/ \E agent \in BOOLEAN : Cl!ShellCommand(p, agent, explicit, env)
             \/ \E sidecar \in {Cl!Agent, Cl!NoToken} :
                  \/ Cl!AdminReadCommand(p, explicit, env, sidecar)
                  \/ \E agent \in BOOLEAN :
                       \/ Cl!MessageCommand(p, agent, explicit, env, sidecar)
                       \/ Cl!ReadCommand(p, agent, explicit, env, sidecar)
      PROVE  CacheInv'
  <2>1. Cl!TypeOK
    BY DEF CacheInv
  <2>2. Cl!NoToken \in {Cl!Agent, Cl!NoToken} /\ FALSE \in BOOLEAN
    OBVIOUS
  <2>3. PICK token \in Cl!Token \cup {Cl!NotLoggedIn} : Cl!Send(p, NoOne, token)
    BY <1>1, <2>1, <2>2, ResolvedTyped, TokensTyped
       DEF Cl!SessionCommand, Cl!ShellCommand, Cl!AdminReadCommand, Cl!MessageCommand, Cl!ReadCommand
  <2> QED
    BY <2>3, SendKeeps
<1>2. ASSUME NEW p \in Process, NEW explicit \in Cl!Given, NEW env \in Cl!Given,
             \/ Cl!AdminCommand(p, explicit, env) \/ Cl!EndSession(p, explicit, env)
             \/ \E agent \in BOOLEAN, sidecar \in {Cl!Agent, Cl!NoToken} :
                  Cl!Follow(p, agent, explicit, env, sidecar)
      PROVE  CacheInv'
  BY <1>2, LastRequestKeeps, EndSessionKeeps, FollowKeeps
<1>3. ASSUME NEW p \in Process, Cl!OpenCommand(p) PROVE CacheInv'
  <2>1. Cl!NoToken \in Cl!Token
    BY GatewayConstants DEF Cl!Token, Cl!NoToken, Cl!Agent
  <2> QED
    BY <1>3, <2>1, SendKeeps DEF Cl!OpenCommand
<1>4. ASSUME NEW p \in Process, NEW actor \in Operator \cup {NoOne}, Cl!NameActor(p, actor)
      PROVE  CacheInv'
  BY <1>4, NameActorKeeps
<1>5. ASSUME NEW p \in Process,
             \/ Cl!RequestCode(p) \/ Cl!CreateTmp(p) \/ Cl!WriteTmp(p) \/ Cl!Rename(p)
             \/ Cl!DeleteCache(p) \/ Cl!TailRound(p) \/ Cl!Die(p)
      PROVE  CacheInv'
  BY <1>5, RequestCodeKeeps, CreateTmpKeeps, WriteTmpKeeps, RenameKeeps, DeleteCacheKeeps,
     TailRoundKeeps, LastRequestKeeps
<1>6. ASSUME NEW p \in Process, NEW r \in Operator, Cl!VerifyCode(p, r) PROVE CacheInv'
  BY <1>6, VerifyCodeKeeps
<1>7. CASE Cl!Post
  BY <1>7, PostKeeps
<1>8. CASE UNCHANGED cliVars
  <2>1. UNCHANGED <<cliLive, opened, cache, tmp, body, step, hand, seen, posts, cliRequest,
                    overlap, cliFaults>>
    BY <1>8 DEF cliVars
  <2> QED
    BY <2>1 DEF CacheInv, Cl!TypeOK, Cl!Writing, Whole
<1> QED
  BY <1>1, <1>2, <1>3, <1>4, <1>5, <1>6, <1>7, <1>8 DEF Cl!Next

\* However commands, logins and logouts of any number of processes are
\* interleaved, and wherever they are killed: the cached session is whole
\* unless two logins wrote at the same time.
THEOREM CacheStaysWhole == GatewaySpec => []CacheIsWhole
<1>1. GatewayInit => CacheInv
  BY PartsStart, CacheStarts
<1>2. CacheInv /\ [GatewayNext]_gatewayVars => CacheInv'
  BY OneAtATime, CacheStep
<1>3. CacheInv => CacheIsWhole
  BY DEF CacheInv, Whole, CacheIsWhole, Cl!CacheIsWhole, Cl!Unreadable
<1>4. QED
  BY <1>1, <1>2, <1>3, PTL DEF GatewaySpec

----------------------------------------------------------------------------
(* The shell.  A message may be archived before an earlier one, so that what *)
(* is shown of a room is no interval; but an active message that comes       *)
(* before one that is shown is shown, too, or comes before them all.         *)

\* The numbers below another one are well-founded, so some are the least.
Below == {p \in Nat \X Nat : p[1] < p[2]}

LEMMA LeastNumber ==
  ASSUME NEW T, T \subseteq Nat, T # {}
  PROVE  \E x \in T : \A y \in T : x <= y
<1>1. IsWellFoundedOn(Below, Nat)
  BY NatLessThanWellFounded, Zenon DEF OpToRel, Below
<1>2. PICK x \in T : \A y \in T : ~(<<y, x>> \in Below)
  BY <1>1, WFMin, Zenon
<1>3. ASSUME NEW y \in T PROVE x <= y
  <2>1. x \in Nat /\ y \in Nat /\ ~(<<y, x>> \in Below)
    BY <1>2
  <2>2. ~(y < x)
    BY <2>1 DEF Below
  <2> QED BY <2>1, <2>2
<1> QED BY <1>3

\* Max is the greatest of some numbers that are bounded.
LEMMA GreatestNumber ==
  ASSUME NEW S, S \subseteq Nat, S # {}, NEW n \in Nat, \A s \in S : s <= n
  PROVE  Sh!Max(S) \in S /\ \A s \in S : s <= Sh!Max(S)
<1> DEFINE T == {m \in Nat : \A s \in S : s <= m}
<1>1. PICK u \in T : \A m \in T : u <= m
  <2>1. n \in T /\ T \subseteq Nat
    OBVIOUS
  <2> HIDE DEF T
  <2> QED BY <2>1, LeastNumber
<1>2. u \in S
  <2> SUFFICES ASSUME u \notin S PROVE FALSE
    OBVIOUS
  <2>1. ASSUME NEW s \in S PROVE s <= u - 1
    <3>1. s \in Nat /\ u \in Nat /\ s <= u /\ s # u
      BY <1>1
    <3> QED BY <3>1
  <2>2. u # 0
    <3>1. PICK s \in S : s \in Nat /\ u \in Nat /\ s <= u - 1
      BY <1>1, <2>1
    <3> QED BY <3>1
  <2>3. u - 1 \in T
    BY <1>1, <2>1, <2>2
  <2> QED BY <1>1, <2>3
<1>3. \E x \in S : \A y \in S : x >= y
  BY <1>1, <1>2
<1>4. Sh!Max(S) \in S /\ \A y \in S : Sh!Max(S) >= y
  BY <1>3, Zenon DEF Sh!Max
<1> QED
  BY <1>4

\* The instance counts as everybody does.
LEMMA FewerIn ==
  ASSUME NEW S, IsFiniteSet(S), NEW T \in SUBSET S
  PROVE  /\ Sh!Cardinality(T) \in Nat /\ Sh!Cardinality(S) \in Nat
         /\ Sh!Cardinality(T) <= Sh!Cardinality(S)
         /\ Sh!Cardinality(S) = Sh!Cardinality(T) => S = T
<1>1. \A U : Sh!Cardinality(U) = Cardinality(U)
  BY DEF Sh!Cardinality, Cardinality
<1>2. IsFiniteSet(T) /\ Cardinality(T) <= Cardinality(S) /\ (Cardinality(S) = Cardinality(T) => S = T)
  BY FS_Subset
<1>3. Cardinality(T) \in Nat /\ Cardinality(S) \in Nat
  BY <1>2, FS_CardinalityType
<1> QED BY <1>1, <1>2, <1>3

\* The bounds.
LEMMA ShellBounds ==
  /\ Window \in Nat /\ History \in Nat /\ MaxTime \in Nat \ {0} /\ LastId \in Nat
  /\ MaxShown \in Nat /\ MaxAmended \in Nat /\ MaxAge \in Nat
<1>1. {Window, History, MaxTime, LastId} \subseteq Nat \ {0}
  BY GatewayConstants
<1>2. {MaxShown, MaxAmended, MaxAge} \subseteq Nat
  BY GatewayConstants
<1> QED BY <1>1, <1>2

ShellEntry ==
  [id : 1..LastId, at : 1..MaxTime, text : Said, edited : 0..MaxTime,
   recalled : 0..MaxTime, archived : BOOLEAN]

ShellTyped ==
  /\ timeline \in [Place -> Seq(ShellEntry)]
  /\ visible \subseteq Place /\ frozen \subseteq Place
  /\ shellNow \in 1..MaxTime /\ counter \in 0..MaxShown /\ shellChanges \in 0..MaxAmended
  /\ twice \in BOOLEAN

\* Nothing was edited or recalled in the future.
Dated(r) ==
  \A k \in DOMAIN timeline[r] :
    timeline[r][k].edited <= shellNow /\ timeline[r][k].recalled <= shellNow

\* The entries of one room.
LEMMA EntriesTyped ==
  ASSUME ShellTyped, NEW r \in Place
  PROVE  /\ timeline[r] \in Seq(ShellEntry)
         /\ Len(timeline[r]) \in Nat /\ DOMAIN timeline[r] = 1..Len(timeline[r])
         /\ IsFiniteSet(DOMAIN timeline[r])
         /\ \A k \in DOMAIN timeline[r] : timeline[r][k] \in ShellEntry
<1>1. timeline[r] \in Seq(ShellEntry)
  BY DEF ShellTyped
<1>2. Len(timeline[r]) \in Nat /\ DOMAIN timeline[r] = 1..Len(timeline[r])
  BY <1>1
<1>3. IsFiniteSet(1..Len(timeline[r]))
  BY <1>2, FS_Interval
<1> QED BY <1>1, <1>2, <1>3

\* An active message that comes after a recent one is recent.
LEMMA RecentAreLast ==
  ASSUME ShellTyped, NEW r \in Place,
         NEW g \in Sh!Recent(r, History), NEW k \in Sh!Active(r), g < k
  PROVE  k \in Sh!Recent(r, History)
<1> DEFINE after(i) == {j \in Sh!Active(r) : j > i}
<1>1. /\ Sh!Active(r) \subseteq DOMAIN timeline[r] /\ IsFiniteSet(DOMAIN timeline[r])
      /\ Sh!Active(r) \subseteq Nat /\ History \in Nat /\ g \in Sh!Active(r)
      /\ Sh!Cardinality(after(g)) < History
  BY EntriesTyped, ShellBounds DEF Sh!Active, Sh!Recent
<1>2. IsFiniteSet(after(g))
  <2>1. after(g) \in SUBSET DOMAIN timeline[r]
    BY <1>1
  <2> HIDE DEF after
  <2> QED BY <1>1, <2>1, FS_Subset
<1>3. after(k) \in SUBSET after(g)
  BY <1>1
<1> HIDE DEF after
<1>4. Sh!Cardinality(after(k)) < History
  <2>1. /\ Sh!Cardinality(after(k)) \in Nat /\ Sh!Cardinality(after(g)) \in Nat
        /\ Sh!Cardinality(after(k)) <= Sh!Cardinality(after(g))
    BY <1>2, <1>3, FewerIn
  <2> QED BY <1>1, <2>1
<1> QED BY <1>4 DEF Sh!Recent, after

\* A recent message that comes before one that is shown is shown.
LEMMA ShownAreFirst ==
  ASSUME ShellTyped, NEW r \in Place,
         NEW h \in Sh!ShellRecent(r), NEW k \in Sh!Recent(r, History), k < h
  PROVE  k \in Sh!ShellRecent(r)
<1> DEFINE before(i) == {j \in Sh!Recent(r, History) : j < i}
<1>1. /\ Sh!Recent(r, History) \subseteq DOMAIN timeline[r] /\ IsFiniteSet(DOMAIN timeline[r])
      /\ Sh!Recent(r, History) \subseteq Nat /\ Window \in Nat /\ h \in Sh!Recent(r, History)
      /\ Sh!Cardinality(before(h)) < Window
  BY EntriesTyped, ShellBounds DEF Sh!Active, Sh!Recent, Sh!ShellRecent
<1>2. IsFiniteSet(before(h))
  <2>1. before(h) \in SUBSET DOMAIN timeline[r]
    BY <1>1
  <2> HIDE DEF before
  <2> QED BY <1>1, <2>1, FS_Subset
<1>3. before(k) \in SUBSET before(h)
  BY <1>1
<1> HIDE DEF before
<1>4. Sh!Cardinality(before(k)) < Window
  <2>1. /\ Sh!Cardinality(before(k)) \in Nat /\ Sh!Cardinality(before(h)) \in Nat
        /\ Sh!Cardinality(before(k)) <= Sh!Cardinality(before(h))
    BY <1>2, <1>3, FewerIn
  <2> QED BY <1>1, <2>1
<1> QED BY <1>4 DEF Sh!ShellRecent, before

\* Some positions of a room, without a gap that is not accounted for.
Page(r, S) ==
  /\ S \subseteq DOMAIN timeline[r]
  /\ \A k \in DOMAIN timeline[r] \ S : \A h \in S :
       k < h => timeline[r][k].archived \/ \A g \in S : k < g

LEMMA PageShown ==
  ASSUME ShellTyped, NEW r \in Place
  PROVE  Page(r, Sh!ShellRecent(r))
<1>1. Sh!ShellRecent(r) \subseteq DOMAIN timeline[r] /\ DOMAIN timeline[r] \subseteq Nat
  BY EntriesTyped DEF Sh!ShellRecent, Sh!Recent, Sh!Active
<1>2. ASSUME NEW k \in DOMAIN timeline[r] \ Sh!ShellRecent(r), NEW h \in Sh!ShellRecent(r),
             k < h, ~timeline[r][k].archived, NEW g \in Sh!ShellRecent(r)
      PROVE  k < g
  <2>1. k \in Sh!Active(r)
    BY <1>2 DEF Sh!Active
  <2>2. k \notin Sh!Recent(r, History)
    BY <1>2, ShownAreFirst
  <2>3. ~(g < k)
    <3>1. g \in Sh!Recent(r, History)
      BY DEF Sh!ShellRecent
    <3> QED BY <2>1, <2>2, <3>1, RecentAreLast
  <2>4. k # g /\ k \in Nat /\ g \in Nat
    BY <1>1, <1>2
  <2> QED BY <2>3, <2>4
<1> QED BY <1>1, <1>2 DEF Page

\* What the client holds, which it fetched at some earlier moment.
HeldOf(r) == DOMAIN held.shown[r].messages
Held(r, k) == held.shown[r].messages[k]

\* Everything the client has seen was edited, or recalled, before t.
EditedBefore(t) == \A r \in DOMAIN held.shown : \A k \in HeldOf(r) : Held(r, k).edited < t
RecalledBefore(t) == \A r \in DOMAIN held.shown : \A k \in HeldOf(r) : Held(r, k).recalled < t

\* A copy of an entry: what was done to the entry since was done later than
\* everything that the client has seen.
Copied(h, e) ==
  /\ h = [id |-> h.id, at |-> h.at, edited |-> h.edited, recalled |-> h.recalled, text |-> h.text]
  /\ h.id = e.id /\ h.at = e.at
  /\ h.edited \in Nat /\ h.edited <= e.edited /\ h.recalled \in Nat /\ h.recalled <= e.recalled
  /\ IF h.recalled # 0 THEN h.text = Withdrawn
     ELSE h.edited = e.edited /\ ~twice => h.text = e.text
  /\ ~twice /\ h.edited # e.edited => EditedBefore(e.edited)
  /\ ~twice /\ h.recalled # e.recalled => RecalledBefore(e.recalled)

HeldShape ==
  /\ held = [version |-> held.version, shown |-> held.shown]
  /\ held.version = Sh!StateVersion(held.shown)
  /\ held.shown = [r \in DOMAIN held.shown |-> held.shown[r]]
  /\ DOMAIN held.shown \subseteq Place
  /\ \A r \in DOMAIN held.shown :
       /\ held.shown[r] = [messages |-> held.shown[r].messages, frozen |-> held.shown[r].frozen]
       /\ held.shown[r].messages = [k \in HeldOf(r) |-> Held(r, k)]

HeldPages == \A r \in DOMAIN held.shown : Page(r, HeldOf(r))

HeldCopies ==
  \A r \in DOMAIN held.shown : \A k \in HeldOf(r) :
    k \in DOMAIN timeline[r] /\ Copied(Held(r, k), timeline[r][k])

ShellInv ==
  /\ ShellTyped
  /\ \A r \in Place : Dated(r)
  /\ HeldShape /\ HeldPages /\ HeldCopies

\* What was just fetched is what there is.
LEMMA FetchHolds == ShellTyped /\ held = Sh!Snapshot => HeldShape /\ HeldPages /\ HeldCopies
<1> SUFFICES ASSUME ShellTyped, held = Sh!Snapshot PROVE HeldShape /\ HeldPages /\ HeldCopies
  OBVIOUS
<1> DEFINE page(r) == [k \in Sh!ShellRecent(r) |-> Sh!Projected(timeline[r][k])]
<1>1. /\ held = [version |-> Sh!StateVersion(Sh!Shown), shown |-> Sh!Shown]
      /\ held.shown = Sh!Shown /\ held.version = Sh!StateVersion(Sh!Shown)
  BY DEF Sh!Snapshot
<1>2. held.shown = [r \in visible |-> [messages |-> page(r), frozen |-> r \in frozen]]
  BY <1>1 DEF Sh!Shown
<1>3. DOMAIN held.shown = visible /\ visible \subseteq Place
  BY <1>2 DEF ShellTyped
<1>4. ASSUME NEW r \in visible
      PROVE  /\ held.shown[r] = [messages |-> page(r), frozen |-> r \in frozen]
             /\ held.shown[r].messages = page(r)
  BY <1>2
<1>5. ASSUME NEW r \in visible
      PROVE  /\ HeldOf(r) = Sh!ShellRecent(r)
             /\ \A k \in HeldOf(r) : Held(r, k) = Sh!Projected(timeline[r][k])
  BY <1>4 DEF HeldOf, Held
<1>6. HeldShape
  <2>1. ASSUME NEW r \in visible
        PROVE  /\ held.shown[r] = [messages |-> held.shown[r].messages, frozen |-> held.shown[r].frozen]
               /\ held.shown[r].messages = [k \in HeldOf(r) |-> Held(r, k)]
    <3> DEFINE cold == r \in frozen
    <3>1. held.shown[r] = [messages |-> held.shown[r].messages, frozen |-> held.shown[r].frozen]
      <4>1. held.shown[r] = [messages |-> page(r), frozen |-> cold]
        BY <1>4
      <4> HIDE DEF page, cold
      <4> QED BY <4>1
    <3>2. page(r) = [k \in HeldOf(r) |-> Held(r, k)]
      BY <1>5
    <3> HIDE DEF page
    <3> QED BY <1>4, <3>1, <3>2
  <2>2. held.shown = [r \in DOMAIN held.shown |-> held.shown[r]]
    BY <1>2
  <2> HIDE DEF page
  <2> QED BY <1>1, <1>3, <2>1, <2>2 DEF HeldShape
<1>7. HeldPages
  BY <1>3, <1>5, PageShown DEF HeldPages
<1>8. HeldCopies
  <2> SUFFICES ASSUME NEW r \in visible, NEW k \in HeldOf(r)
               PROVE  k \in DOMAIN timeline[r] /\ Copied(Held(r, k), timeline[r][k])
    BY <1>3 DEF HeldCopies
  <2>1. k \in DOMAIN timeline[r]
    BY <1>3, <1>5, PageShown DEF Page
  <2>2. timeline[r][k] \in ShellEntry
    BY <1>3, <2>1, EntriesTyped
  <2>3. Held(r, k) = Sh!Projected(timeline[r][k])
    BY <1>5
  <2>4. timeline[r][k].edited \in Nat /\ timeline[r][k].recalled \in Nat
    BY <2>2 DEF ShellEntry
  <2> QED BY <2>1, <2>3, <2>4 DEF Copied, Sh!Projected
<1> QED BY <1>6, <1>7, <1>8

LEMMA ShellStarts == ASSUME Sh!Init PROVE ShellInv
<1>1. /\ timeline = [r \in Place |-> <<>>] /\ visible = Place /\ frozen = {}
      /\ shellNow = 1 /\ counter = 0 /\ shellChanges = 0 /\ twice = FALSE
      /\ held = Sh!Snapshot
  BY DEF Sh!Init
<1>2. ShellTyped
  <2>1. 1 \in 1..MaxTime /\ 0 \in 0..MaxShown /\ 0 \in 0..MaxAmended
    BY ShellBounds
  <2>2. timeline \in [Place -> Seq(ShellEntry)]
    BY <1>1
  <2> QED BY <1>1, <2>1, <2>2 DEF ShellTyped
<1>3. \A r \in Place : Dated(r)
  BY <1>1 DEF Dated
<1> QED BY <1>1, <1>2, <1>3, FetchHolds DEF ShellInv

\* What may become of an entry.
Follows(e, f) ==
  /\ f.id = e.id /\ f.at = e.at /\ (e.archived => f.archived)
  /\ e.edited <= f.edited /\ e.recalled <= f.recalled
  /\ ~twice' =>
       /\ ~twice
       /\ f.edited = e.edited => f.text = e.text
       /\ f.edited # e.edited => EditedBefore(f.edited)
       /\ f.recalled # e.recalled => RecalledBefore(f.recalled)

LEMMA CopiesFollow ==
  ASSUME UNCHANGED held, NEW h, NEW e \in ShellEntry, NEW f \in ShellEntry,
         Copied(h, e), Follows(e, f)
  PROVE  Copied(h, f)'
<1>1. /\ \A t : EditedBefore(t) => EditedBefore(t)'
      /\ \A t : RecalledBefore(t) => RecalledBefore(t)'
  BY DEF EditedBefore, RecalledBefore, HeldOf, Held
<1>2. /\ e.edited \in Nat /\ f.edited \in Nat /\ e.recalled \in Nat /\ f.recalled \in Nat
      /\ h.edited \in Nat /\ h.recalled \in Nat
  BY DEF ShellEntry, Copied
<1>3. h.edited <= f.edited /\ h.recalled <= f.recalled
  BY <1>2 DEF Copied, Follows
<1>4. ASSUME ~twice', h.edited = f.edited PROVE ~twice /\ h.edited = e.edited /\ f.text = e.text
  BY <1>2, <1>4 DEF Copied, Follows
<1>5. ASSUME ~twice', h.edited # f.edited PROVE EditedBefore(f.edited)'
  BY <1>1, <1>5 DEF Copied, Follows
<1>6. ASSUME ~twice', h.recalled # f.recalled PROVE RecalledBefore(f.recalled)'
  BY <1>1, <1>6 DEF Copied, Follows
<1>7. /\ h = [id |-> h.id, at |-> h.at, edited |-> h.edited, recalled |-> h.recalled, text |-> h.text]
      /\ h.id = f.id /\ h.at = f.at
  BY DEF Copied, Follows
<1>8. IF h.recalled # 0 THEN h.text = Withdrawn
      ELSE h.edited = f.edited /\ ~twice' => h.text = f.text
  BY <1>4 DEF Copied, Follows
<1> QED BY <1>2, <1>3, <1>5, <1>6, <1>7, <1>8 DEF Copied

\* The client's copy stays one when entries are added and marked.
LEMMA HeldStays ==
  ASSUME ShellInv, ShellTyped', UNCHANGED held,
         \A r \in Place : \A k \in DOMAIN timeline[r] :
           k \in DOMAIN timeline'[r] /\ Follows(timeline[r][k], timeline'[r][k])
  PROVE  HeldShape' /\ HeldPages' /\ HeldCopies'
<1>1. HeldShape'
  BY DEF ShellInv, HeldShape, HeldOf, Held
<1>2. \A r : HeldOf(r)' = HeldOf(r) /\ \A k : Held(r, k)' = Held(r, k)
  BY DEF HeldOf, Held
<1>3. ASSUME NEW r \in Place
      PROVE  /\ timeline[r] \in Seq(ShellEntry) /\ timeline'[r] \in Seq(ShellEntry)
             /\ DOMAIN timeline[r] = 1..Len(timeline[r])
             /\ DOMAIN timeline'[r] = 1..Len(timeline'[r])
             /\ Len(timeline[r]) \in Nat /\ Len(timeline'[r]) \in Nat
  BY DEF ShellInv, ShellTyped
<1>4. HeldCopies'
  <2> SUFFICES ASSUME NEW r \in DOMAIN held.shown, NEW k \in HeldOf(r)
               PROVE  k \in DOMAIN timeline'[r] /\ Copied(Held(r, k), timeline[r][k])'
    BY <1>2, Zenon DEF HeldCopies
  <2>1. r \in Place /\ k \in DOMAIN timeline[r] /\ Copied(Held(r, k), timeline[r][k])
    BY DEF ShellInv, HeldShape, HeldCopies
  <2>2. /\ k \in DOMAIN timeline'[r] /\ Follows(timeline[r][k], timeline'[r][k])
        /\ timeline[r][k] \in ShellEntry /\ timeline'[r][k] \in ShellEntry
    BY <1>3, <2>1
  <2>3. PICK h, f : h = Held(r, k) /\ f = timeline'[r][k]
    OBVIOUS
  <2>4. Copied(h, f)'
    BY <2>1, <2>2, <2>3, CopiesFollow
  <2>5. Copied(Held(r, k), timeline[r][k])'
    BY <1>2, <2>3, <2>4 DEF Copied
  <2> QED BY <2>2, <2>5
<1>5. HeldPages'
  <2> SUFFICES ASSUME NEW r \in DOMAIN held.shown PROVE Page(r, HeldOf(r))'
    BY DEF HeldPages
  <2>1. r \in Place /\ Page(r, HeldOf(r))
    BY DEF ShellInv, HeldShape, HeldPages
  <2>2. HeldOf(r)' \subseteq DOMAIN timeline'[r]
    BY <1>2, <2>1 DEF Page
  <2>3. ASSUME NEW k \in DOMAIN timeline'[r] \ HeldOf(r), NEW h \in HeldOf(r), k < h
        PROVE  timeline'[r][k].archived \/ \A g \in HeldOf(r) : k < g
    <3>1. k \in DOMAIN timeline[r]
      <4>1. k \in Nat /\ 1 <= k /\ h \in 1..Len(timeline[r]) /\ Len(timeline[r]) \in Nat
        BY <1>3, <2>1 DEF Page
      <4> QED BY <1>3, <2>1, <2>3, <4>1
    <3>2. timeline[r][k].archived \/ \A g \in HeldOf(r) : k < g
      BY <2>1, <2>3, <3>1 DEF Page
    <3> QED BY <2>1, <3>1, <3>2 DEF Follows
  <2> QED BY <1>2, <2>2, <2>3 DEF Page
<1> QED BY <1>1, <1>4, <1>5

\* An edit, or a recall, that is newer than all others is newer than all that
\* the client has seen.
LEMMA NothingSeenNow ==
  ASSUME ShellInv
  PROVE  /\ (\A r \in Place : \A k \in DOMAIN timeline[r] : timeline[r][k].edited # shellNow)
              => EditedBefore(shellNow)
         /\ (\A r \in Place : \A k \in DOMAIN timeline[r] : timeline[r][k].recalled # shellNow)
              => RecalledBefore(shellNow)
<1>1. ASSUME NEW r \in DOMAIN held.shown, NEW k \in HeldOf(r)
      PROVE  /\ r \in Place /\ k \in DOMAIN timeline[r]
             /\ timeline[r][k].edited # shellNow => Held(r, k).edited < shellNow
             /\ timeline[r][k].recalled # shellNow => Held(r, k).recalled < shellNow
  <2>1. r \in Place /\ k \in DOMAIN timeline[r] /\ Copied(Held(r, k), timeline[r][k])
    BY DEF ShellInv, HeldShape, HeldCopies
  <2>2. timeline[r][k] \in ShellEntry /\ shellNow \in Nat
    BY <2>1 DEF ShellInv, ShellTyped
  <2>3. timeline[r][k].edited <= shellNow /\ timeline[r][k].recalled <= shellNow
    BY <2>1 DEF ShellInv, Dated
  <2> QED BY <2>1, <2>2, <2>3 DEF Copied, ShellEntry
<1> QED BY <1>1 DEF EditedBefore, RecalledBefore

\* A step that leaves the entries alone.
LEMMA QuietShell ==
  ASSUME ShellInv, ShellTyped', UNCHANGED <<timeline, twice, held>>, shellNow <= shellNow'
  PROVE  ShellInv'
<1>1. \A r \in Place : Dated(r)'
  <2> SUFFICES ASSUME NEW r \in Place, NEW k \in DOMAIN timeline[r]
               PROVE  timeline[r][k].edited <= shellNow' /\ timeline[r][k].recalled <= shellNow'
    BY DEF Dated
  <2>1. timeline[r][k] \in ShellEntry
    BY EntriesTyped DEF ShellInv
  <2>2. /\ shellNow \in Nat /\ shellNow' \in Nat
        /\ timeline[r][k].edited \in Nat /\ timeline[r][k].recalled \in Nat
    BY <2>1 DEF ShellInv, ShellTyped, ShellEntry
  <2>3. timeline[r][k].edited <= shellNow /\ timeline[r][k].recalled <= shellNow
    BY DEF ShellInv, Dated
  <2> QED BY <2>2, <2>3
<1>2. ASSUME NEW r \in Place, NEW k \in DOMAIN timeline[r]
      PROVE  k \in DOMAIN timeline'[r] /\ Follows(timeline[r][k], timeline'[r][k])
  <2>1. timeline[r][k] \in ShellEntry /\ timeline' = timeline /\ twice' = twice
    BY EntriesTyped DEF ShellInv
  <2> QED BY <2>1 DEF Follows, ShellEntry
<1> QED BY <1>1, <1>2, HeldStays DEF ShellInv

\* One entry is edited or recalled now.
Marked(r, k, e) ==
  /\ timeline' = [timeline EXCEPT ![r] = [timeline[r] EXCEPT ![k] = e]]
  /\ e.edited <= shellNow /\ e.recalled <= shellNow
  /\ ~twice' => ~twice
  /\ Follows(timeline[r][k], e)

LEMMA MarkedKeeps ==
  ASSUME ShellInv, NEW r \in Place, NEW k \in DOMAIN timeline[r], NEW e \in ShellEntry,
         Marked(r, k, e), twice' \in BOOLEAN, shellChanges' \in 0..MaxAmended,
         UNCHANGED <<visible, frozen, shellNow, counter, held>>
  PROVE  ShellInv'
<1>1. ShellTyped
  BY DEF ShellInv
<1>2. /\ \A q \in Place \ {r} : timeline'[q] = timeline[q]
      /\ timeline'[r] = [timeline[r] EXCEPT ![k] = e]
      /\ DOMAIN timeline' = Place
  BY <1>1 DEF Marked, ShellTyped
<1>3. /\ timeline'[r] \in Seq(ShellEntry) /\ DOMAIN timeline'[r] = DOMAIN timeline[r]
      /\ timeline'[r][k] = e
      /\ \A j \in DOMAIN timeline[r] : j # k => timeline'[r][j] = timeline[r][j]
  BY <1>1, <1>2, EntriesTyped
<1>4. ShellTyped'
  <2>1. timeline' \in [Place -> Seq(ShellEntry)]
    BY <1>1, <1>2, <1>3 DEF Marked, ShellTyped
  <2> QED BY <1>1, <2>1 DEF ShellTyped
<1>5. ASSUME NEW q \in Place, NEW j \in DOMAIN timeline[q]
      PROVE  /\ j \in DOMAIN timeline'[q] /\ Follows(timeline[q][j], timeline'[q][j])
             /\ timeline'[q][j].edited <= shellNow /\ timeline'[q][j].recalled <= shellNow
  <2>1. CASE q = r /\ j = k
    BY <1>3, <2>1 DEF Marked
  <2>2. CASE ~(q = r /\ j = k)
    <3>1. timeline'[q][j] = timeline[q][j] /\ j \in DOMAIN timeline'[q]
      BY <1>2, <1>3, <2>2
    <3>2. timeline[q][j] \in ShellEntry
      BY <1>1, EntriesTyped
    <3>3. timeline[q][j].edited <= shellNow /\ timeline[q][j].recalled <= shellNow
      BY DEF ShellInv, Dated
    <3> QED BY <3>1, <3>2, <3>3 DEF Marked, Follows, ShellEntry
  <2> QED BY <2>1, <2>2
<1>6. \A q \in Place : DOMAIN timeline'[q] = DOMAIN timeline[q]
  BY <1>2, <1>3
<1>7. \A q \in Place : Dated(q)'
  BY <1>5, <1>6 DEF Dated
<1>8. HeldShape' /\ HeldPages' /\ HeldCopies'
  BY <1>4, <1>5, HeldStays
<1> QED BY <1>4, <1>7, <1>8 DEF ShellInv

\* The bound on changes, which every change respects.
LEMMA ChangesTyped ==
  ASSUME ShellTyped, Sh!Change PROVE shellChanges' \in 0..MaxAmended
BY ShellBounds DEF ShellTyped, Sh!Change

LEMMA EditKeeps ==
  ASSUME ShellInv, NEW r \in Place, NEW k \in DOMAIN timeline[r], NEW text \in Said,
         Sh!Edit(r, k, text)
  PROVE  ShellInv'
<1> DEFINE old == timeline[r][k]
           e == [id |-> old.id, at |-> old.at, text |-> text, edited |-> shellNow,
                 recalled |-> old.recalled, archived |-> old.archived]
<1>1. old \in ShellEntry /\ Dated(r) /\ ShellTyped
  BY EntriesTyped DEF ShellInv
<1>2. /\ Sh!Change /\ UNCHANGED <<visible, frozen, shellNow, counter, held>>
      /\ timeline' = [timeline EXCEPT ![r][k].text = text, ![r][k].edited = shellNow]
      /\ twice' = (twice \/ \E q \in Place : \E j \in DOMAIN timeline[q] :
                              timeline[q][j].edited = shellNow)
  BY DEF Sh!Edit
<1>3. timeline' = [timeline EXCEPT ![r] = [timeline[r] EXCEPT ![k] = e]]
  <2>1. PICK half : half = [old EXCEPT !.text = text]
    OBVIOUS
  <2>2. half = [id |-> old.id, at |-> old.at, text |-> text, edited |-> old.edited,
                recalled |-> old.recalled, archived |-> old.archived]
    BY <1>1, <2>1 DEF ShellEntry
  <2>3. [half EXCEPT !.edited = shellNow] = e
    BY <2>2
  <2>4. PICK before : before = [timeline EXCEPT ![r][k].text = text]
    OBVIOUS
  <2>5. /\ DOMAIN before = Place /\ before[r] = [timeline[r] EXCEPT ![k] = half]
        /\ \A q \in Place \ {r} : before[q] = timeline[q]
        /\ before = [q \in Place |-> before[q]]
    BY <1>1, <2>1, <2>4 DEF ShellTyped
  <2>6. before[r][k] = half
    BY <1>1, <2>5, EntriesTyped
  <2>7. timeline' = [before EXCEPT ![r] = [before[r] EXCEPT ![k] = [half EXCEPT !.edited = shellNow]]]
    <3>1. timeline' = [before EXCEPT ![r][k].edited = shellNow]
      BY <1>2, <2>4
    <3> QED BY <2>6, <3>1
  <2>8. [before[r] EXCEPT ![k] = e] = [timeline[r] EXCEPT ![k] = e]
    BY <1>1, <2>5, EntriesTyped
  <2>9. timeline' = [before EXCEPT ![r] = [timeline[r] EXCEPT ![k] = e]]
    <3> HIDE DEF e
    <3> QED BY <2>3, <2>7, <2>8
  <2>10. timeline = [q \in Place |-> timeline[q]]
    BY <1>1 DEF ShellTyped
  <2> HIDE DEF e
  <2> QED BY <2>5, <2>9, <2>10
<1>4. e \in ShellEntry
  BY <1>1 DEF ShellEntry, ShellTyped
<1>5. twice' \in BOOLEAN
  BY <1>1, <1>2, Zenon DEF ShellTyped
<1>6. ~twice' => ~twice /\ old.edited # shellNow /\ EditedBefore(shellNow)
  BY <1>2, NothingSeenNow
<1>7. Marked(r, k, e)
  <2>1. old.edited <= shellNow /\ old.recalled <= shellNow /\ shellNow \in Nat /\ old.recalled \in Nat
    BY <1>1 DEF Dated, ShellEntry, ShellTyped
  <2>2. Follows(old, e)
    BY <1>6, <2>1 DEF Follows
  <2> QED BY <1>3, <1>6, <2>1, <2>2 DEF Marked
<1> HIDE DEF e
<1> QED BY <1>1, <1>2, <1>4, <1>5, <1>7, ChangesTyped, MarkedKeeps

LEMMA RecallKeeps ==
  ASSUME ShellInv, NEW r \in Place, NEW k \in DOMAIN timeline[r], Sh!Recall(r, k)
  PROVE  ShellInv'
<1> DEFINE old == timeline[r][k]
           e == [id |-> old.id, at |-> old.at, text |-> old.text, edited |-> old.edited,
                 recalled |-> shellNow, archived |-> old.archived]
<1>1. old \in ShellEntry /\ Dated(r) /\ ShellTyped
  BY EntriesTyped DEF ShellInv
<1>2. /\ Sh!Change /\ UNCHANGED <<visible, frozen, shellNow, counter, held>>
      /\ timeline' = [timeline EXCEPT ![r][k].recalled = shellNow]
      /\ twice' = (twice \/ \E q \in Place : \E j \in DOMAIN timeline[q] :
                              timeline[q][j].recalled = shellNow)
  BY DEF Sh!Recall
<1>3. timeline' = [timeline EXCEPT ![r] = [timeline[r] EXCEPT ![k] = e]]
  <2>1. [old EXCEPT !.recalled = shellNow] = e
    BY <1>1 DEF ShellEntry
  <2> HIDE DEF e
  <2> QED BY <1>2, <2>1
<1>4. e \in ShellEntry
  BY <1>1 DEF ShellEntry, ShellTyped
<1>5. twice' \in BOOLEAN
  BY <1>1, <1>2, Zenon DEF ShellTyped
<1>6. ~twice' => ~twice /\ old.recalled # shellNow /\ RecalledBefore(shellNow)
  BY <1>2, NothingSeenNow
<1>7. Marked(r, k, e)
  <2>1. old.edited <= shellNow /\ old.recalled <= shellNow /\ shellNow \in Nat /\ old.edited \in Nat
    BY <1>1 DEF Dated, ShellEntry, ShellTyped
  <2>2. Follows(old, e)
    BY <1>6, <2>1 DEF Follows
  <2> QED BY <1>3, <1>6, <2>1, <2>2 DEF Marked
<1> HIDE DEF e
<1> QED BY <1>1, <1>2, <1>4, <1>5, <1>7, ChangesTyped, MarkedKeeps

\* ingest_message: an entry more, and some archived.
LEMMA IngestKeeps ==
  ASSUME ShellInv, NEW r \in Place, NEW id \in 1..LastId, NEW at \in 1..MaxTime, NEW text \in Said,
         Sh!Ingest(r, id, at, text)
  PROVE  ShellInv'
<1> DEFINE Aged(e) == [e EXCEPT !.archived = @ \/ shellNow > e.at + MaxAge]
           new == Sh!Entry(id, at, text)
           grown(q) == IF q = r THEN Append(timeline[q], new) ELSE timeline[q]
<1>1. /\ counter < MaxShown /\ counter' = counter + 1
      /\ UNCHANGED <<visible, frozen, shellNow, shellChanges, twice, held>>
      /\ timeline' = [q \in Place |-> [k \in DOMAIN grown(q) |-> Aged(grown(q)[k])]]
  BY DEF Sh!Ingest
<1>2. /\ ShellTyped /\ counter \in Nat /\ MaxShown \in Nat /\ shellNow \in Nat
  BY ShellBounds DEF ShellInv, ShellTyped
<1>3. new \in ShellEntry /\ new.recalled = 0 /\ new.edited = 0
  BY ShellBounds DEF ShellEntry, Sh!Entry
<1>4. ASSUME NEW e \in ShellEntry
      PROVE  /\ Aged(e) \in ShellEntry /\ Aged(e).id = e.id /\ Aged(e).at = e.at
             /\ Aged(e).edited = e.edited /\ Aged(e).recalled = e.recalled
             /\ Aged(e).text = e.text
             /\ e.archived => Aged(e).archived
  <2> DEFINE old == e.archived \/ shellNow > e.at + MaxAge
  <2>1. Aged(e) = [e EXCEPT !.archived = old]
    OBVIOUS
  <2>2. old \in BOOLEAN /\ e.archived \in BOOLEAN
    BY DEF ShellEntry
  <2>3. /\ Aged(e) \in ShellEntry /\ Aged(e).id = e.id /\ Aged(e).at = e.at
        /\ Aged(e).edited = e.edited /\ Aged(e).recalled = e.recalled
        /\ Aged(e).text = e.text /\ Aged(e).archived = old
    <3> HIDE DEF old
    <3> QED BY <2>1, <2>2 DEF ShellEntry
  <2> QED BY <2>3
<1> HIDE DEF Aged, new
<1>5. ASSUME NEW q \in Place
      PROVE  /\ grown(q) \in Seq(ShellEntry)
             /\ \A k \in DOMAIN timeline[q] : k \in DOMAIN grown(q) /\ grown(q)[k] = timeline[q][k]
             /\ \A k \in DOMAIN grown(q) \ DOMAIN timeline[q] : grown(q)[k] = new
  <2>1. timeline[q] \in Seq(ShellEntry) /\ \A k \in DOMAIN timeline[q] : timeline[q][k] \in ShellEntry
    BY <1>2, EntriesTyped
  <2>2. CASE q = r
    BY <1>3, <2>1, <2>2
  <2>3. CASE q # r
    BY <2>1, <2>3
  <2> QED BY <2>2, <2>3
<1> HIDE DEF grown
<1>6. ASSUME NEW q \in Place
      PROVE  /\ DOMAIN timeline'[q] = DOMAIN grown(q)
             /\ \A k \in DOMAIN grown(q) : grown(q)[k] \in ShellEntry /\ timeline'[q][k] = Aged(grown(q)[k])
  BY <1>1, <1>5
<1>7. ShellTyped'
  <2>1. ASSUME NEW q \in Place PROVE timeline'[q] \in Seq(ShellEntry)
    <3>1. PICK n \in Nat : DOMAIN grown(q) = 1..n
      BY <1>5
    <3>2. timeline'[q] = [k \in 1..n |-> Aged(grown(q)[k])]
      BY <1>1, <3>1
    <3>3. \A k \in 1..n : Aged(grown(q)[k]) \in ShellEntry
      BY <1>4, <1>6, <3>1
    <3> QED BY <3>2, <3>3
  <2>2. DOMAIN timeline' = Place /\ timeline' = [q \in Place |-> timeline'[q]]
    BY <1>1
  <2> QED BY <1>1, <1>2, <2>1, <2>2 DEF ShellTyped
<1>8. ASSUME NEW q \in Place PROVE Dated(q)'
  <2> SUFFICES ASSUME NEW k \in DOMAIN grown(q)
               PROVE  timeline'[q][k].edited <= shellNow /\ timeline'[q][k].recalled <= shellNow
    BY <1>1, <1>6 DEF Dated
  <2>1. /\ timeline'[q][k].edited = grown(q)[k].edited
        /\ timeline'[q][k].recalled = grown(q)[k].recalled
    BY <1>4, <1>6
  <2>2. CASE k \in DOMAIN timeline[q]
    BY <1>5, <2>1, <2>2 DEF ShellInv, Dated
  <2>3. CASE k \notin DOMAIN timeline[q]
    BY <1>2, <1>3, <1>5, <2>1, <2>3
  <2> QED BY <2>2, <2>3
<1>9. ASSUME NEW q \in Place, NEW k \in DOMAIN timeline[q]
      PROVE  k \in DOMAIN timeline'[q] /\ Follows(timeline[q][k], timeline'[q][k])
  <2>1. timeline[q][k] \in ShellEntry
    BY <1>2, EntriesTyped
  <2>2. timeline[q][k].edited \in Nat /\ timeline[q][k].recalled \in Nat
    BY <2>1 DEF ShellEntry
  <2>3. k \in DOMAIN timeline'[q] /\ timeline'[q][k] = Aged(timeline[q][k])
    BY <1>5, <1>6
  <2>4. PICK e, f : e = timeline[q][k] /\ f = timeline'[q][k]
    OBVIOUS
  <2>5. /\ f.id = e.id /\ f.at = e.at /\ f.edited = e.edited /\ f.recalled = e.recalled
        /\ f.text = e.text /\ (e.archived => f.archived) /\ e.edited \in Nat /\ e.recalled \in Nat
    BY <1>4, <2>1, <2>2, <2>3, <2>4
  <2>6. e.edited <= f.edited /\ e.recalled <= f.recalled
    BY <2>5
  <2>7. Follows(e, f)
    BY <1>1, <2>5, <2>6, Zenon DEF Follows
  <2> QED BY <2>3, <2>4, <2>7
<1>10. HeldShape' /\ HeldPages' /\ HeldCopies'
  BY <1>1, <1>7, <1>9, HeldStays
<1> QED BY <1>7, <1>8, <1>10 DEF ShellInv

LEMMA FetchKeeps == ASSUME ShellInv, Sh!Fetch PROVE ShellInv'
<1>1. /\ held' = Sh!Snapshot
      /\ UNCHANGED <<timeline, visible, frozen, shellNow, counter, shellChanges, twice>>
  BY DEF Sh!Fetch
<1>2. ShellTyped' /\ \A r \in Place : Dated(r)'
  BY <1>1 DEF ShellInv, ShellTyped, Dated
<1>3. held' = Sh!Snapshot'
  <2>1. Sh!Shown' = Sh!Shown
    BY <1>1 DEF Sh!Shown, Sh!ShellRecent, Sh!Recent, Sh!Active
  <2> QED BY <1>1, <2>1 DEF Sh!Snapshot
<1>4. (ShellTyped /\ held = Sh!Snapshot => HeldShape /\ HeldPages /\ HeldCopies)'
  BY FetchHolds, PTL
<1> QED BY <1>2, <1>3, <1>4 DEF ShellInv

LEMMA ShellStep == ASSUME ShellInv, [Sh!Next]_shellVars PROVE ShellInv'
<1>1. ShellTyped /\ shellNow \in Nat /\ MaxTime \in Nat
  BY ShellBounds DEF ShellInv, ShellTyped
<1>2. CASE UNCHANGED shellVars
  <2>1. ShellTyped' /\ shellNow <= shellNow'
    BY <1>1, <1>2 DEF shellVars, ShellTyped
  <2> QED BY <1>2, <2>1, QuietShell DEF shellVars
<1>3. ASSUME NEW r \in Place, NEW text \in Said, Sh!Post(r, text) PROVE ShellInv'
  <2>1. PICK id \in 1..LastId : Sh!Ingest(r, id, shellNow, text)
    BY <1>3 DEF Sh!Post, Sh!Id
  <2>2. shellNow \in 1..MaxTime
    BY <1>1 DEF ShellTyped
  <2> QED BY <2>1, <2>2, IngestKeeps
<1>4. ASSUME NEW r \in Place, NEW text \in Said, NEW id \in 1..LastId, NEW at \in Sh!Time,
             Sh!PublishFrame(r, id, at, text)
      PROVE  ShellInv'
  BY <1>4, IngestKeeps DEF Sh!PublishFrame, Sh!Time
<1>5. ASSUME NEW r \in Place, Sh!Freeze(r) \/ Sh!Visit(r) PROVE ShellInv'
  <2>1. /\ Sh!Change
        /\ UNCHANGED <<timeline, shellNow, counter, twice, held>>
        /\ visible' \subseteq Place /\ frozen' \subseteq Place
    BY <1>1, <1>5 DEF Sh!Freeze, Sh!Visit, ShellTyped
  <2>2. ShellTyped' /\ shellNow <= shellNow'
    BY <1>1, <2>1, ChangesTyped DEF ShellTyped
  <2> QED BY <2>1, <2>2, QuietShell
<1>6. ASSUME NEW r \in Place, NEW k \in DOMAIN timeline[r], NEW text \in Said, Sh!Edit(r, k, text)
      PROVE  ShellInv'
  BY <1>6, EditKeeps
<1>7. ASSUME NEW r \in Place, NEW k \in DOMAIN timeline[r], Sh!Recall(r, k) PROVE ShellInv'
  BY <1>7, RecallKeeps
<1>8. CASE Sh!Tick
  <2>1. /\ UNCHANGED <<timeline, visible, frozen, counter, shellChanges, twice, held>>
        /\ shellNow < MaxTime /\ shellNow' = shellNow + 1
    BY <1>8 DEF Sh!Tick
  <2>2. shellNow' \in 1..MaxTime /\ shellNow <= shellNow'
    BY <1>1, <2>1
  <2>3. ShellTyped'
    BY <1>1, <2>1, <2>2 DEF ShellTyped
  <2> QED BY <2>1, <2>2, <2>3, QuietShell
<1>9. CASE Sh!Fetch
  BY <1>9, FetchKeeps
<1> QED BY <1>2, <1>3, <1>4, <1>5, <1>6, <1>7, <1>8, <1>9 DEF Sh!Next, Sh!Id

\* What a version is made of.
Messages(shown) == UNION {Sh!Range(shown[r].messages) : r \in DOMAIN shown}
LatestTime(shown) == Sh!Max({m.at : m \in Messages(shown)} \cup {0})
LatestId(shown) ==
  Sh!Max({m.id : m \in {x \in Messages(shown) : x.at = LatestTime(shown)}} \cup {0})
LatestRecall(shown) == Sh!Max({m.recalled : m \in Messages(shown)} \cup {0})
LatestEdit(shown) == Sh!Max({m.edited : m \in Messages(shown)} \cup {0})

LEMMA VersionParts ==
  ASSUME NEW x, NEW y, Sh!StateVersion(x) = Sh!StateVersion(y)
  PROVE  /\ LatestTime(x) = LatestTime(y) /\ LatestId(x) = LatestId(y)
         /\ LatestRecall(x) = LatestRecall(y) /\ LatestEdit(x) = LatestEdit(y)
         /\ DOMAIN x = DOMAIN y
         /\ \A r \in DOMAIN x : Sh!Metadata(x[r]) = Sh!Metadata(y[r])
<1>1. \A z : /\ Sh!StateVersion(z)[1] = LatestTime(z)
             /\ Sh!StateVersion(z)[2] = LatestId(z)
             /\ Sh!StateVersion(z)[4] = LatestRecall(z)
             /\ Sh!StateVersion(z)[6] = LatestEdit(z)
             /\ Sh!StateVersion(z)[7] = [r \in DOMAIN z |-> Sh!Metadata(z[r])]
  BY DEF Sh!StateVersion, LatestTime, LatestId, LatestRecall, LatestEdit, Messages
<1>2. [r \in DOMAIN x |-> Sh!Metadata(x[r])] = [r \in DOMAIN y |-> Sh!Metadata(y[r])]
  BY <1>1
<1>3. DOMAIN x = DOMAIN y
  BY <1>2
<1>4. ASSUME NEW r \in DOMAIN x PROVE Sh!Metadata(x[r]) = Sh!Metadata(y[r])
  BY <1>2, <1>3
<1> QED BY <1>1, <1>3, <1>4

\* Rooms with messages that have ids, times and marks.
Numbered(shown) ==
  \A m \in Messages(shown) :
    m.id \in 1..LastId /\ m.at \in 1..MaxTime /\ m.edited \in 0..MaxTime /\ m.recalled \in 0..MaxTime

\* The latest number is not less than any of them, and one of them or none.
LEMMA LatestNumber ==
  ASSUME NEW S, NEW n \in Nat, S \subseteq 0..n
  PROVE  /\ Sh!Max(S \cup {0}) \in Nat
         /\ \A s \in S : s <= Sh!Max(S \cup {0})
         /\ Sh!Max(S \cup {0}) # 0 => Sh!Max(S \cup {0}) \in S
<1> DEFINE T == S \cup {0}
<1>1. T \subseteq Nat /\ T # {} /\ \A s \in T : s <= n
  OBVIOUS
<1>2. Sh!Max(T) \in T /\ \A s \in T : s <= Sh!Max(T)
  <2> HIDE DEF T
  <2> QED BY <1>1, GreatestNumber
<1> QED BY <1>1, <1>2

LEMMA LatestMarks ==
  ASSUME NEW shown, Numbered(shown)
  PROVE  /\ \A m \in Messages(shown) :
              m.recalled <= LatestRecall(shown) /\ m.edited <= LatestEdit(shown)
         /\ LatestRecall(shown) \in Nat /\ LatestEdit(shown) \in Nat
         /\ LatestRecall(shown) # 0 => \E m \in Messages(shown) : m.recalled = LatestRecall(shown)
         /\ LatestEdit(shown) # 0 => \E m \in Messages(shown) : m.edited = LatestEdit(shown)
<1> DEFINE R == {m.recalled : m \in Messages(shown)}
           E == {m.edited : m \in Messages(shown)}
<1>1. R \subseteq 0..MaxTime /\ E \subseteq 0..MaxTime /\ MaxTime \in Nat
  BY ShellBounds DEF Numbered
<1>2. LatestRecall(shown) = Sh!Max(R \cup {0}) /\ LatestEdit(shown) = Sh!Max(E \cup {0})
  BY DEF LatestRecall, LatestEdit
<1>3. /\ \A m \in Messages(shown) : m.recalled \in R /\ m.edited \in E
      /\ \A x \in R : \E m \in Messages(shown) : m.recalled = x
      /\ \A x \in E : \E m \in Messages(shown) : m.edited = x
  OBVIOUS
<1> HIDE DEF R, E
<1>4. /\ LatestRecall(shown) \in Nat /\ \A s \in R : s <= LatestRecall(shown)
      /\ LatestRecall(shown) # 0 => LatestRecall(shown) \in R
  BY <1>1, <1>2, LatestNumber
<1>5. /\ LatestEdit(shown) \in Nat /\ \A s \in E : s <= LatestEdit(shown)
      /\ LatestEdit(shown) # 0 => LatestEdit(shown) \in E
  BY <1>1, <1>2, LatestNumber
<1> QED BY <1>3, <1>4, <1>5

\* m is not later than x.
NotLater(m, x) == x.at > m.at \/ (x.at = m.at /\ x.id >= m.id)

\* The time and the id of a version are those of a message, than which no other
\* one is later.
LEMMA LatestMessage ==
  ASSUME NEW shown, Numbered(shown)
  PROVE  /\ \A m \in Messages(shown) :
              \/ LatestTime(shown) > m.at
              \/ LatestTime(shown) = m.at /\ LatestId(shown) >= m.id
         /\ LatestTime(shown) \in Nat
         /\ LatestTime(shown) # 0 => \E m \in Messages(shown) :
              m.at = LatestTime(shown) /\ m.id = LatestId(shown)
<1> DEFINE A == {m.at : m \in Messages(shown)}
           last == {m \in Messages(shown) : m.at = LatestTime(shown)}
           I == {m.id : m \in last}
<1>1. /\ A \subseteq 0..MaxTime /\ I \subseteq 1..LastId /\ I \subseteq 0..LastId
      /\ MaxTime \in Nat /\ LastId \in Nat
  BY ShellBounds DEF Numbered
<1>2. LatestTime(shown) = Sh!Max(A \cup {0}) /\ LatestId(shown) = Sh!Max(I \cup {0})
  BY DEF LatestTime, LatestId
<1>3. /\ \A m \in Messages(shown) : m.at \in A /\ m.at \in Nat /\ m.id \in Nat
      /\ \A m \in Messages(shown) : m.at = LatestTime(shown) => m.id \in I
      /\ \A x \in A : \E m \in Messages(shown) : m.at = x
      /\ \A x \in I : \E m \in Messages(shown) : m.at = LatestTime(shown) /\ m.id = x
  BY DEF Numbered
<1> HIDE DEF A, I
<1>4. /\ LatestTime(shown) \in Nat /\ \A s \in A : s <= LatestTime(shown)
      /\ LatestTime(shown) # 0 => LatestTime(shown) \in A
  BY <1>1, <1>2, LatestNumber
<1>5. /\ LatestId(shown) \in Nat /\ \A s \in I : s <= LatestId(shown)
      /\ LatestId(shown) # 0 => LatestId(shown) \in I
  BY <1>1, <1>2, LatestNumber
<1>6. ASSUME NEW m \in Messages(shown)
      PROVE  \/ LatestTime(shown) > m.at
             \/ LatestTime(shown) = m.at /\ LatestId(shown) >= m.id
  <2>1. m.at <= LatestTime(shown) /\ (m.at = LatestTime(shown) => m.id <= LatestId(shown))
    BY <1>3, <1>4, <1>5
  <2> QED BY <1>3, <1>4, <1>5, <2>1
<1>7. ASSUME LatestTime(shown) # 0
      PROVE  \E m \in Messages(shown) : m.at = LatestTime(shown) /\ m.id = LatestId(shown)
  <2>1. PICK m \in Messages(shown) : m.at = LatestTime(shown)
    BY <1>3, <1>4, <1>7
  <2>2. m.id \in I
    BY <1>3, <2>1
  <2>3. m.id \in 1..LastId /\ LastId \in Nat
    BY <1>1, <2>2
  <2>4. m.id >= 1 /\ m.id \in Nat
    BY <2>3
  <2>5. LatestId(shown) # 0
    BY <1>5, <2>2, <2>4
  <2> QED BY <1>3, <1>5, <2>5
<1> QED BY <1>4, <1>6, <1>7

\* What is shown of a message, and what there is of a room.
LEMMA ShownNow ==
  ASSUME ShellInv, NEW r \in visible
  PROVE  /\ DOMAIN Sh!Shown = visible /\ r \in Place
         /\ Sh!Shown[r] = [messages |-> Sh!Shown[r].messages, frozen |-> Sh!Shown[r].frozen]
         /\ Sh!Shown[r].messages = [k \in Sh!ShellRecent(r) |-> Sh!Projected(timeline[r][k])]
         /\ Sh!ShellRecent(r) \subseteq DOMAIN timeline[r]
<1> DEFINE page == [k \in Sh!ShellRecent(r) |-> Sh!Projected(timeline[r][k])]
           cold == r \in frozen
<1>1. Sh!Shown[r] = [messages |-> page, frozen |-> cold] /\ DOMAIN Sh!Shown = visible
  BY DEF Sh!Shown
<1>2. r \in Place /\ ShellTyped
  BY DEF ShellInv, ShellTyped
<1>3. Sh!ShellRecent(r) \subseteq DOMAIN timeline[r]
  BY DEF Sh!ShellRecent, Sh!Recent, Sh!Active
<1> HIDE DEF cold
<1>4. Sh!Shown[r].messages = page
  BY <1>1
<1>5. Sh!Shown[r] = [messages |-> Sh!Shown[r].messages, frozen |-> Sh!Shown[r].frozen]
  <2> HIDE DEF page
  <2> QED BY <1>1
<1> QED BY <1>1, <1>2, <1>3, <1>4, <1>5

\* What is shown, and what the client holds, are copies of entries.
LEMMA ShownNumbered ==
  ASSUME ShellInv
  PROVE  /\ Numbered(Sh!Shown) /\ Numbered(held.shown)
         /\ \A m \in Messages(held.shown) :
              \E r \in DOMAIN held.shown : \E k \in HeldOf(r) : m = Held(r, k)
         /\ \A r \in visible : \A k \in Sh!ShellRecent(r) :
              Sh!Projected(timeline[r][k]) \in Messages(Sh!Shown)
<1>1. \A r \in Place : \A k \in DOMAIN timeline[r] : timeline[r][k] \in ShellEntry
  BY EntriesTyped DEF ShellInv
<1>2. /\ \A shown : \A m \in Messages(shown) :
           \E r \in DOMAIN shown : \E k \in DOMAIN shown[r].messages : m = shown[r].messages[k]
      /\ \A shown : \A r \in DOMAIN shown : \A k \in DOMAIN shown[r].messages :
           shown[r].messages[k] \in Messages(shown)
  BY DEF Messages, Sh!Range
<1>3. \A m \in Messages(held.shown) :
        \E r \in DOMAIN held.shown : \E k \in HeldOf(r) : m = Held(r, k)
  BY <1>2 DEF HeldOf, Held
<1>4. \A r \in DOMAIN Sh!Shown : r \in visible
  BY DEF Sh!Shown
<1>5. ASSUME NEW r \in visible, NEW k \in Sh!ShellRecent(r)
      PROVE  /\ r \in DOMAIN Sh!Shown /\ k \in DOMAIN Sh!Shown[r].messages
             /\ Sh!Shown[r].messages[k] = Sh!Projected(timeline[r][k])
             /\ timeline[r][k] \in ShellEntry
  BY <1>1, ShownNow
<1>6. \A r \in visible : \A k \in Sh!ShellRecent(r) :
        Sh!Projected(timeline[r][k]) \in Messages(Sh!Shown)
  <2> SUFFICES ASSUME NEW r \in visible, NEW k \in Sh!ShellRecent(r)
               PROVE  Sh!Projected(timeline[r][k]) \in Messages(Sh!Shown)
    OBVIOUS
  <2>1. Sh!Shown[r].messages[k] \in Messages(Sh!Shown)
    BY <1>2, <1>5
  <2> QED BY <1>5, <2>1
<1>7. Numbered(Sh!Shown)
  <2> SUFFICES ASSUME NEW m \in Messages(Sh!Shown)
               PROVE  /\ m.id \in 1..LastId /\ m.at \in 1..MaxTime
                      /\ m.edited \in 0..MaxTime /\ m.recalled \in 0..MaxTime
    BY DEF Numbered
  <2>1. PICK r \in DOMAIN Sh!Shown : \E k \in DOMAIN Sh!Shown[r].messages :
               m = Sh!Shown[r].messages[k]
    BY <1>2
  <2>2. r \in visible /\ DOMAIN Sh!Shown[r].messages = Sh!ShellRecent(r)
    BY <1>4, ShownNow
  <2>3. PICK k \in Sh!ShellRecent(r) : m = Sh!Shown[r].messages[k]
    BY <2>1, <2>2
  <2>4. m = Sh!Projected(timeline[r][k]) /\ timeline[r][k] \in ShellEntry
    BY <1>5, <2>2, <2>3
  <2> QED BY <2>4 DEF Sh!Projected, ShellEntry, Sh!Id
<1>8. Numbered(held.shown)
  <2> SUFFICES ASSUME NEW r \in DOMAIN held.shown, NEW k \in HeldOf(r)
               PROVE  /\ Held(r, k).id \in 1..LastId /\ Held(r, k).at \in 1..MaxTime
                      /\ Held(r, k).edited \in 0..MaxTime /\ Held(r, k).recalled \in 0..MaxTime
    BY <1>3 DEF Numbered
  <2>1. r \in Place /\ k \in DOMAIN timeline[r] /\ Copied(Held(r, k), timeline[r][k])
    BY DEF ShellInv, HeldShape, HeldCopies
  <2>2. timeline[r][k] \in ShellEntry /\ MaxTime \in Nat
    BY <1>1, <2>1, ShellBounds
  <2> QED BY <2>1, <2>2 DEF Copied, ShellEntry, Sh!Id
<1> QED BY <1>3, <1>6, <1>7, <1>8

\* Of two equal versions the later one has no mark that is newer than all the
\* client has seen.
LEMMA NothingNewer ==
  ASSUME ShellInv, held.version = Sh!StateVersion(Sh!Shown),
         NEW r \in visible, NEW k \in Sh!ShellRecent(r)
  PROVE  /\ timeline[r][k].recalled # 0 => ~RecalledBefore(timeline[r][k].recalled)
         /\ timeline[r][k].edited # 0 => ~EditedBefore(timeline[r][k].edited)
<1>1. /\ LatestRecall(held.shown) = LatestRecall(Sh!Shown)
      /\ LatestEdit(held.shown) = LatestEdit(Sh!Shown)
  <2>1. Sh!StateVersion(held.shown) = Sh!StateVersion(Sh!Shown)
    BY DEF ShellInv, HeldShape
  <2> QED BY <2>1, VersionParts
<1>2. PICK m \in Messages(Sh!Shown) : m = Sh!Projected(timeline[r][k])
  BY ShownNumbered
<1>3. m.recalled = timeline[r][k].recalled /\ m.edited = timeline[r][k].edited
  BY <1>2 DEF Sh!Projected
<1>4. m.recalled <= LatestRecall(held.shown) /\ m.edited <= LatestEdit(held.shown)
  BY <1>1, <1>2, ShownNumbered, LatestMarks
<1>5. m.recalled \in Nat /\ m.edited \in Nat
  BY ShownNumbered, ShellBounds DEF Numbered
<1>6. /\ LatestRecall(held.shown) \in Nat /\ LatestEdit(held.shown) \in Nat
      /\ LatestRecall(held.shown) # 0 => \E q \in DOMAIN held.shown : \E j \in HeldOf(q) :
           Held(q, j).recalled = LatestRecall(held.shown)
      /\ LatestEdit(held.shown) # 0 => \E q \in DOMAIN held.shown : \E j \in HeldOf(q) :
           Held(q, j).edited = LatestEdit(held.shown)
  BY ShownNumbered, LatestMarks
<1>7. ASSUME m.recalled # 0, RecalledBefore(m.recalled) PROVE FALSE
  <2>1. LatestRecall(held.shown) = 0 \/ LatestRecall(held.shown) < m.recalled
    BY <1>6, <1>7 DEF RecalledBefore
  <2> QED BY <1>4, <1>5, <1>6, <1>7, <2>1
<1>8. ASSUME m.edited # 0, EditedBefore(m.edited) PROVE FALSE
  <2>1. LatestEdit(held.shown) = 0 \/ LatestEdit(held.shown) < m.edited
    BY <1>6, <1>8 DEF EditedBefore
  <2> QED BY <1>4, <1>5, <1>6, <1>8, <2>1
<1> QED BY <1>3, <1>7, <1>8

\* A room that looks to the version as it looked to the client, with a last
\* message that did not make way for another one and no earlier one that came
\* back, shows the same positions.
LEMMA SamePositions ==
  ASSUME ShellInv, held.version = Sh!StateVersion(Sh!Shown),
         NEW r \in visible, ~Sh!Replaced(r), ~Sh!Reopened(r)
  PROVE  r \in DOMAIN held.shown /\ HeldOf(r) = Sh!ShellRecent(r)
<1> DEFINE C == Sh!ShellRecent(r)
           H == HeldOf(r)
           last == Sh!LastShown(Sh!Shown[r])
<1>1. /\ DOMAIN held.shown = visible
      /\ Sh!Metadata(held.shown[r]) = Sh!Metadata(Sh!Shown[r])
      /\ LatestTime(held.shown) = LatestTime(Sh!Shown)
      /\ LatestId(held.shown) = LatestId(Sh!Shown)
  <2>1. Sh!StateVersion(held.shown) = Sh!StateVersion(Sh!Shown)
    BY DEF ShellInv, HeldShape
  <2>2. DOMAIN Sh!Shown = visible
    BY DEF Sh!Shown
  <2> QED BY <2>1, <2>2, VersionParts
<1>2. r \in Place /\ Page(r, C) /\ Page(r, H)
  BY <1>1, PageShown DEF ShellInv, ShellTyped, HeldPages
<1>3. PICK n \in Nat : DOMAIN timeline[r] = 1..n
  BY <1>2, EntriesTyped DEF ShellInv
<1>4. C \subseteq 1..n /\ H \subseteq 1..n /\ C \subseteq Nat /\ H \subseteq Nat
  BY <1>2, <1>3 DEF Page
<1>5. DOMAIN Sh!Shown[r].messages = C /\ DOMAIN held.shown[r].messages = H
  BY ShownNow DEF HeldOf
<1>6. \A k \in C : ~timeline[r][k].archived
  BY DEF Sh!ShellRecent, Sh!Recent, Sh!Active
<1>7. /\ Sh!Cardinality(H) = Sh!Cardinality(C)
      /\ H # {} /\ C # {} => Sh!LastShown(held.shown[r]).text = last.text
  BY <1>1, <1>5 DEF Sh!Metadata
<1>8. /\ C = Sh!ShellRecent(r) /\ H = HeldOf(r)
  OBVIOUS
<1> HIDE DEF C, H, last
<1>9. C \subseteq H \/ H \subseteq C => H = C
  <2>1. IsFiniteSet(1..n)
    BY <1>3, FS_Interval
  <2>2. IsFiniteSet(C) /\ IsFiniteSet(H)
    BY <1>4, <2>1, FS_Subset
  <2> QED BY <1>7, <2>2, FewerIn
<1>10. CASE C = {} \/ H = {}
  BY <1>1, <1>8, <1>9, <1>10
<1>11. CASE C # {} /\ H # {} /\ H # C
  <2>1. /\ Sh!Max(C) \in C /\ \A s \in C : s <= Sh!Max(C)
        /\ Sh!Max(H) \in H /\ \A s \in H : s <= Sh!Max(H)
    <3>1. (\A s \in C : s <= n) /\ (\A s \in H : s <= n)
      BY <1>3, <1>4
    <3> QED BY <1>3, <1>4, <1>11, <3>1, GreatestNumber
  <2>2. last \in Messages(Sh!Shown)
    <3>1. last = Sh!Projected(timeline[r][Sh!Max(C)])
      <4>1. last = Sh!Shown[r].messages[Sh!Max(C)]
        BY <1>5 DEF last, Sh!LastShown
      <4> QED BY <1>8, <2>1, <4>1, ShownNow
    <3> QED BY <1>8, <2>1, <3>1, ShownNumbered
  <2>3. \E m \in Messages(held.shown) : NotLater(last, m)
    <3>1. last.at \in Nat /\ last.at # 0
      BY <2>2, ShownNumbered DEF Numbered
    <3>2. \/ LatestTime(Sh!Shown) > last.at
          \/ LatestTime(Sh!Shown) = last.at /\ LatestId(Sh!Shown) >= last.id
      BY <2>2, ShownNumbered, LatestMessage
    <3>3. LatestTime(Sh!Shown) # 0
      BY <3>1, <3>2, ShownNumbered, LatestMessage
    <3>4. PICK m \in Messages(held.shown) :
                m.at = LatestTime(Sh!Shown) /\ m.id = LatestId(Sh!Shown)
      BY <1>1, <3>3, ShownNumbered, LatestMessage
    <3> QED BY <3>2, <3>4 DEF NotLater
  <2>4. Sh!Max(H) = Sh!Max(C)
    <3>1. \E q \in DOMAIN held.shown : \E m \in Sh!Range(held.shown[q].messages) : NotLater(last, m)
      BY <2>3 DEF Messages
    <3> QED BY <1>5, <1>7, <1>11, <3>1 DEF Sh!Replaced, NotLater, last
  <2>5. PICK k \in C : k \notin H
    BY <1>9, <1>11
  <2>6. k < Sh!Max(H)
    <3>1. k <= Sh!Max(C) /\ k # Sh!Max(H) /\ k \in Nat /\ Sh!Max(C) \in Nat
      BY <1>4, <2>1, <2>5
    <3> QED BY <2>4, <3>1
  <2>7. \A g \in H : k < g
    <3>1. k \in DOMAIN timeline[r] \ H
      BY <1>3, <1>4, <2>5
    <3> QED BY <1>2, <1>6, <2>1, <2>6, <3>1 DEF Page
  <2>8. PICK h \in H : h \notin C
    BY <1>9, <1>11
  <2>9. h < Sh!Max(C) /\ k < h
    <3>1. h <= Sh!Max(H) /\ h # Sh!Max(C) /\ h \in Nat /\ Sh!Max(C) \in Nat
      BY <1>4, <2>1, <2>8
    <3> QED BY <2>4, <2>7, <2>8, <3>1
  <2>10. timeline[r][h].archived
    <3>1. h \in DOMAIN timeline[r] \ C /\ ~(h < k)
      BY <1>3, <1>4, <2>5, <2>8, <2>9
    <3> QED BY <1>2, <2>1, <2>9, <3>1 DEF Page
  <2> QED BY <1>5, <2>5, <2>8, <2>9, <2>10 DEF Sh!Reopened
<1> QED BY <1>1, <1>8, <1>10, <1>11

LEMMA ShellTells == ShellInv => Sh!VersionTellsChanges
<1> SUFFICES ASSUME ShellInv, ~twice, held.version = Sh!StateVersion(Sh!Shown),
                    NEW r \in visible, ~Sh!Replaced(r), ~Sh!Reopened(r)
             PROVE  held.shown[r] = Sh!Shown[r]
  BY DEF Sh!VersionTellsChanges
<1>1. r \in DOMAIN held.shown /\ HeldOf(r) = Sh!ShellRecent(r) /\ r \in Place
  BY SamePositions, ShownNow
<1>2. ASSUME NEW k \in HeldOf(r) PROVE Held(r, k) = Sh!Projected(timeline[r][k])
  <2>1. PICK h, e : h = Held(r, k) /\ e = timeline[r][k]
    OBVIOUS
  <2>2. k \in DOMAIN timeline[r] /\ e \in ShellEntry /\ Copied(h, e)
    BY <1>1, <2>1, EntriesTyped DEF ShellInv, HeldCopies
  <2>3. /\ e.recalled # 0 => ~RecalledBefore(e.recalled)
        /\ e.edited # 0 => ~EditedBefore(e.edited)
    BY <1>1, <1>2, <2>1, NothingNewer
  <2>4. e.edited \in Nat /\ e.recalled \in Nat /\ h.edited \in Nat /\ h.recalled \in Nat
    BY <2>2 DEF Copied, ShellEntry
  <2>5. h.edited = e.edited /\ h.recalled = e.recalled
    BY <2>2, <2>3, <2>4 DEF Copied
  <2>6. h.text = (IF e.recalled # 0 THEN Withdrawn ELSE e.text)
    BY <2>2, <2>5 DEF Copied
  <2>7. h = [id |-> e.id, at |-> e.at, edited |-> e.edited, recalled |-> e.recalled,
             text |-> h.text]
    BY <2>2, <2>5 DEF Copied
  <2>8. Sh!Projected(e) = [id |-> e.id, at |-> e.at, edited |-> e.edited, recalled |-> e.recalled,
                           text |-> h.text]
    BY <2>6 DEF Sh!Projected
  <2> QED BY <2>1, <2>7, <2>8
<1>3. held.shown[r].messages = Sh!Shown[r].messages
  <2>1. held.shown[r].messages = [k \in HeldOf(r) |-> Held(r, k)]
    BY <1>1 DEF ShellInv, HeldShape
  <2>2. Sh!Shown[r].messages = [k \in HeldOf(r) |-> Sh!Projected(timeline[r][k])]
    BY <1>1, ShownNow
  <2> QED BY <1>2, <2>1, <2>2
<1>4. held.shown[r].frozen = Sh!Shown[r].frozen
  <2>1. Sh!StateVersion(held.shown) = Sh!StateVersion(Sh!Shown)
    BY DEF ShellInv, HeldShape
  <2>2. Sh!Metadata(held.shown[r]) = Sh!Metadata(Sh!Shown[r])
    BY <1>1, <2>1, VersionParts
  <2> QED BY <2>2 DEF Sh!Metadata
<1>5. held.shown[r] = [messages |-> held.shown[r].messages, frozen |-> held.shown[r].frozen]
  BY <1>1 DEF ShellInv, HeldShape
<1>6. Sh!Shown[r] = [messages |-> Sh!Shown[r].messages, frozen |-> Sh!Shown[r].frozen]
  BY ShownNow
<1> QED BY <1>3, <1>4, <1>5, <1>6

\* A version that is still the same stands for what is still the same,
\* however many rooms, messages, edits and recalls there are, with whatever
\* texts, ids and times, but for the exceptions that the property names
\* (shell_state_version).
THEOREM VersionIsTrue == GatewaySpec => []VersionTellsChanges
<1>1. GatewayInit => ShellInv
  BY PartsStart, ShellStarts
<1>2. ShellInv /\ [GatewayNext]_gatewayVars => ShellInv'
  BY OneAtATime, ShellStep
<1>3. ShellInv => VersionTellsChanges
  BY ShellTells DEF VersionTellsChanges
<1>4. QED
  BY <1>1, <1>2, <1>3, PTL DEF GatewaySpec

----------------------------------------------------------------------------
(* The types of the relay: a cursor is a time at which a frame was sent, or *)
(* none, or the last time of all.                                           *)

RelayInTime ==
  /\ RelayInv
  /\ Len(local) <= MaxFrames /\ Len(remote) <= MaxFrames
  /\ relayTimeline \subseteq Published
  /\ cursor \in Re!Never..Re!Vacant
  /\ relayFaults \in 0..MaxFaults

LEMMA RelayTypeOK == RelayInTime => Re!TypeOK
<1> SUFFICES ASSUME RelayInTime PROVE Re!TypeOK
  OBVIOUS
<1>1. local \in Seq(Published) /\ remote \in Seq(Published \cup Foreign)
  BY DEF RelayInTime, RelayInv, RelayTyped
<1>2. Re!Range(local) \subseteq Published /\ Re!Range(remote) \subseteq Published \cup Foreign
  BY <1>1 DEF Re!Range
<1> QED BY <1>2 DEF RelayInTime, RelayInv, RelayTyped, Re!TypeOK

LEMMA RelayInTimeStarts == ASSUME Re!Init PROVE RelayInTime
<1>1. /\ local = <<>> /\ remote = <<>> /\ relayTimeline = {} /\ cursor = Re!Vacant
      /\ relayFaults = 0
  BY DEF Re!Init
<1>2. Re!Vacant \in Re!Never..Re!Vacant /\ 0 \in 0..MaxFaults /\ 0 <= MaxFrames
  BY GatewayConstants, Bounds DEF Re!Vacant, Re!Never
<1>3. Len(local) <= MaxFrames /\ Len(remote) <= MaxFrames
  BY <1>1, <1>2
<1> QED BY <1>1, <1>2, <1>3, RelayStarts DEF RelayInTime

\* A frame that is answered has a time.
LEMMA AnswersHaveTimes ==
  ASSUME RelayInv, NEW c
  PROVE  \A k \in DOMAIN Re!Frames(c) : k \in Nat /\ k <= Len(local) + Len(remote)
                                        /\ Re!Frames(c)[k] \in Published \cup Foreign
<1> DEFINE n == Len(local)
           all == local \o remote
<1>1. /\ local \in Seq(Published) /\ remote \in Seq(Published \cup Foreign)
      /\ n \in Nat /\ DOMAIN local = 1..n
      /\ Len(remote) \in Nat /\ DOMAIN remote = 1..Len(remote)
  BY DEF RelayInv, RelayTyped
<1>2. /\ all \in Seq(Published \cup Foreign) /\ DOMAIN all = 1..(n + Len(remote))
  <2>1. local \in Seq(Published \cup Foreign)
    BY <1>1
  <2> QED BY <1>1, <2>1
<1>3. ASSUME NEW k \in Re!Places(c) PROVE k \in 1..(n + Len(remote))
  <2>1. Re!Since(local, c) \subseteq 1..n /\ Re!Since(remote, c) \subseteq 1..Len(remote)
    BY <1>1 DEF Re!Since
  <2>2. k \in Re!Since(local, c) \/ \E j \in Re!Since(remote, c) : k = n + j
    BY DEF Re!Places
  <2> QED BY <1>1, <2>1, <2>2
<1>4. \A k \in DOMAIN Re!Frames(c) : k \in Re!Places(c) /\ Re!Frames(c)[k] = all[k]
  BY DEF Re!Frames, Re!MergeFrames
<1> HIDE DEF all
<1>5. ASSUME NEW k \in DOMAIN Re!Frames(c)
      PROVE  k \in 1..(n + Len(remote)) /\ Re!Frames(c)[k] \in Published \cup Foreign
  BY <1>2, <1>3, <1>4
<1> QED BY <1>1, <1>5

LEMMA RelayInTimeStep == ASSUME RelayInTime, [Re!Next]_relayVars PROVE RelayInTime'
<1>1. /\ RelayInv /\ RelayInv' /\ relayFaults \in Nat /\ MaxFaults \in Nat /\ MaxFrames \in Nat
      /\ Len(local) \in Nat /\ Len(remote) \in Nat
      /\ local \in Seq(Published) /\ remote \in Seq(Published \cup Foreign)
  BY RelayStep, GatewayConstants, Bounds DEF RelayInTime, RelayInv, RelayTyped
<1>2. ASSUME Re!Fault PROVE relayFaults' \in 0..MaxFaults
  BY <1>1, <1>2 DEF Re!Fault, RelayInTime
<1>3. /\ \A m : Len(local) < MaxFrames => Len(Re!Pushed(local, m)) <= MaxFrames
      /\ \A m : Len(remote) < MaxFrames => Len(Re!Pushed(remote, m)) <= MaxFrames
  <2>1. \A m : /\ Len(Append(local, m)) = Len(local) + 1
               /\ Len(Append(remote, m)) = Len(remote) + 1
    BY <1>1
  <2> QED BY <1>1, <2>1 DEF Re!Pushed
<1>4. ASSUME NEW m \in Published, Re!Publish(m) PROVE RelayInTime'
  <2>1. /\ Len(local) < MaxFrames /\ Len(remote) < MaxFrames
        /\ local' = Re!Pushed(local, m) /\ relayTimeline' = relayTimeline \cup {m}
        /\ UNCHANGED <<cursor, relayFaults>> /\ remote' \in {remote, Re!Pushed(remote, m)}
    <3>1. Re!ReachesUpstream(m)
      BY <1>4 DEF Re!Publish
    <3>2. UNCHANGED relayFaults /\ remote' \in {remote, Re!Pushed(remote, m)}
      BY <3>1 DEF Re!ReachesUpstream
    <3> QED BY <1>4, <3>2 DEF Re!Publish
  <2> QED BY <1>1, <1>3, <2>1 DEF RelayInTime
<1>5. ASSUME NEW m \in Published, Re!UpstreamFails(m) \/ Re!IngestFails(m) PROVE RelayInTime'
  <2>1. /\ Len(local) < MaxFrames /\ Len(remote) < MaxFrames /\ Re!Fault
        /\ local' = Re!Pushed(local, m)
        /\ UNCHANGED <<cursor, relayTimeline>> /\ remote' \in {remote, Re!Pushed(remote, m)}
    BY <1>5 DEF Re!UpstreamFails, Re!IngestFails
  <2> QED BY <1>1, <1>2, <1>3, <2>1 DEF RelayInTime
<1>6. ASSUME NEW m \in Foreign, Re!PublishElsewhere(m) PROVE RelayInTime'
  BY <1>1, <1>3, <1>6 DEF Re!PublishElsewhere, RelayInTime
<1>7. ASSUME NEW c \in Re!Never..End, Re!Recover(c) PROVE RelayInTime'
  BY <1>1, <1>7 DEF Re!Recover, RelayInTime
<1>8. ASSUME NEW history \in BOOLEAN, Re!Subscribe(history) PROVE RelayInTime'
  <2>1. cursor' \in {Re!Never, End, cursor}
    BY <1>8 DEF Re!Subscribe, Re!Subscribed
  <2>2. {Re!Never, End} \subseteq Re!Never..Re!Vacant
    BY GatewayConstants DEF Re!Never, Re!Vacant
  <2> QED BY <1>1, <1>8, <2>1, <2>2 DEF Re!Subscribe, RelayInTime
<1>9. CASE Re!Poll
  <2>1. PICK c : answer' = Re!Frames(c)
    BY <1>9 DEF Re!Poll
  <2>2. cursor' \in Re!Never..Re!Vacant
    <3>1. CASE DOMAIN answer' = {}
      BY <1>9, <3>1 DEF Re!Poll, RelayInTime
    <3>2. CASE DOMAIN answer' # {}
      <4> DEFINE keys == DOMAIN answer'
      <4>1. \A k \in keys : k \in Nat /\ k <= Len(local) + Len(remote)
                            /\ answer'[k] \in Published \cup Foreign
        BY <1>1, <2>1, AnswersHaveTimes
      <4>2. Re!Max(keys) \in keys
        <5> HIDE DEF keys
        <5>1. keys \subseteq Nat /\ \A k \in keys : k <= Len(local) + Len(remote)
          BY <4>1
        <5>2. keys # {} /\ Len(local) + Len(remote) \in Nat
          BY <1>1, <3>2 DEF keys
        <5>3. Re!Max(keys) = Sh!Max(keys)
          BY DEF Re!Max, Sh!Max
        <5> QED BY <5>1, <5>2, <5>3, GreatestNumber
      <4>3. cursor' = Stamp[answer'[Re!Max(keys)]]
        BY <1>9, <3>2 DEF Re!Poll
      <4>4. answer'[Re!Max(keys)] \in Published \cup Foreign
        BY <4>1, <4>2
      <4>5. cursor' \in 1..End
        BY <4>3, <4>4, GatewayConstants
      <4> QED BY <4>5, GatewayConstants DEF Re!Never, Re!Vacant
    <3> QED BY <3>1, <3>2
  <2> QED BY <1>1, <1>9, <2>2 DEF Re!Poll, RelayInTime
<1>10. ASSUME NEW connected \in BOOLEAN, Re!SetUpstream(connected) PROVE RelayInTime'
  BY <1>1, <1>2, <1>10 DEF Re!SetUpstream, RelayInTime
<1>11. CASE Re!Restart
  <2>1. local' = <<>> /\ cursor' = Re!Vacant /\ Re!Fault /\ UNCHANGED <<remote, relayTimeline>>
    BY <1>11 DEF Re!Restart
  <2>2. Len(local') <= MaxFrames /\ Re!Vacant \in Re!Never..Re!Vacant
    BY <1>1, <2>1, GatewayConstants DEF Re!Never, Re!Vacant
  <2> QED BY <1>1, <1>2, <2>1, <2>2 DEF RelayInTime
<1>12. CASE UNCHANGED relayVars
  BY <1>1, <1>12 DEF relayVars, RelayInTime
<1> QED
  BY <1>4, <1>5, <1>6, <1>7, <1>8, <1>9, <1>10, <1>11, <1>12 DEF Re!Next

----------------------------------------------------------------------------
(* The types of the terminal: what is active and selected is known to its   *)
(* store while it runs, and what is subscribed to as well.                  *)

ScreenTyped ==
  /\ focus \in {"nav", "transcript", "input"} /\ draft \in Te!Draft
  /\ active \in Te!Conversation /\ selected \in Te!Conversation
  /\ running => active \in known /\ selected \in known

StoreTyped ==
  /\ running \in BOOLEAN
  /\ known \subseteq Te!Conversation /\ subscribed \subseteq known
  /\ store \subseteq Te!Entry /\ relay \subseteq Te!Frame /\ spoken \subseteq Te!Frame
  /\ sessions \subseteq Private

WrittenTyped == written \in 0..MaxWritten /\ termFaults \in 0..MaxFailures

TerminalTyped == ScreenTyped /\ StoreTyped /\ WrittenTyped

LEMMA FocusAreas == Te!Range(Te!Focus) = {"nav", "transcript", "input"}
BY DEF Te!Range, Te!Focus

LEMMA TerminalTypeOK == TerminalTyped => Te!TypeOK
BY FocusAreas DEF TerminalTyped, ScreenTyped, StoreTyped, WrittenTyped, Te!TypeOK

LEMMA TerminalStarts == ASSUME Te!Init PROVE TerminalTyped
<1>1. 0 \in 0..MaxWritten /\ 0 \in 0..MaxFailures
  BY GatewayConstants
<1> QED BY <1>1 DEF Te!Init, TerminalTyped, ScreenTyped, StoreTyped, WrittenTyped, Te!Draft,
               Te!Empty, Te!Conversation

\* What can be selected is known.
LEMMA RowsKnown ==
  ASSUME TerminalTyped, running
  PROVE  /\ Te!Selectable \subseteq known
         /\ \A down \in BOOLEAN : Te!Moved(down) \in known
<1>1. active \in known /\ Te!Rows \subseteq Nat /\ 0 \in Te!Rows
  <2>1. DOMAIN Listed \subseteq Nat
    BY GatewayConstants
  <2> QED BY <2>1 DEF TerminalTyped, ScreenTyped, Te!Rows
<1>2. ASSUME NEW k \in Te!Rows PROVE Te!InRow(k) \in known
  BY <1>1 DEF Te!Rows, Te!InRow
<1>3. Te!RowSelected \in Te!Rows
  <2>1. CASE selected \in Te!Selectable
    <3>1. \E k \in Te!Rows : Te!InRow(k) = selected
      BY <2>1 DEF Te!Selectable
    <3> QED BY <2>1, <3>1 DEF Te!RowSelected
  <2> QED BY <1>1, <2>1 DEF Te!RowSelected
<1>4. ASSUME NEW down \in BOOLEAN PROVE Te!Moved(down) \in known
  <2> DEFINE beyond == {k \in Te!Rows : IF down THEN k > Te!RowSelected ELSE k < Te!RowSelected}
  <2>1. CASE beyond = {}
    BY <1>2, <1>3, <2>1 DEF Te!Moved
  <2>2. CASE beyond # {}
    <3>1. beyond \subseteq Te!Rows /\ beyond \subseteq Nat
      BY <1>1
    <3>2. CASE down
      <4>1. Te!Min(beyond) \in beyond
        <5> HIDE DEF beyond
        <5>1. PICK x \in beyond : \A y \in beyond : x <= y
          BY <2>2, <3>1, LeastNumber
        <5> QED BY <5>1, Zenon DEF Te!Min
      <4>2. Te!Moved(down) = Te!InRow(Te!Min(beyond))
        BY <2>2, <3>2 DEF Te!Moved
      <4> QED BY <1>2, <3>1, <4>1, <4>2
    <3>3. CASE ~down
      <4>1. Te!Max(beyond) \in beyond
        <5>1. \A k \in beyond : k <= Te!RowSelected
          BY <1>1, <1>3, <3>1, <3>3
        <5>2. Te!RowSelected \in Nat
          BY <1>1, <1>3
        <5> HIDE DEF beyond
        <5>3. Te!Max(beyond) = Sh!Max(beyond)
          BY DEF Te!Max, Sh!Max
        <5> QED BY <2>2, <3>1, <5>1, <5>2, <5>3, GreatestNumber
      <4>2. Te!Moved(down) = Te!InRow(Te!Max(beyond))
        BY <2>2, <3>3 DEF Te!Moved
      <4> QED BY <1>2, <3>1, <4>1, <4>2
    <3> QED BY <3>2, <3>3
  <2> QED BY <2>1, <2>2
<1> QED BY <1>1, <1>2, <1>4 DEF Te!Selectable

\* Failures count up to their bound.
LEMMA FaultTyped ==
  ASSUME TerminalTyped, Te!Fault \/ UNCHANGED termFaults
  PROVE  termFaults' \in 0..MaxFailures
<1>1. termFaults \in 0..MaxFailures /\ MaxFailures \in Nat
  BY GatewayConstants DEF TerminalTyped, WrittenTyped
<1> QED BY <1>1 DEF Te!Fault

\* What a round merges and sends, and what it puts aside, are entries.
LEMMA ShelvedTyped ==
  ASSUME NEW entries \in SUBSET Te!Entry, Te!Shelve(entries)
  PROVE  store' \subseteq Te!Entry
<1>1. PICK old \in SUBSET {e \in entries : e.state = "pending"} :
        store' = (entries \ old) \cup {[e EXCEPT !.state = "shelved"] : e \in old}
  BY DEF Te!Shelve
<1>2. ASSUME NEW e \in Te!Entry PROVE [e EXCEPT !.state = "shelved"] \in Te!Entry
  BY DEF Te!Entry
<1> QED BY <1>1, <1>2

LEMMA RoundTyped == ASSUME TerminalTyped, Te!Round PROVE TerminalTyped'
<1>1. PICK frames \in SUBSET {f \in relay : f.conversation \in subscribed} :
        LET merged  == Te!Merged(frames)
            pending == {e \in merged : e.state = "pending"}
        IN \E sent \in SUBSET pending :
             /\ IF sent = pending THEN UNCHANGED termFaults ELSE Te!Fault
             /\ relay' = relay \cup {Te!FrameOf(e) : e \in sent}
             /\ Te!Shelve((merged \ sent) \cup {[e EXCEPT !.state = "delivered"] : e \in sent})
  BY DEF Te!Round
<1>2. PICK sent \in SUBSET {e \in Te!Merged(frames) : e.state = "pending"} :
        /\ Te!Fault \/ UNCHANGED termFaults
        /\ relay' = relay \cup {Te!FrameOf(e) : e \in sent}
        /\ Te!Shelve((Te!Merged(frames) \ sent)
                       \cup {[e EXCEPT !.state = "delivered"] : e \in sent})
  BY <1>1
<1>3. Te!Merged(frames) \subseteq Te!Entry
  <2>1. frames \subseteq Te!Frame /\ store \subseteq Te!Entry
    BY DEF TerminalTyped, StoreTyped
  <2>2. ASSUME NEW f \in frames
        PROVE  [id |-> f.id, conversation |-> f.conversation, notice |-> FALSE,
                state |-> "delivered"] \in Te!Entry
    BY <2>1 DEF Te!Frame, Te!Entry
  <2> QED BY <2>1, <2>2 DEF Te!Merged
<1>4. \A e \in sent : /\ e \in Te!Entry /\ Te!FrameOf(e) \in Te!Frame
                      /\ [e EXCEPT !.state = "delivered"] \in Te!Entry
  <2>1. sent \subseteq Te!Entry
    BY <1>3
  <2>2. \A e \in Te!Entry : /\ Te!FrameOf(e) \in Te!Frame
                            /\ [e EXCEPT !.state = "delivered"] \in Te!Entry
    BY DEF Te!Entry, Te!Frame, Te!FrameOf
  <2> QED BY <2>1, <2>2
<1>5. store' \subseteq Te!Entry
  <2> DEFINE entries == (Te!Merged(frames) \ sent)
                          \cup {[e EXCEPT !.state = "delivered"] : e \in sent}
  <2>1. entries \subseteq Te!Entry
    BY <1>3, <1>4
  <2>2. Te!Shelve(entries)
    BY <1>2
  <2> HIDE DEF entries
  <2> QED BY <2>1, <2>2, ShelvedTyped
<1>6. relay' \subseteq Te!Frame
  BY <1>2, <1>4 DEF TerminalTyped, StoreTyped
<1>7. termFaults' \in 0..MaxFailures
  BY <1>2, FaultTyped
<1>8. UNCHANGED <<running, focus, active, selected, draft, known, subscribed, sessions, spoken,
                  written>>
  BY DEF Te!Round, Te!screen
<1> QED BY <1>5, <1>6, <1>7, <1>8 DEF TerminalTyped, ScreenTyped, StoreTyped, WrittenTyped

LEMMA KeptTyped ==
  ASSUME TerminalTyped, Te!Fresh, NEW c \in Te!Conversation, NEW notice \in BOOLEAN,
         NEW state \in {"pending", "delivered", "shelved"}, Te!Kept(c, notice, state)
  PROVE  store' \subseteq Te!Entry /\ written' \in 1..MaxWritten /\ written' \in 0..MaxWritten
<1>1. written' \in 1..MaxWritten /\ written' \in 0..MaxWritten
  BY GatewayConstants DEF Te!Fresh, TerminalTyped, WrittenTyped
<1>2. [id |-> written', conversation |-> c, notice |-> notice, state |-> state] \in Te!Entry
  BY <1>1 DEF Te!Entry, Te!Id
<1> QED BY <1>1, <1>2 DEF Te!Kept, TerminalTyped, StoreTyped

\* Keys that only move about.
LEMMA KeysTyped ==
  ASSUME TerminalTyped,
         \/ \E b \in BOOLEAN : Te!TurnFocus(b) \/ Te!MoveSelection(b)
         \/ Te!LeaveInput \/ Te!EnterSelected \/ Te!FocusInput \/ Te!QuitKey
         \/ \E d \in Te!Draft : Te!TypeKey(d)
  PROVE  TerminalTyped'
<1>1. ASSUME NEW b \in BOOLEAN, Te!TurnFocus(b) PROVE TerminalTyped'
  <2>1. Te!Position \in 1..3
    <3>1. \E p \in DOMAIN Te!Focus : Te!Focus[p] = focus
      BY FocusAreas DEF TerminalTyped, ScreenTyped, Te!Range
    <3>2. DOMAIN Te!Focus = 1..3
      BY DEF Te!Focus
    <3> QED BY <3>1, <3>2 DEF Te!Position
  <2>2. (Te!Position % 3) + 1 \in 1..3 /\ ((Te!Position + 1) % 3) + 1 \in 1..3
    BY <2>1
  <2>3. \A p \in 1..3 : Te!Focus[p] \in {"nav", "transcript", "input"}
    BY DEF Te!Focus
  <2>4. focus' \in {"nav", "transcript", "input"}
    BY <1>1, <2>2, <2>3 DEF Te!TurnFocus
  <2> QED BY <1>1, <2>4 DEF Te!TurnFocus, Te!world, TerminalTyped, ScreenTyped, StoreTyped, WrittenTyped
<1>2. ASSUME NEW b \in BOOLEAN, Te!MoveSelection(b) PROVE TerminalTyped'
  <2>1. running /\ selected' = Te!Moved(b)
    BY <1>2 DEF Te!MoveSelection, Te!Key
  <2>2. selected' \in known
    BY <2>1, RowsKnown
  <2> QED BY <1>2, <2>2 DEF Te!MoveSelection, Te!world, TerminalTyped, ScreenTyped, StoreTyped, WrittenTyped
<1>3. CASE Te!LeaveInput \/ Te!EnterSelected \/ Te!FocusInput \/ Te!QuitKey
  BY <1>3 DEF Te!LeaveInput, Te!EnterSelected, Te!FocusInput, Te!QuitKey, Te!Key, Te!world,
              Te!screen, TerminalTyped, ScreenTyped, StoreTyped, WrittenTyped
<1>4. ASSUME NEW d \in Te!Draft, Te!TypeKey(d) PROVE TerminalTyped'
  BY <1>4 DEF Te!TypeKey, Te!Key, Te!world, TerminalTyped, ScreenTyped, StoreTyped, WrittenTyped
<1> QED BY <1>1, <1>2, <1>3, <1>4

LEMMA LifeTyped ==
  ASSUME TerminalTyped, Te!Start \/ Te!Stop \/ Te!RoundFails
  PROVE  TerminalTyped'
<1>1. CASE Te!Start
  <2>1. /\ running' = TRUE /\ focus' = "nav" /\ draft' = Te!Empty
        /\ active' \in Launch /\ selected' = active'
        /\ known' = known \cup Launch \cup sessions /\ subscribed' = Launch \cup sessions
        /\ UNCHANGED <<store, sessions, relay, spoken, written, termFaults>>
    BY <1>1 DEF Te!Start, Te!world
  <2>2. sessions \subseteq Private /\ Te!Conversation = Launch \cup Private
    BY DEF TerminalTyped, StoreTyped, Te!Conversation
  <2> QED BY <2>1, <2>2 DEF TerminalTyped, ScreenTyped, StoreTyped, WrittenTyped, Te!Draft
<1>2. CASE Te!Stop
  <2>1. termFaults' \in 0..MaxFailures
    BY <1>2, FaultTyped DEF Te!Stop
  <2> QED BY <1>2, <2>1 DEF Te!Stop, Te!world, Te!screen, TerminalTyped, ScreenTyped, StoreTyped,
                            WrittenTyped
<1>3. CASE Te!RoundFails
  <2>1. termFaults' \in 0..MaxFailures
    BY <1>3, FaultTyped DEF Te!RoundFails
  <2>2. store' \subseteq Te!Entry
    <3>1. store \in SUBSET Te!Entry /\ Te!Shelve(store)
      BY <1>3 DEF Te!RoundFails, TerminalTyped, StoreTyped
    <3> QED BY <3>1, ShelvedTyped
  <2> QED BY <1>3, <2>1, <2>2 DEF Te!RoundFails, Te!world, Te!screen, TerminalTyped, ScreenTyped,
                                  StoreTyped, WrittenTyped
<1> QED BY <1>1, <1>2, <1>3

\* Commands that are answered with a notice.
LEMMA NoticesTyped ==
  ASSUME TerminalTyped,
         \/ Te!HelpCommand \/ Te!SearchCommand \/ Te!AmendCommand \/ Te!InspectCommand
         \/ Te!AdminCommand \/ Te!InviteCommand
  PROVE  TerminalTyped'
<1>1. PICK d : Te!Submit(d) /\ Te!Notify /\ (Te!Fault \/ UNCHANGED termFaults)
  BY DEF Te!HelpCommand, Te!SearchCommand, Te!AmendCommand, Te!InspectCommand,
         Te!AdminCommand, Te!InviteCommand, Te!Told
<1>2. termFaults' \in 0..MaxFailures
  BY <1>1, FaultTyped
<1>3. store' \subseteq Te!Entry /\ written' \in 0..MaxWritten
  <2>1. Te!Fresh /\ Te!Kept(active, TRUE, "delivered") /\ active \in Te!Conversation
    BY <1>1 DEF Te!Notify, Te!AppendNotice, TerminalTyped, ScreenTyped
  <2> QED BY <2>1, KeptTyped
<1>4. /\ draft' = Te!Empty /\ selected' = active
      /\ UNCHANGED <<running, focus, active, known, subscribed, sessions, relay, spoken>>
  BY <1>1 DEF Te!Submit, Te!Notify, Te!world
<1> QED BY <1>2, <1>3, <1>4 DEF TerminalTyped, ScreenTyped, StoreTyped, WrittenTyped, Te!Draft

\* Commands that go to another conversation, or end the terminal.
LEMMA GoingTyped ==
  ASSUME TerminalTyped,
         \/ Te!WorldCommand \/ Te!OpenCommand \/ Te!DirectToNobody \/ Te!QuitCommand
  PROVE  TerminalTyped'
<1>1. ASSUME NEW c \in Te!Selectable, NEW d, Te!Submit(d), Te!GoTo(c) PROVE TerminalTyped'
  <2>1. running /\ c \in known /\ c \in Te!Conversation
    BY <1>1, RowsKnown DEF Te!Submit, Te!Key, TerminalTyped, StoreTyped
  <2> QED BY <1>1, <2>1 DEF Te!Submit, Te!GoTo, Te!world, TerminalTyped, ScreenTyped, StoreTyped,
                            WrittenTyped, Te!Draft
<1>2. ASSUME NEW d, Te!Submit(d), Te!Stay PROVE TerminalTyped'
  BY <1>2 DEF Te!Submit, Te!Stay, Te!world, TerminalTyped, ScreenTyped, StoreTyped, WrittenTyped,
              Te!Draft
<1>3. CASE Te!QuitCommand
  BY <1>3 DEF Te!QuitCommand, Te!Submit, Te!world, TerminalTyped, ScreenTyped, StoreTyped,
              WrittenTyped, Te!Draft
<1> QED BY <1>1, <1>2, <1>3 DEF Te!WorldCommand, Te!OpenCommand, Te!DirectToNobody, Te!IfListed

LEMMA DirectTyped ==
  ASSUME TerminalTyped, NEW c \in Private, Te!DirectCommand(c) \/ Te!DirectFails(c)
  PROVE  TerminalTyped'
<1>1. c \in Te!Conversation
  BY DEF Te!Conversation
<1>2. CASE Te!DirectCommand(c)
  BY <1>1, <1>2 DEF Te!DirectCommand, Te!Submit, TerminalTyped, ScreenTyped, StoreTyped,
                    WrittenTyped, Te!Draft
<1>3. CASE Te!DirectFails(c)
  <2>1. termFaults' \in 0..MaxFailures
    BY <1>3, FaultTyped DEF Te!DirectFails
  <2> QED BY <1>3, <2>1 DEF Te!DirectFails, Te!Submit, TerminalTyped, ScreenTyped, StoreTyped,
                            WrittenTyped, Te!Draft
<1> QED BY <1>2, <1>3

LEMMA SpeakTyped == ASSUME TerminalTyped, Te!Speak PROVE TerminalTyped'
<1> DEFINE frame == [id |-> written', conversation |-> active]
<1>1. active \in Te!Conversation /\ Te!Fresh
  BY DEF Te!Speak, TerminalTyped, ScreenTyped
<1>2. PICK state \in {"pending", "delivered"} : Te!Kept(active, FALSE, state)
  BY DEF Te!Speak
<1>3. store' \subseteq Te!Entry /\ written' \in 1..MaxWritten /\ written' \in 0..MaxWritten
  BY <1>1, <1>2, KeptTyped
<1>4. frame \in Te!Frame
  BY <1>1, <1>3 DEF Te!Frame, Te!Id
<1>5. spoken' = spoken \cup {frame} /\ relay' \in {relay, relay \cup {frame}}
  BY DEF Te!Speak
<1>6. termFaults' \in 0..MaxFailures
  BY FaultTyped DEF Te!Speak
<1>7. /\ draft' = Te!Empty /\ selected' = active
      /\ UNCHANGED <<running, focus, active, known, subscribed, sessions>>
  BY DEF Te!Speak, Te!Submit
<1> HIDE DEF frame
<1> QED BY <1>3, <1>4, <1>5, <1>6, <1>7 DEF TerminalTyped, ScreenTyped, StoreTyped, WrittenTyped,
                                           Te!Draft

LEMMA TerminalStep == ASSUME TerminalTyped, [Te!Next]_termVars PROVE TerminalTyped'
<1>1. CASE UNCHANGED termVars
  BY <1>1 DEF termVars, TerminalTyped, ScreenTyped, StoreTyped, WrittenTyped
<1>2. CASE Te!Next
  BY <1>2, RoundTyped, KeysTyped, LifeTyped, NoticesTyped, GoingTyped, DirectTyped, SpeakTyped
     DEF Te!Next
<1> QED BY <1>1, <1>2

----------------------------------------------------------------------------
(* The types of all parts. *)

LEMMA ShellTypeOK == ShellInv => Sh!TypeOK
<1> SUFFICES ASSUME ShellInv PROVE Sh!TypeOK
  OBVIOUS
<1>1. ASSUME NEW r \in Place, NEW k \in DOMAIN timeline[r]
      PROVE  /\ timeline[r][k].id \in Sh!Id /\ timeline[r][k].at \in Sh!Time
             /\ timeline[r][k].edited \in 0..MaxTime /\ timeline[r][k].recalled \in 0..MaxTime
             /\ timeline[r][k].text \in Said /\ timeline[r][k].archived \in BOOLEAN
  <2>1. timeline[r][k] \in ShellEntry
    BY DEF ShellInv, ShellTyped
  <2> QED BY <2>1 DEF ShellEntry, Sh!Id, Sh!Time
<1>2. DOMAIN held = {"version", "shown"}
  BY DEF ShellInv, HeldShape
<1> QED BY <1>1, <1>2 DEF ShellInv, ShellTyped, Sh!TypeOK, Sh!Time

TypesInv ==
  /\ ConversationsTyped /\ RequestInv /\ AdminInv /\ SessionsTyped
  /\ ShellInv /\ RelayInTime /\ TerminalTyped /\ CacheInv

\* Whatever the bounds, the parts keep to their types: an administrator's record
\* is of known residents, what a process holds is a stage of its command, an
\* epoch never exceeds its bound, a row of the terminal's list is a row of it.
THEOREM TypesStay == GatewaySpec => []TypesOK
<1>1. GatewayInit => TypesInv
  BY PartsStart, ConversationsStart, RequestStarts, AdminStarts, SessionsStart, ShellStarts,
     RelayInTimeStarts, TerminalStarts, CacheStarts DEF TypesInv
<1>2. TypesInv /\ [GatewayNext]_gatewayVars => TypesInv'
  BY OneAtATime, StepTyped, RequestStep, AdminStep, SessionsStep, ShellStep, RelayInTimeStep,
     TerminalStep, CacheStep DEF TypesInv
<1>3. TypesInv => TypesOK
  BY ConversationsTypeOK, AdminTyped, SessionsTypeOK, ShellTypeOK, RelayTypeOK, TerminalTypeOK
     DEF TypesInv, RequestInv, CacheInv, TypesOK
<1>4. QED
  BY <1>1, <1>2, <1>3, PTL DEF GatewaySpec

============================================================================
