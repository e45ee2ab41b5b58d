---------------------------- MODULE CommandLine ----------------------------
(***************************************************************************)
(* The command line client (apps/lobster-cli/src): one process for each    *)
(* command, several at a time, which share the session cached in           *)
(* ~/.lobster/cli-session.json.  A login writes the cache beside its place *)
(* and renames it there; every other command reads it, possibly between    *)
(* two steps of a login or a logout.  What the gateway makes of a request  *)
(* is the subject of Requests.                                             *)
(***************************************************************************)
EXTENDS Naturals, Sequences, FiniteSets

CONSTANTS
  Resident,
  Process,       \* commands that run at the same time
  Nobody,        \* no actor
  TailWindow,    \* messages that one tail request returns
  MaxSessions,   \* bound: sessions opened
  MaxPosts,      \* bound: messages in the followed conversation
  MaxFaults      \* bound: processes killed, requests that fail

VARIABLES
  live,      \* sessions of the gateway
  opened,    \* the residents of the sessions opened, in their order
  cache,     \* the file at cli-session.json
  tmp,       \* the file at cli-session.json.tmp
  body,      \* what each file holds
  step,      \* where each process is
  hand,      \* what it has in hand: a session, an actor or a file
  seen,      \* the messages a following tail has printed
  posts,     \* messages in the conversation
  request,   \* the actor and the token of the last request
  overlap,   \* history: a login began to write while another one was writing
  faults     \* for the bound

vars == <<live, opened, cache, tmp, body, step, hand, seen, posts, request, overlap, faults>>
files == <<cache, tmp, body, overlap>>

\* A session's token is its number.
NoToken     == 0
Session     == 1..MaxSessions
Agent       == MaxSessions + 1
NotLoggedIn == MaxSessions + 2
Token       == NoToken..Agent

\* Files are counted too; one more than there are processes is enough.
NoFile  == 0
File    == 1..(Cardinality(Process) + 1)
Half    == 0
Nothing == [session |-> NoToken, actor |-> Nobody, file |-> NoFile]

Init ==
  /\ live = {} /\ opened = <<>>
  /\ cache = NoFile /\ tmp = NoFile
  /\ body = [f \in File |-> Half]
  /\ step = [p \in Process |-> "start"]
  /\ hand = [p \in Process |-> Nothing]
  /\ seen = [p \in Process |-> {}]
  /\ posts = 0
  /\ request = [actor |-> Nobody, token |-> NoToken]
  /\ overlap = FALSE
  /\ faults = 0

Fault == faults < MaxFaults /\ faults' = faults + 1

\* The process is over; the next command is a new one.
Done(p) ==
  /\ step' = [step EXCEPT ![p] = "start"]
  /\ hand' = [hand EXCEPT ![p] = Nothing]
  /\ seen' = [seen EXCEPT ![p] = {}]

At(p, from, to) == step[p] = from /\ step' = [step EXCEPT ![p] = to]

----------------------------------------------------------------------------
(* Whose request it is. *)

\* read_cache_at: a file that is not whole is an error.
Unreadable == cache # NoFile /\ body[cache] = Half
Cached == IF cache = NoFile THEN NoToken ELSE body[cache]

\* resolve_token: --token, LOBSTER_SESSION_TOKEN, the cache.  The cache is read
\* first, and a corrupt one is an error whatever else is given.
Resolved(explicit, env) ==
  IF Unreadable THEN NotLoggedIn
  ELSE IF explicit # NoToken THEN explicit
  ELSE IF env # NoToken THEN env
  ELSE IF Cached # NoToken THEN Cached ELSE NotLoggedIn

\* send, edit, recall: without a token the request is sent as it is.
TokenOrNone(explicit, env) ==
  IF Resolved(explicit, env) = NotLoggedIn THEN NoToken ELSE Resolved(explicit, env)

\* The messages of an agent, and reads for one, take its own token.
MessageToken(agent, explicit, env, sidecar) ==
  IF agent THEN sidecar ELSE TokenOrNone(explicit, env)

\* resolve_scoped_cli_token
ScopedToken(agent, explicit, env, sidecar) ==
  IF ~agent THEN Resolved(explicit, env)
  ELSE IF sidecar = NoToken THEN NotLoggedIn ELSE sidecar

\* resolve_shell_session_token
ShellToken(agent, explicit, env) ==
  IF agent THEN NotLoggedIn ELSE Resolved(explicit, env)

\* resolve_admin_read_token: a sidecar's token is refused, not left aside.
AdminReadToken(explicit, env, sidecar) ==
  IF sidecar # NoToken THEN NotLoggedIn ELSE Resolved(explicit, env)

----------------------------------------------------------------------------
(* Commands of one request. *)

\* The request is sent, or the command ends with an error before it.
Send(p, actor, token) ==
  /\ step[p] = "start"
  /\ request' = IF token = NotLoggedIn THEN request
                ELSE [actor |-> actor, token |-> token]
  /\ UNCHANGED <<live, opened, files, step, hand, seen, posts, faults>>

\* send, edit, recall.
MessageCommand(p, agent, explicit, env, sidecar) ==
  Send(p, Nobody, MessageToken(agent, explicit, env, sidecar))

\* inbox, rooms, search, and tail without --follow.
ReadCommand(p, agent, explicit, env, sidecar) ==
  Send(p, Nobody, ScopedToken(agent, explicit, env, sidecar))

\* read, presence.
ShellCommand(p, agent, explicit, env) ==
  Send(p, Nobody, ShellToken(agent, explicit, env))

\* export, set-nickname, admin-nickname, and config without --set.
SessionCommand(p, explicit, env) == Send(p, Nobody, Resolved(explicit, env))

\* residents, rooms-admin.
AdminReadCommand(p, explicit, env, sidecar) ==
  Send(p, Nobody, AdminReadToken(explicit, env, sidecar))

\* who, world, square, cities, safety, directory, snapshot, create-resident.
OpenCommand(p) == Send(p, Nobody, NoToken)

----------------------------------------------------------------------------
(* ban, unban, freeze, unfreeze, invite-create, invite-revoke, moderate,    *)
(* room-member, config --set: the cache is read for the actor, then once    *)
(* more for the token.                                                      *)

\* resolve_admin_actor
NameActor(p, actor) ==
  /\ actor # Nobody \/ (~Unreadable /\ Cached # NoToken)
  /\ At(p, "start", "acting")
  /\ hand' = [hand EXCEPT ![p].actor = IF actor # Nobody THEN actor ELSE opened[Cached]]
  /\ UNCHANGED <<live, opened, files, seen, posts, request, faults>>

AdminCommand(p, explicit, env) ==
  LET token == Resolved(explicit, env)
  IN /\ step[p] = "acting"
     /\ request' = IF token = NotLoggedIn THEN request
                   ELSE [actor |-> hand[p].actor, token |-> token]
     /\ Done(p)
     /\ UNCHANGED <<live, opened, files, posts, faults>>

----------------------------------------------------------------------------
(* login *)

\* The code was requested and, unless the gateway tells it, is awaited.
RequestCode(p) ==
  /\ At(p, "start", "code")
  /\ UNCHANGED <<live, opened, files, hand, seen, posts, request, faults>>

\* The code is verified: the gateway has a session more.
VerifyCode(p, r) ==
  /\ Len(opened) < MaxSessions
  /\ opened' = Append(opened, r)
  /\ live' = live \cup {Len(opened')}
  /\ \/ At(p, "code", "verified")
          /\ hand' = [hand EXCEPT ![p].session = Len(opened')]
          /\ UNCHANGED <<seen, faults>>
     \/ step[p] = "code" /\ Fault /\ Done(p)
  /\ UNCHANGED <<files, posts, request>>

Writing(p) == step[p] \in {"created", "written"}

\* File::create: the file at .tmp, if there is one, is emptied.
FileFor(p) ==
  IF tmp # NoFile THEN tmp
  ELSE CHOOSE f \in File : f # cache /\ \A q \in Process : hand[q].file # f

\* Faulty variant: the cache is written in its place.
CreateInPlace(p) ==
  LET f == IF cache # NoFile THEN cache ELSE FileFor(p)
  IN /\ cache' = f /\ tmp' = f
     /\ body' = [body EXCEPT ![f] = Half]
     /\ hand' = [hand EXCEPT ![p].file = f]

CreateFile(p) ==
  /\ tmp' = FileFor(p)
  /\ body' = [body EXCEPT ![FileFor(p)] = Half]
  /\ hand' = [hand EXCEPT ![p].file = FileFor(p)]
  /\ UNCHANGED cache

CreateTmp(p) ==
  /\ At(p, "verified", "created")
  /\ CreateFile(p)
  /\ overlap' = (overlap \/ \E q \in Process \ {p} : Writing(q))
  /\ UNCHANGED <<live, opened, seen, posts, request, faults>>

\* Two that write the same file leave one text or a mixture.
WriteTmp(p) ==
  LET f == hand[p].file
  IN /\ At(p, "created", "written")
     /\ \/ body' = [body EXCEPT ![f] = hand[p].session]
        \/ body[f] # Half /\ body' = [body EXCEPT ![f] = Half]
     /\ UNCHANGED <<live, opened, cache, tmp, hand, seen, posts, request, overlap, faults>>

\* rename: what is at .tmp is the cache; there may be nothing any more.
Rename(p) ==
  /\ step[p] = "written"
  /\ IF tmp = NoFile THEN UNCHANGED <<cache, tmp>> ELSE cache' = tmp /\ tmp' = NoFile
  /\ Done(p)
  /\ UNCHANGED <<live, opened, body, posts, request, overlap, faults>>

----------------------------------------------------------------------------
(* logout: the session that is resolved is ended, if the gateway can be     *)
(* reached, and the cache is removed in any case.                           *)

EndSession(p, explicit, env) ==
  /\ At(p, "start", "leaving")
  /\ \/ live' = live \ {Resolved(explicit, env)} /\ UNCHANGED faults
     \/ Resolved(explicit, env) # NotLoggedIn /\ Fault /\ UNCHANGED live
  /\ UNCHANGED <<opened, files, hand, seen, posts, request>>

DeleteCache(p) ==
  /\ step[p] = "leaving"
  /\ cache' = NoFile
  /\ Done(p)
  /\ UNCHANGED <<live, opened, tmp, body, posts, request, overlap, faults>>

----------------------------------------------------------------------------
(* tail --follow *)

Follow(p, agent, explicit, env, sidecar) ==
  LET token == ScopedToken(agent, explicit, env, sidecar)
  IN /\ token # NotLoggedIn
     /\ At(p, "start", "following")
     /\ hand' = [hand EXCEPT ![p].session = token]
     /\ UNCHANGED <<live, opened, files, seen, posts, request, faults>>

\* The last messages are asked for, the ones not seen yet are printed; the
\* token is the one of the start, and the first refusal ends the command.
TailRound(p) ==
  /\ step[p] = "following"
  /\ IF hand[p].session \in live \cup {Agent}
       THEN /\ seen' = [seen EXCEPT ![p] =
                          @ \cup {m \in 1..posts : m + TailWindow > posts}]
            /\ UNCHANGED <<step, hand>>
       ELSE Done(p)
  /\ request' = [actor |-> Nobody, token |-> hand[p].session]
  /\ UNCHANGED <<live, opened, files, posts, faults>>

Post ==
  /\ posts < MaxPosts
  /\ posts' = posts + 1
  /\ UNCHANGED <<live, opened, files, step, hand, seen, request, faults>>

----------------------------------------------------------------------------

\* A process is killed, or a request of its own fails.
Die(p) ==
  /\ step[p] # "start"
  /\ Fault
  /\ Done(p)
  /\ UNCHANGED <<live, opened, files, posts, request>>

\* Tokens that a user may give or have in the environment.
Given == live \cup {NoToken}

Next ==
  \/ \E p \in Process, explicit, env \in Given :
       \/ SessionCommand(p, explicit, env)
       \/ AdminCommand(p, explicit, env)
       \/ EndSession(p, explicit, env)
       \/ \E agent \in BOOLEAN : ShellCommand(p, agent, explicit, env)
       \/ \E sidecar \in {Agent, NoToken} :
            \/ AdminReadCommand(p, explicit, env, sidecar)
            \/ \E agent \in BOOLEAN :
                 \/ MessageCommand(p, agent, explicit, env, sidecar)
                 \/ ReadCommand(p, agent, explicit, env, sidecar)
                 \/ Follow(p, agent, explicit, env, sidecar)
  \/ \E p \in Process :
       \/ OpenCommand(p)
       \/ \E actor \in Resident \cup {Nobody} : NameActor(p, actor)
       \/ RequestCode(p) \/ CreateTmp(p) \/ WriteTmp(p) \/ Rename(p)
       \/ \E r \in Resident : VerifyCode(p, r)
       \/ DeleteCache(p) \/ TailRound(p) \/ Die(p)
  \/ Post

Spec == Init /\ [][Next]_vars

----------------------------------------------------------------------------
(* Properties. *)

TypeOK ==
  /\ opened \in Seq(Resident) /\ Len(opened) <= MaxSessions /\ live \subseteq DOMAIN opened
  /\ {cache, tmp} \subseteq File \cup {NoFile}
  /\ body \in [File -> DOMAIN opened \cup {Half}]
  /\ step \in [Process -> {"start", "acting", "code", "verified", "created", "written",
                           "leaving", "following"}]
  /\ hand \in [Process -> [session : Token, actor : Resident \cup {Nobody},
                           file : File \cup {NoFile}]]
  /\ \A p \in Process :
       /\ step[p] = "verified" \/ Writing(p) => hand[p].session \in DOMAIN opened
       /\ Writing(p) <=> hand[p].file # NoFile
  /\ seen \in [Process -> SUBSET (1..MaxPosts)] /\ posts \in 0..MaxPosts
  /\ request.token \in Token /\ request.actor \in Resident \cup {Nobody}
  /\ overlap \in BOOLEAN /\ faults \in 0..MaxFaults

\* auth.rs, of the cache: "atomic write (.tmp, then rename), so that a crash
\* leaves no half file".  Wherever a login is killed, and whatever commands run
\* beside it, the cache that the others read is whole; it is not when two logins
\* write at the same time, for both use the same .tmp.
CacheIsWhole == Unreadable => overlap

============================================================================
