----------------------------- MODULE Requests -----------------------------
(***************************************************************************)
(* How the gateway serves a request (http_router.rs and the http_*_routes  *)
(* modules of apps/lobster-waku-gateway/src, on the threads of main.rs).   *)
(*                                                                         *)
(* A handler holds the runtime mutex several times: once for each check of *)
(* the session, once for each check of a capability, once to carry the     *)
(* request out.  In between any number of other requests run: one of them  *)
(* may end the session, another may take the resident's permission group   *)
(* away.  The module follows one request at a time among any number of     *)
(* others, and RouteTables are the router's: for every route the checks in *)
(* their order and what is done in the last hold.                          *)
(*                                                                         *)
(* Left out: decoding (a body may be refused at any moment before the last *)
(* hold), the answers' text, and the notifier (module ShellEvents).        *)
(***************************************************************************)
EXTENDS Sequences, Functions

CONSTANTS
  Session,      \* sessions, each named by its bearer token
  Owner,        \* [Session -> Resident]
  Resident,
  Agent,        \* addresses with a token in LOBSTER_AGENT_TOKENS, named by it
  Nobody,       \* no actor in the body
  NoToken,      \* no Authorization header
  Capability,   \* the keys of capability_catalog that a route asks for
  Group,        \* permission groups
  Grants,       \* [Group -> SUBSET Capability]
  NoGroup,
  SuperAdmin    \* residents listed in LOBSTER_SUPER_ADMINS

VARIABLES
  live,       \* sessions that resolve_bearer_session accepts
  ended,      \* sessions revoked
  group,      \* resident_permission_groups
  bypass,     \* dev_auth_bypass, read once when the gateway starts
  poisoned,   \* a thread panicked while it held the runtime mutex
  phase,      \* the followed request: idle, checking, or how it was answered
  request,    \* its token, the actor its body names, the checks still to come
              \* and the act they guard
  entitled,   \* history: what its token stood for at some moment since it came
  audited     \* history: who its audit event names

vars == <<live, ended, group, bypass, poisoned, phase, request, entitled, audited>>

Token == Session \cup Agent \cup {NoToken}
Actor == Resident \cup Agent \cup {Nobody}

\* What resident_has_capability answers TRUE for.
Capabilities(r) ==
  IF r \in SuperAdmin THEN Capability
  ELSE IF group[r] \in Group THEN Grants[group[r]] ELSE {}

----------------------------------------------------------------------------
(* The checks, each one hold of the mutex, and the helpers made of them. *)

\* resolve_admin_session lets a request without a token pass in development.
Bypassed(q) == bypass /\ q.token = NoToken
Live(q) == q.token \in live
Speaks(q) == Live(q) /\ q.actor = Owner[q.token]
AgentSpeaks(q) == q.actor \in Agent /\ q.token = q.actor

Holds(check, q) ==
  \/ check = "anyone"
  \/ check = "session" /\ (Bypassed(q) \/ Live(q))
  \/ check = "speaker" /\ (Bypassed(q) \/ Speaks(q))
  \/ check = "given" /\ (Bypassed(q) \/ Speaks(q) \/ (Live(q) /\ q.actor = Nobody))
  \/ check = "named" /\ q.actor # Nobody
  \/ check = "resolved" /\ (q.actor # Nobody \/ Bypassed(q) \/ Live(q))
  \/ check = "viewer" /\ (q.actor = Nobody \/ Bypassed(q) \/ Speaks(q))
  \/ check = "sender" /\ (Bypassed(q) \/ Speaks(q) \/ AgentSpeaks(q))
  \/ check = "holder" /\ Live(q)
  \/ check = "bearer" /\ Speaks(q)
  \/ check = "bearer_if_token" /\ (q.token = NoToken \/ Speaks(q))
  \/ check \in Capability
       /\ \/ Bypassed(q)
          \/ q.token \in Session /\ check \in Capabilities(Owner[q.token])

AdminAuth == <<"session">>
AuthenticatedActor == <<"speaker">>
AdminCapability(c) == <<"session", c>>

\* Faulty variant: whoever is signed in may act.
AdminActorOnly(c) == <<"speaker">>

AdminActorCapability(c) == <<"speaker", c>>

\* Faulty variant: takes the actor the body names for granted.
AdminAnyActor(c) == <<"session", c>>

AdminActorOrCapability(c) == <<"given", c>>
ResolvedActor == <<"resolved">>
CliSenderAuth == <<"sender">>
\* require_shell_actor_auth: the actor, or the typed address it agrees with.
ShellActorAuth == <<"sender">>

\* What the last hold does: effect is the capability the catalogue has for it
\* where there is one; audit says whose name log_audit_event is given.
Act(effect, check, audit) == [effect |-> effect, check |-> check, audit |-> audit]
Read == Act("read", "anyone", "nobody")
Write == Act("write", "anyone", "nobody")
Route(checks, act) == [checks |-> checks, act |-> act]

----------------------------------------------------------------------------
(* The routes that write (http_write_routes.rs). *)

ProviderRoutes ==
  [world_mirror_sources |-> Route(AdminAuth, Write),
   provider_connect     |-> Route(AdminAuth, Write),
   provider_disconnect  |-> Route(AdminAuth, Write)]

DirectRoutes == [direct_open |-> Route(AuthenticatedActor, Write)]

\* The token is checked in the hold that acts, and there is no bypass.
PersonalRoomRoutes ==
  [personal_room               |-> Route(<<>>, Act("write", "bearer", "nobody")),
   personal_room_access_policy |-> Route(<<>>, Act("write", "bearer", "nobody"))]

RelationshipRoutes ==
  [relationship_request |-> Route(<<>>, Act("write", "bearer", "nobody")),
   relationship_accept  |-> Route(<<>>, Act("write", "bearer", "nobody"))]

WakuRoutes == [waku |-> Route(<<>>, Write)]

ShellMessageRoutes ==
  [shell_message |-> Route(AuthenticatedActor, Write),
   shell_scene   |-> Route(AuthenticatedActor, Write)]

MessageEditRoutes ==
  [shell_message_recall |-> Route(ShellActorAuth, Write),
   shell_message_edit   |-> Route(ShellActorAuth, Write)]

CliSendRoutes == [cli_send |-> Route(CliSenderAuth, Write)]

PresenceRoutes ==
  [shell_presence |-> Route(AuthenticatedActor, Write),
   shell_read     |-> Route(AuthenticatedActor, Write)]

BanRoutes ==
  LET ban == Route(AdminAuth \o <<"named">> \o AdminActorCapability("ban:resident"),
                   Act("ban:resident", "anyone", "actor"))
  IN [residents_ban |-> ban, residents_unban |-> ban]

NicknameRoutes ==
  [residents_nickname |-> Route(AdminAuth \o AdminActorOrCapability("manage:resident"),
                                Act("manage:resident", "anyone", "nobody")),
   shell_nickname     |-> Route(<<>>, Act("write", "holder", "nobody"))]

FreezeRoutes ==
  LET freeze == Route(AdminAuth \o ResolvedActor \o AdminActorOrCapability("freeze:room"),
                      Act("freeze:room", "anyone", "actor"))
  IN [rooms_freeze |-> freeze, rooms_unfreeze |-> freeze]

ConfigRoutes ==
  [config |-> Route(AdminAuth \o ResolvedActor \o AdminActorOrCapability("admin:config"),
                    Act("admin:config", "anyone", "actor")),
   messages_moderate |->
     Route(AdminAuth \o ResolvedActor \o AdminActorOrCapability("moderate:message"),
           Act("moderate:message", "anyone", "actor"))]

InviteRoutes ==
  LET invite == Route(AdminAuth \o AdminActorCapability("invite:resident"),
                      Act("invite:resident", "anyone", "nobody"))
  IN [invites_create |-> invite, invites_revoke |-> invite]

MemberRoutes ==
  [rooms_members |-> Route(AdminAuth \o AdminActorCapability("manage:resident"),
                           Act("manage:resident", "anyone", "nobody")),
   residents_create |-> Route(AdminAuth \o AdminActorOrCapability("manage:resident"),
                              Act("manage:resident", "anyone", "nobody"))]

LogRoutes ==
  [logs_handle |-> Route(AdminAuth \o AdminActorCapability("admin:diagnostics"),
                         Act("admin:diagnostics", "anyone", "nobody")),
   logs_clear  |-> Route(AdminCapability("admin:diagnostics"),
                         Act("admin:diagnostics", "anyone", "nobody"))]

PermissionRoutes ==
  [groups_create |-> Route(AdminAuth \o AdminActorCapability("manage:permissions"),
                           Act("manage:permissions", "anyone", "actor")),
   groups_assign |-> Route(AdminAuth \o AdminActorCapability("manage:permissions"),
                           Act("assign", "anyone", "actor"))]

SceneRoutes ==
  [admin_scene    |-> Route(AdminAuth \o AdminActorOrCapability("admin:scene"),
                            Act("admin:scene", "anyone", "nobody")),
   scene_validate |-> Route(<<>>, Read)]

----------------------------------------------------------------------------
(* Cities, governance, devices and authentication. *)

CityFounding ==
  LET city == Route(AdminAuth \o AuthenticatedActor, Write)
  IN [cities_create |-> city, cities_join |-> city]

CityOffices ==
  LET city == Route(AdminAuth \o AuthenticatedActor, Write)
  IN [cities_approve |-> city, cities_stewards |-> city,
      cities_federation_policy |-> city]

CityRooms ==
  LET city == Route(AdminAuth \o AuthenticatedActor, Write)
  IN [cities_rooms |-> city, cities_rooms_freeze |-> city]

\* The token, when there is one, is checked again in the hold that acts.
Governed(audit) == Route(AdminAuth, Act("write", "bearer_if_token", audit))

NoticeRoutes ==
  [world_notices |-> Governed("nobody"), city_trust |-> Governed("nobody")]

ReportRoutes ==
  [reports_submit |-> Governed("nobody"), reports_review |-> Governed("nobody")]

SanctionRoutes ==
  [advisories |-> Governed("nobody"), residents_sanction |-> Governed("nobody")]

UnsanctionRoutes == [residents_unsanction |-> Governed("actor")]

DeviceAddRoutes ==
  [devices_add |-> Route(AdminAuth \o AdminActorOrCapability("admin:diagnostics")
                           \o ResolvedActor,
                         Act("admin:diagnostics", "anyone", "nobody"))]

DeviceRoutes ==
  LET device == Route(AdminAuth \o AdminCapability("admin:diagnostics"),
                      Act("admin:diagnostics", "anyone", "nobody"))
  IN [devices_remove |-> device, devices_block |-> device, devices_unblock |-> device]

PreflightRoutes ==
  [auth_session |-> Route(<<>>, Read), auth_preflight |-> Route(<<>>, Read)]
OtpRequestRoutes == [email_otp_request |-> Route(<<>>, Write)]
OtpVerifyRoutes == [email_otp_verify |-> Route(<<>>, Act("login", "anyone", "owner"))]
MobileRoutes ==
  [mobile_otp_request |-> Route(<<>>, Write),
   mobile_otp_verify  |-> Route(<<>>, Act("login", "anyone", "owner"))]
LogoutRoutes == [auth_logout |-> Route(<<>>, Act("logout", "holder", "owner"))]

----------------------------------------------------------------------------
(* The routes that read (http_read_routes.rs). *)

ShellReads ==
  [provider |-> Route(<<>>, Read), shell_bootstrap |-> Route(<<>>, Read),
   shell_state |-> Route(<<"viewer">>, Read), shell_events |-> Route(<<"viewer">>, Read)]

WorldReads ==
  [r \in {"world", "cities", "residents", "world_square", "world_safety",
          "safety_reports", "safety_residents"} |-> Route(<<>>, Read)]

FederationReads ==
  [r \in {"world_directory", "world_entry", "world_snapshot", "world_mirrors",
          "mirror_sources"} |-> Route(<<>>, Read)]

ViewerReads ==
  [export |-> Route(AuthenticatedActor, Read),
   messages_search |-> Route(AuthenticatedActor, Read)]

AdminReads ==
  [r \in {"admin_summary", "admin_conversations", "admin_messages", "admin_residents",
          "admin_rooms", "admin_config", "admin_logs", "messages_moderation",
          "admin_invites", "permission_groups", "audit_log", "admin_devices"} |->
     Route(AdminAuth, Read)]

CapabilityReads == [capabilities |-> Route(<<>>, Read)]

CliReads ==
  [r \in {"cli_inbox", "cli_rooms", "cli_tail", "cli_search"} |->
     Route(CliSenderAuth, Read)]

RouteTables ==
  {ProviderRoutes, DirectRoutes, PersonalRoomRoutes, RelationshipRoutes, WakuRoutes,
   ShellMessageRoutes, MessageEditRoutes, CliSendRoutes, PresenceRoutes, BanRoutes,
   NicknameRoutes, FreezeRoutes, ConfigRoutes, InviteRoutes, MemberRoutes, LogRoutes,
   PermissionRoutes, SceneRoutes, CityFounding, CityOffices, CityRooms, NoticeRoutes,
   ReportRoutes, SanctionRoutes, UnsanctionRoutes, DeviceAddRoutes, DeviceRoutes,
   PreflightRoutes, OtpRequestRoutes, OtpVerifyRoutes, MobileRoutes, LogoutRoutes,
   ShellReads, WorldReads, FederationReads, ViewerReads, AdminReads, CapabilityReads,
   CliReads}

Plans == UNION {Range(routes) : routes \in RouteTables}

----------------------------------------------------------------------------
(* The followed request. *)

Idle == [token |-> NoToken, actor |-> Nobody, checks |-> <<>>, act |-> Read]

Init ==
  /\ live = {}
  /\ ended = {}
  /\ group \in [Resident -> Group \cup {NoGroup}]
  /\ bypass \in BOOLEAN
  /\ poisoned = FALSE
  /\ phase = "idle"
  /\ request = Idle
  /\ entitled = {}
  /\ audited = Nobody

\* What a token stands for now: its session, and what its resident may do.
Standing(token) ==
  {c \in {"live"} : token \in live}
    \cup (IF token \in Session THEN Capabilities(Owner[token]) ELSE {})

Arrive(plan, token, actor) ==
  /\ phase # "checking"
  /\ token \in live \cup ended \cup Agent \cup {NoToken}
  /\ phase' = "checking"
  /\ request' = [token |-> token, actor |-> actor, checks |-> plan.checks,
                 act |-> plan.act]
  /\ entitled' = Standing(token)
  /\ audited' = Nobody
  /\ UNCHANGED <<live, ended, group, bypass, poisoned>>

Answer(how) ==
  /\ phase = "checking"
  /\ phase' = how

Check ==
  /\ phase = "checking"
  /\ ~poisoned
  /\ request.checks # <<>>
  /\ Holds(Head(request.checks), request)
  /\ request' = [request EXCEPT !.checks = Tail(@)]
  /\ UNCHANGED <<live, ended, group, bypass, poisoned, phase, entitled, audited>>

\* 401 for the check that fails, 400 for a body that cannot be read or decoded,
\* 4xx or 500 for what the runtime refuses.
Refuse ==
  /\ Answer("refused")
  /\ request' = Idle
  /\ UNCHANGED <<live, ended, group, bypass, poisoned, entitled, audited>>

\* with_runtime finds the mutex poisoned.
Unavailable ==
  /\ poisoned
  /\ Answer("unavailable")
  /\ request' = Idle
  /\ UNCHANGED <<live, ended, group, bypass, poisoned, entitled, audited>>

\* verify_email_otp opens a session, revoke_auth_session ends one.
Opens(s) ==
  /\ s \notin live \cup ended
  /\ live' = live \cup {s}
  /\ UNCHANGED <<ended, group>>
Ends(s) ==
  /\ s \in live
  /\ live' = live \ {s}
  /\ ended' = ended \cup {s}
  /\ UNCHANGED group
Assigns(r, g) ==
  /\ group' = [group EXCEPT ![r] = g]
  /\ UNCHANGED <<live, ended>>

\* The actor log_audit_event is called with.
Named(q) ==
  IF q.actor # Nobody THEN q.actor
  ELSE IF q.token \in Session THEN Owner[q.token] ELSE Nobody

CarryOut ==
  /\ ~poisoned
  /\ request.checks = <<>>
  /\ Holds(request.act.check, request)
  /\ Answer("done")
  /\ \/ /\ request.act.effect = "login"
        /\ \E s \in Session : Opens(s) /\ audited' = Owner[s]
     \/ /\ request.act.effect = "logout"
        /\ Ends(request.token)
        /\ audited' = Owner[request.token]
     \/ /\ request.act.effect = "assign"
        /\ \E r \in Resident, g \in Group : Assigns(r, g)
        /\ audited' = Named(request)
     \/ /\ request.act.effect \notin {"login", "logout", "assign"}
        /\ audited' = IF request.act.audit = "actor" THEN Named(request) ELSE Nobody
        /\ UNCHANGED <<live, ended, group>>
  /\ UNCHANGED <<request, bypass, poisoned, entitled>>

\* A thread panics in its last hold: the mutex stays poisoned.
Panic ==
  /\ phase = "checking"
  /\ request.checks = <<>>
  /\ poisoned' = TRUE
  /\ Answer("unavailable")
  /\ request' = Idle
  /\ UNCHANGED <<live, ended, group, bypass, entitled, audited>>

\* Another request is carried out between two holds of the followed one.
Elsewhere ==
  /\ ~poisoned
  /\ \/ \E s \in Session : Opens(s)
     \/ \E s \in Session : Ends(s)
     \/ \E r \in Resident, g \in Group : Assigns(r, g)
  /\ UNCHANGED <<bypass, poisoned, phase, request, audited>>
  /\ entitled' = IF phase = "checking" THEN entitled \cup Standing(request.token)'
                 ELSE entitled

Next ==
  \/ \E plan \in Plans, token \in Token, actor \in Actor : Arrive(plan, token, actor)
  \/ Check
  \/ Refuse
  \/ Unavailable
  \/ CarryOut
  \/ Panic
  \/ Elsewhere

Spec == Init /\ [][Next]_vars

----------------------------------------------------------------------------
(* Properties. *)

TypeOK ==
  /\ live \subseteq Session /\ ended \subseteq Session /\ live \cap ended = {}
  /\ group \in [Resident -> Group \cup {NoGroup}]
  /\ bypass \in BOOLEAN /\ poisoned \in BOOLEAN
  /\ phase \in {"idle", "checking", "done", "refused", "unavailable"}
  /\ request.token \in Token /\ request.actor \in Actor
  /\ entitled \subseteq {"live"} \cup Capability
  /\ audited \in Actor

\* What the catalogue has a capability for is never done for a token that did
\* not stand for a live session and for that capability, each at some moment
\* since the request came; requests that came after the logout, or after the
\* permission group was taken away, change nothing.
OnlyTheEntitledAct ==
  phase = "done" /\ ~Bypassed(request) =>
    /\ request.act.effect \in Capability =>
         {"live", request.act.effect} \subseteq entitled
    /\ request.act.effect = "assign" =>
         {"live", "manage:permissions"} \subseteq entitled

\* An audit event names the resident whose token the request carried, whatever
\* its body says; a sign-in names the resident it opens a session for.
AuditNamesTheBearer ==
  phase = "done" /\ audited # Nobody /\ ~Bypassed(request) =>
    \/ request.act.effect = "login"
    \/ request.token \in Session /\ Owner[request.token] = audited

============================================================================
