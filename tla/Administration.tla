-------------------------- MODULE Administration --------------------------
(***************************************************************************)
(* What administrators keep in files of their own: invites, permission     *)
(* groups, settings, moderation decisions and handled logs, devices and    *)
(* their bindings (core_runtime.rs of apps/lobster-waku-gateway/src).      *)
(*                                                                         *)
(* Every operation changes a map in memory and saves the whole map; when   *)
(* the write fails it puts the map back by hand, entry by entry, and       *)
(* answers with the error.  A restart reads the files.  An invite is named *)
(* by the clock modulo CodeSpace (a million in the code) and a group by    *)
(* the clock, so a later one may have the name of an earlier one.          *)
(***************************************************************************)
EXTENDS Naturals, FiniteSets, Functions

CONSTANTS
  CodeSpace,   \* how many invite codes there are
  Capability,
  Resident,
  Setting, Value,     \* keys and values of the settings
  Message,            \* messages of the timeline: what may be moderated
  Log,                \* log entries that may be handled
  Device,             \* normalised device addresses
  Unbound,            \* a device of no resident
  MaxTime,     \* bound: the clock
  MaxChanges,  \* bound: changes answered with success
  MaxFaults    \* bound: failed writes and restarts

VARIABLES
  invites,      \* code -> revoked or not, GatewayRuntime::invites
  groups,       \* id -> capabilities, permission_groups
  assignments,  \* resident -> group id, resident_permission_groups
  settings,     \* app_config
  moderation,   \* message_moderation: decisions and handled logs in one map
  devices,      \* allowed_devices: address -> [blocked, bound]
  bindings,     \* device_bindings: address -> resident
  files,        \* one file for each of: invites, groups with assignments,
                \* settings, moderation, devices with bindings
  now,
  changes, faults   \* bounds

stores == <<invites, groups, assignments, settings, moderation, devices, bindings>>
vars == <<stores, files, now, changes, faults>>

Empty == [x \in {} |-> 0]
With(f, k, v) == [x \in DOMAIN f \cup {k} |-> IF x = k THEN v ELSE f[x]]
Without(f, k) == Restrict(f, DOMAIN f \ {k})

\* Puts entry k of f back as it was in before.
Restored(f, before, k) ==
  IF k \in DOMAIN before THEN With(f, k, before[k]) ELSE Without(f, k)

Decision == {"approved", "blocked", "handled"}
DeviceRecord == [blocked : BOOLEAN, bound : Resident \cup {Unbound}]

Init ==
  /\ invites = Empty /\ groups = Empty /\ assignments = Empty
  /\ settings = Empty /\ moderation = Empty
  /\ devices = Empty /\ bindings = Empty
  /\ files = [invites |-> Empty, groups |-> <<Empty, Empty>>, settings |-> Empty,
              moderation |-> Empty, devices |-> <<Empty, Empty>>]
  /\ now = 0
  /\ changes = 0
  /\ faults = 0

Saved(file, content) ==
  /\ changes < MaxChanges
  /\ files' = [files EXCEPT ![file] = content]
  /\ changes' = changes + 1
  /\ UNCHANGED <<now, faults>>

NotSaved ==
  /\ faults < MaxFaults
  /\ faults' = faults + 1
  /\ UNCHANGED <<files, now, changes>>

----------------------------------------------------------------------------
(* Invites. *)

SaveInvites(new, undone) ==
  /\ \/ invites' = new /\ Saved("invites", new)
     \/ invites' = undone /\ NotSaved
  /\ UNCHANGED <<groups, assignments, settings, moderation, devices, bindings>>

\* Faulty variant: the whole time.
WholeTime(t) == t

\* AJW- and the time modulo a million.
InviteCode(t) == t % CodeSpace

AdminCreateInvite ==
  LET code == InviteCode(now)
      new == With(invites, code, FALSE)
  IN SaveInvites(new, Without(new, code))

AdminRevokeInvite(code) ==
  /\ code \in DOMAIN invites
  /\ LET new == [invites EXCEPT ![code] = TRUE]
     IN SaveInvites(new, [new EXCEPT ![code] = invites[code]])

----------------------------------------------------------------------------
(* Permission groups and who is in which. *)

SaveGroups(newGroups, newAssignments, undoneGroups, undoneAssignments) ==
  /\ \/ /\ groups' = newGroups /\ assignments' = newAssignments
        /\ Saved("groups", <<newGroups, newAssignments>>)
     \/ groups' = undoneGroups /\ assignments' = undoneAssignments /\ NotSaved
  /\ UNCHANGED <<invites, settings, moderation, devices, bindings>>

AdminCreatePermissionGroup(capabilities) ==
  LET new == With(groups, now, capabilities)
  IN SaveGroups(new, assignments, Without(new, now), assignments)

\* Any name is accepted for the group, that of no group too.
AdminAssignPermissionGroup(resident, id) ==
  LET new == With(assignments, resident, id)
  IN SaveGroups(groups, new, groups, Restored(new, assignments, resident))

----------------------------------------------------------------------------
(* Settings. *)

\* A request sets one entry here; the code rolls the whole map back.
AdminSetConfig(key, value) ==
  LET new == With(settings, key, value)
  IN /\ \/ settings' = new /\ Saved("settings", new)
        \/ settings' = settings /\ NotSaved
     /\ UNCHANGED <<invites, groups, assignments, moderation, devices, bindings>>

----------------------------------------------------------------------------
(* Moderation decisions and handled logs. *)

SaveModeration(new, undone) ==
  /\ \/ moderation' = new /\ Saved("moderation", new)
     \/ moderation' = undone /\ NotSaved
  /\ UNCHANGED <<invites, groups, assignments, settings, devices, bindings>>

AdminModerateMessage(message, decision) ==
  LET new == With(moderation, message, decision)
  IN SaveModeration(new, Restored(new, moderation, message))

AdminHandleLog(log) ==
  LET new == With(moderation, log, "handled")
  IN SaveModeration(new, Restored(new, moderation, log))

\* retain: what is handled goes, decisions on messages among it.
AdminClearProcessedLogs ==
  LET kept == {k \in DOMAIN moderation : moderation[k] # "handled"}
  IN /\ kept # DOMAIN moderation
     /\ SaveModeration(Restrict(moderation, kept), moderation)

----------------------------------------------------------------------------
(* Devices.  The second file holds the records and the bindings. *)

SaveDevices(newDevices, newBindings, undoneDevices, undoneBindings) ==
  /\ \/ /\ devices' = newDevices /\ bindings' = newBindings
        /\ Saved("devices", <<newDevices, newBindings>>)
     \/ devices' = undoneDevices /\ bindings' = undoneBindings /\ NotSaved
  /\ UNCHANGED <<invites, groups, assignments, settings, moderation>>

BoundTo(device) == IF device \in DOMAIN bindings THEN bindings[device] ELSE Unbound

\* Faulty variant: an added device starts without the binding it had.
AddDeviceUnbound(device) ==
  LET new == With(devices, device, [blocked |-> FALSE, bound |-> Unbound])
  IN SaveDevices(new, bindings, Restored(new, devices, device), bindings)

\* A record that is added again is no longer blocked.
AdminAddDevice(device) ==
  LET new == With(devices, device, [blocked |-> FALSE, bound |-> BoundTo(device)])
  IN SaveDevices(new, bindings, Restored(new, devices, device), bindings)

AdminRemoveDevice(device) ==
  LET newDevices == Without(devices, device)
      newBindings == Without(bindings, device)
  IN SaveDevices(newDevices, newBindings,
                 Restored(newDevices, devices, device),
                 Restored(newBindings, bindings, device))

\* admin_block_device and admin_unblock_device: a device without a record is
\* answered with success and saved all the same.
SetBlocked(device, blocked) ==
  LET new == IF device \in DOMAIN devices
               THEN [devices EXCEPT ![device].blocked = blocked] ELSE devices
  IN SaveDevices(new, bindings, Restored(new, devices, device), bindings)

\* Faulty variant: a failed save leaves the record bound.
BindKeptOnFailure(device, resident) ==
  LET newBindings == With(bindings, device, resident)
      newDevices == IF device \in DOMAIN devices
                      THEN [devices EXCEPT ![device].bound = resident] ELSE devices
  IN SaveDevices(newDevices, newBindings, newDevices,
                 Restored(newBindings, bindings, device))

\* Asking for a sign-in code binds the device it comes from, unless blocked;
\* a device that administrators do not know may be bound too.
BindDeviceToResident(device, resident) ==
  LET newBindings == With(bindings, device, resident)
      newDevices == IF device \in DOMAIN devices
                      THEN [devices EXCEPT ![device].bound = resident] ELSE devices
  IN SaveDevices(newDevices, newBindings,
                 Restored(newDevices, devices, device),
                 Restored(newBindings, bindings, device))

\* auth_preflight refuses a blocked device before it is bound.
PreflightAllows(device) ==
  device \in DOMAIN devices => ~devices[device].blocked

----------------------------------------------------------------------------

Tick == now < MaxTime /\ now' = now + 1 /\ UNCHANGED <<stores, files, changes, faults>>

\* GatewayRuntime::open loads every file.
Restart ==
  /\ faults < MaxFaults
  /\ invites' = files.invites
  /\ groups' = files.groups[1] /\ assignments' = files.groups[2]
  /\ settings' = files.settings
  /\ moderation' = files.moderation
  /\ devices' = files.devices[1] /\ bindings' = files.devices[2]
  /\ faults' = faults + 1
  /\ UNCHANGED <<files, now, changes>>

Next ==
  \/ AdminCreateInvite
  \/ \E code \in DOMAIN invites : AdminRevokeInvite(code)
  \/ \E capabilities \in SUBSET Capability : AdminCreatePermissionGroup(capabilities)
  \/ \E r \in Resident, id \in 0..MaxTime : AdminAssignPermissionGroup(r, id)
  \/ \E key \in Setting, value \in Value : AdminSetConfig(key, value)
  \/ \E m \in Message, d \in Decision : AdminModerateMessage(m, d)
  \/ \E l \in Log : AdminHandleLog(l)
  \/ AdminClearProcessedLogs
  \/ \E d \in Device : AdminAddDevice(d)
  \/ \E d \in Device : AdminRemoveDevice(d)
  \/ \E d \in Device, b \in BOOLEAN : SetBlocked(d, b)
  \/ \E d \in Device, r \in Resident :
       PreflightAllows(d) /\ BindDeviceToResident(d, r)
  \/ Tick
  \/ Restart

Spec == Init /\ [][Next]_vars

----------------------------------------------------------------------------
(* Properties. *)

PartialFunctions(S, T) == UNION {[D -> T] : D \in SUBSET S}

TypeOK ==
  /\ invites \in PartialFunctions(0..(CodeSpace - 1), BOOLEAN)
  /\ groups \in PartialFunctions(0..MaxTime, SUBSET Capability)
  /\ assignments \in PartialFunctions(Resident, 0..MaxTime)
  /\ settings \in PartialFunctions(Setting, Value)
  /\ moderation \in PartialFunctions(Message \cup Log, Decision)
  /\ devices \in PartialFunctions(Device, DeviceRecord)
  /\ bindings \in PartialFunctions(Device, Resident)
  /\ now \in 0..MaxTime /\ changes \in 0..MaxChanges /\ faults \in 0..MaxFaults

\* f has nothing that g has not, or has otherwise.
Within(f, g) == \A k \in DOMAIN f : k \in DOMAIN g /\ g[k] = f[k]

\* What the gateway answers from is what a restart would read, whatever writes
\* failed before: a decision that was refused with an error is not in force, and
\* one that is in force is not lost.  An invite and a group that replaced one of
\* the same name and could not be saved are gone from memory, the old one is
\* still in the file: those two maps may lack what their files have.
ServedIsSaved ==
  /\ Within(invites, files.invites)
  /\ Within(groups, files.groups[1])
  /\ assignments = files.groups[2]
  /\ settings = files.settings
  /\ moderation = files.moderation
  /\ <<devices, bindings>> = files.devices

\* The resident on a device's record is the one the device is bound to, through
\* removals, additions, failed saves and restarts.
BindingsAgree == \A d \in DOMAIN devices : devices[d].bound = BoundTo(d)

\* Both.
RecordsAgree == ServedIsSaved /\ BindingsAgree

============================================================================
