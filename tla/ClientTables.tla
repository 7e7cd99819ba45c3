---------------------------- MODULE ClientTables ----------------------------
(* What the pages of the web client ask the server for and tell it, one       *)
(* definition per component.  The tables hold the facts of which QueryCache   *)
(* and PageDialogs are the machines:                                          *)
(*   Q  a useQuery: the page that mounts it, its key, the server data it      *)
(*      reads, the shape its queryFn stores, and                              *)
(*        "fresh"   a staleTime is set: mounting it again does not refetch,   *)
(*        "polled"  it has a refetchInterval,                                 *)
(*        "gated"   it is enabled or mounted only while something is open;    *)
(*   W  a useMutation: the page, the call, the server data it changes, the    *)
(*      keys it invalidates on success, where it navigates ("stays"), and     *)
(*        "shuts"   success closes the dialog,                                *)
(*        "clears"  success resets the dialog's fields,                       *)
(*        "here"    both happen only while the page is still mounted;         *)
(*   D  the dialog or button that makes a call:                               *)
(*        "aimed"   it is opened for one object of the page,                  *)
(*        "typed"   it has fields,                                            *)
(*        "seeded"  opening it sets the fields,                               *)
(*        "wiped"   closing it resets them,                                   *)
(*        "corner"  closing it by its corner resets them, Cancel does not,    *)
(*        "locked"  its button is off while the mutation is pending,          *)
(*        "confirm" pressing it closes it (AlertDialogAction).                *)
(* The parameters of a key (an id, a slug, a file) are one symbolic value.    *)
(* What a user's roles let him read is taken as given, but that access lists  *)
(* of services filter the lists of services.                                  *)
EXTENDS Sequences

Q(page, key, reads, holds, how) ==
    [page |-> page, key |-> key, reads |-> reads, holds |-> holds, how |-> how]

W(page, call, writes, tells, goes, ends) ==
    [page |-> page, call |-> call, writes |-> writes, tells |-> tells,
     goes |-> goes, ends |-> ends]

D(call, how) == [call |-> call, how |-> how]

(* The list of services says what their scripts.yaml say, of the services     *)
(* whose access lists let the user see them.                                  *)
ListedServices == {"services", "service access"}

(* A role is answered with the number of its users.                           *)
RolesData == {"roles", "members"}

-----------------------------------------------------------------------------
(* The frame around every page: guard, header, bell, help menu, palette.      *)
GuardQueries ==
    { Q("frame", <<"auth", "status">>, {"setup"}, "object", {"fresh"}),
      Q("frame", <<"auth", "me">>, {"users", "roles"}, "user", {"fresh"}),
      Q("frame", <<"inventory", "types">>, {"types"}, "list", {"fresh"}) }

PaletteQueries ==
    { Q("frame", <<"inventory", "service">>, {"service objects"}, "list", {"fresh"}),
      Q("frame", <<"services">>, ListedServices, "list", {"fresh"}) }

BellQueries ==
    { Q("frame", <<"notifications-count">>, {"notifications"}, "count", {"polled"}),
      Q("frame", <<"notifications", "20">>, {"notifications"}, "page", {}) }

BellWrites ==
    { W("frame", call, {"notifications"},
        {<<"notifications-count">>, <<"notifications">>}, "stays", {})
      : call \in {"notifications.read", "notifications.read-all"} }

HelpQueries ==
    { Q("frame", <<"system-updates">>, {"updates"}, "object", {"fresh", "polled"}) }

-----------------------------------------------------------------------------
(* Mutant: the list of users keeps the roles by their names.                  *)
MutantUsersQueries ==
    { Q("users", <<"users">>, {"users", "roles"}, "list", {}),
      Q("users", <<"roles">>, RolesData, "by name", {}) }

(* Users and roles.                                                           *)
UsersQueries ==
    { Q("users", <<"users">>, {"users", "roles"}, "list", {}),
      Q("users", <<"roles">>, RolesData, "list", {}) }

UserAccessQueries ==
    { Q("users", <<"user", "u", "service-access">>,
        {"service access", "roles", "members"}, "list", {"gated"}) }

UsersWrites ==
    { W("users", "users.invite", {"users", "members"}, {<<"users">>}, "stays",
        {"shuts", "clears"}),
      W("users", "users.resend", {}, {}, "stays", {}),
      W("users", "users.resetPassword", {"users"}, {<<"users">>}, "stays", {"shuts", "clears"}) }
    \cup
    { W("users", call, {"users"}, {<<"users">>}, "stays", {"shuts"})
      : call \in {"users.toggleActive", "users.resetMfa"} }
    \cup
    { W("users", call, {"users", "members"}, {<<"users">>}, "stays", {"shuts"})
      : call \in {"users.delete", "users.edit"} }

UsersDialogs ==
    { D("users.invite", {"typed"}),
      D("users.edit", {"aimed", "typed", "seeded", "locked"}),
      D("users.resetPassword", {"aimed", "typed", "wiped", "locked"}) }
    \cup { D(call, {"aimed", "confirm"})
           : call \in {"users.delete", "users.toggleActive", "users.resetMfa"} }

RolesQueries == { Q("roles", <<"roles">>, RolesData, "list", {}) }

RolesWrites ==
    { W("roles", "roles.create", {"roles"}, {<<"roles">>}, "stays", {"shuts", "clears"}),
      W("roles", "roles.delete", {"roles"}, {<<"roles">>}, "stays", {"shuts"}) }

RolesDialogs ==
    { D("roles.create", {"typed"}),
      D("roles.delete", {"aimed", "confirm"}) }

RoleEditQueries ==
    { Q("role", <<"role", "r">>, RolesData, "object", {}),
      Q("role", <<"permissions">>, {"permissions"}, "by category", {}) }

RoleEditWrites ==
    { W("role", "roles.update", {"roles"}, {<<"role", "r">>, <<"roles">>}, "stays", {}) }

-----------------------------------------------------------------------------
(* Services, their configuration files and their access lists.                *)
ServicesQueries ==
    { Q("services", <<"inventory", "service">>, {"service objects"}, "list", {}),
      Q("services", <<"services">>, ListedServices, "list", {}),
      Q("services", <<"service-summaries">>,
        {"health", "hooks", "schedules", "costs", "service access"}, "map", {"polled"}),
      Q("services", <<"roles">>, RolesData, "list", {}) }

ServiceOutputsQueries ==
    { Q("services", <<"service-outputs", "s">>, {"outputs"}, "list", {"gated"}) }

ServicesWrites ==
    { W("services", "services.stop", {"jobs"}, {<<"active-deployments">>}, "job", {}),
      W("services", "services.bulkAcl", {"service access"}, {<<"inventory", "service">>},
        "stays", {"shuts", "clears"}) }
    \cup
    { W("services", call, {"jobs"}, {}, "job", {"shuts"})
      : call \in {"services.stopAll", "services.bulkStop", "services.bulkDeploy"} }

ServicesDialogs ==
    { D("services.bulkAcl", {"typed", "corner", "locked"}) }
    \cup { D(call, {"confirm"})
           : call \in {"services.stopAll", "services.bulkStop", "services.bulkDeploy"} }

ConfigQueries ==
    { Q("config", <<"service", "s", "configs">>, {"config files"}, "object", {}),
      Q("config", <<"service", "s", "config", "f">>, {"config content"}, "text", {}) }

FilesTabQueries ==
    { Q("config", <<"service", "s", "files", "d">>, {"service files"}, "list", {}) }

(* A file that is saved may be scripts.yaml or instance.yaml, and new.         *)
SavedConfig == {"config content", "config files", "versions", "services"}

ConfigWrites ==
    { W("config", "config.save", SavedConfig,
        {<<"service", "s", "config", "f">>,
         <<"service", "s", "config", "f", "versions">>}, "stays", {"clears"}) }

FilesTabWrites ==
    { W("config", call, {"service files"}, {<<"service", "s", "files", "d">>}, "stays", ends)
      : <<call, ends>> \in { <<"files.delete", {"shuts"}>>, <<"files.save", {}>>,
                             <<"files.upload", {}>> } }

FilesTabDialogs ==
    { D("files.delete", {"aimed", "confirm"}),
      D("files.save", {"aimed", "typed", "seeded", "wiped", "locked"}) }

VersionQueries ==
    { Q("config", <<"service", "s", "config", "f", "versions">>, {"versions"}, "list",
        {"gated"}) }

DiffQueries ==
    { Q("config", <<"service", "s", "config", "f", "versions", "v", "diff">>, {},
        "object", {"gated"}) }

VersionWrites ==
    { W("config", "versions.restore", SavedConfig,
        {<<"service", "s", "config", "f">>,
         <<"service", "s", "config", "f", "versions">>}, "stays", {"shuts"}) }

VersionDialogs == { D("versions.restore", {"aimed", "confirm", "locked"}) }

AccessTabQueries ==
    { Q("config", <<"service", "s", "acl">>, {"service access", "roles"}, "list", {"gated"}),
      Q("config", <<"roles">>, RolesData, "list", {"gated"}) }

AccessTabWrites ==
    { W("config", "acl.add", {"service access"}, {<<"service", "s", "acl">>},
        "stays", {"shuts", "clears"}),
      W("config", "acl.deleteRole", {"service access"}, {<<"service", "s", "acl">>},
        "stays", {}) }

AccessTabDialogs ==
    { D("acl.add", {"typed", "locked"}),
      D("acl.deleteRole", {"aimed", "locked"}) }

-----------------------------------------------------------------------------
(* Schedules and webhooks.                                                    *)
SchedulesQueries ==
    { Q("schedules", <<"schedules">>, {"schedules"}, "list", {}),
      Q("schedules", <<"services">>, ListedServices, "list", {}),
      Q("schedules", <<"cron-preview", "c">>, {}, "object", {"gated"}),
      Q("schedules", <<"schedule-history", "s">>, {"jobs"}, "page", {"gated"}) }

SchedulesWrites ==
    { W("schedules", call, {"schedules"}, {<<"schedules">>}, "stays", ends)
      : <<call, ends>> \in { <<"schedules.create", {"shuts", "clears"}>>,
                             <<"schedules.update", {"shuts"}>>,
                             <<"schedules.delete", {"shuts"}>>,
                             <<"schedules.toggle", {}>> } }

SchedulesDialogs ==
    { D("schedules.create", {"typed", "seeded", "locked"}),
      D("schedules.update", {"aimed", "typed", "seeded", "locked"}),
      D("schedules.delete", {"aimed", "confirm"}) }

WebhooksQueries ==
    { Q("webhooks", <<"webhooks">>, {"hooks"}, "list", {}),
      Q("webhooks", <<"services">>, ListedServices, "list", {}),
      Q("webhooks", <<"webhook-history", "w", "1">>, {"jobs"}, "page", {"gated"}) }

WebhooksWrites ==
    { W("webhooks", call, {"hooks"}, {<<"webhooks">>}, "stays", ends)
      : <<call, ends>> \in { <<"webhooks.create", {"shuts", "clears"}>>,
                             <<"webhooks.update", {"shuts"}>>,
                             <<"webhooks.delete", {"shuts"}>>,
                             <<"webhooks.regenerate", {}>>,
                             <<"webhooks.test", {}>> } }

WebhooksDialogs ==
    { D("webhooks.create", {"typed", "seeded", "locked"}),
      D("webhooks.update", {"aimed", "typed", "seeded", "locked"}),
      D("webhooks.regenerate", {"aimed", "locked"}),
      D("webhooks.delete", {"aimed", "confirm"}) }

-----------------------------------------------------------------------------
(* Snapshots, costs, the file library, feedback, credential access rules.     *)
SnapshotsQueries ==
    { Q("snapshots", <<"snapshots">>, {"snapshots"}, "list", {"polled"}),
      Q("snapshots", <<"inventory", "server">>, {"server objects"}, "list", {}),
      Q("snapshots", <<"costs", "plans">>, {"plans"}, "list", {"gated"}) }

SnapshotsWrites ==
    { W("snapshots", "snapshots.create", {"jobs", "snapshots"}, {<<"snapshots">>}, "job",
        {"shuts", "clears"}),
      W("snapshots", "snapshots.delete", {"jobs", "snapshots"}, {<<"snapshots">>}, "job",
        {"shuts"}),
      W("snapshots", "snapshots.restore", {"jobs"}, {<<"snapshots">>}, "job", {"shuts"}),
      W("snapshots", "snapshots.sync", {"snapshots"}, {<<"snapshots">>}, "stays", {}) }

SnapshotsDialogs ==
    { D("snapshots.create", {"typed", "locked"}),
      D("snapshots.restore", {"aimed", "typed", "seeded", "locked"}),
      D("snapshots.delete", {"aimed", "confirm"}) }

CostsQueries ==
    { Q("costs", <<"costs">>, {"costs"}, "object", {"polled"}),
      Q("costs", <<"costs", "by-tag">>, {"costs"}, "object", {}),
      Q("costs", <<"costs", "by-region">>, {"costs"}, "object", {}),
      Q("costs", <<"costs", "history", "90">>, {"cost history"}, "object", {"polled"}),
      Q("costs", <<"costs", "history", "by-service">>, {"cost history"}, "object", {"polled"}),
      Q("costs", <<"costs", "summary">>, {"costs", "cost history"}, "object", {"polled"}),
      Q("costs", <<"costs", "budget">>, {"budget"}, "object", {}) }

CostsWrites ==
    { W("costs", "costs.budget", {"budget"}, {<<"costs", "budget">>}, "stays", {}),
      W("costs", "costs.refresh", {"jobs"}, {<<"costs">>}, "stays", {}) }

CostsDialogs ==
    { D("costs.budget", {"typed", "locked"}),
      D("costs.refresh", {"locked"}) }

LibraryQueries ==
    { Q("files", <<"file-library">>, {"library"}, "list", {}),
      Q("files", <<"file-library-stats">>, {"library size"}, "object", {}) }

LibraryWrites ==
    { W("files", "library.upload", {"library", "library size"},
        {<<"file-library">>, <<"file-library-stats">>}, "stays", {"shuts", "clears"}),
      W("files", "library.update", {"library"}, {<<"file-library">>}, "stays", {"shuts"}),
      W("files", "library.delete", {"library", "library size"},
        {<<"file-library">>, <<"file-library-stats">>}, "stays", {"shuts"}) }

LibraryDialogs ==
    { D("library.upload", {"typed", "wiped", "locked"}),
      D("library.update", {"aimed", "typed", "seeded", "locked"}),
      D("library.delete", {"aimed", "confirm"}) }

FeedbackQueries ==
    { Q("feedback", <<"feedback", "tab", "type", "status">>, {"feedback"}, "page", {}) }

FeedbackWrites ==
    { W("feedback", "feedback.update", {"feedback"}, {<<"feedback">>}, "stays", {"shuts"}) }

FeedbackDialogs == { D("feedback.update", {"aimed", "typed", "seeded", "locked"}) }

SubmitFeedbackWrites ==
    { W(page, "feedback.submit", {"feedback"}, {<<"feedback">>}, "stays", {"shuts", "clears"})
      : page \in {"frame", "feedback"} }

SubmitFeedbackDialogs == { D("feedback.submit", {"typed", "seeded", "locked"}) }

AccessRulesQueries ==
    { Q("rules", <<"credential-access-rules">>, {"rules", "roles"}, "object", {}),
      Q("rules", <<"roles">>, RolesData, "list", {}) }

RuleScopeQueries ==
    { Q("rules", <<"inventory", "server">>, {"server objects"}, "list", {"gated"}),
      Q("rules", <<"services">>, ListedServices, "whole answer", {"gated"}),
      Q("rules", <<"inventory-tags">>, {"tags"}, "list", {"gated"}) }

AccessRulesWrites ==
    { W("rules", call, {"rules"}, {<<"credential-access-rules">>}, "stays", ends)
      : <<call, ends>> \in { <<"rules.create", {"shuts", "clears"}>>,
                             <<"rules.update", {"shuts"}>>,
                             <<"rules.delete", {"shuts"}>> } }

AccessRulesDialogs ==
    { D("rules.create", {"typed", "seeded", "locked"}),
      D("rules.update", {"aimed", "typed", "seeded", "locked"}),
      D("rules.delete", {"aimed", "confirm"}) }

-----------------------------------------------------------------------------
(* Notification rules and channels, the portal, personal instances.           *)
RuleQueries ==
    { Q("notifications", <<"notification-rules">>, {"notification rules"}, "list", {}),
      Q("notifications", <<"notification-event-types">>, {}, "list", {}),
      Q("notifications", <<"roles">>, RolesData, "list", {}) }

ChannelQueries ==
    { Q("notifications", <<"notification-channels">>, {"channels"}, "list", {}),
      Q("notifications", <<"email-transport-status">>, {}, "object", {"gated"}) }

RuleWrites ==
    { W("notifications", call, {"notification rules"}, {<<"notification-rules">>},
        "stays", {})
      : call \in {"alerts.create", "alerts.update", "alerts.delete", "alerts.toggle"} }

ChannelWrites ==
    { W("notifications", call, {"channels"}, {<<"notification-channels">>}, "stays", {})
      : call \in {"channels.create", "channels.update", "channels.delete"} }

RuleDialogs ==
    { D("alerts.create", {"typed", "seeded", "locked"}),
      D("alerts.update", {"aimed", "typed", "seeded", "locked"}),
      D("alerts.delete", {"aimed", "confirm"}) }

ChannelDialogs ==
    { D("channels.create", {"typed", "seeded", "locked"}),
      D("channels.update", {"aimed", "typed", "seeded", "locked"}),
      D("channels.delete", {"aimed", "confirm"}) }

PortalQueries ==
    { Q("portal", <<"portal-services">>,
        {"outputs", "health", "bookmarks"} \cup ListedServices, "object", {"polled"}),
      Q("portal", <<"personal-instances", "all">>, {"instances"}, "list", {"polled"}) }

BookmarkWrites ==
    { W("portal", call, {"bookmarks"}, {<<"portal-services">>}, "stays", ends)
      : <<call, ends>> \in { <<"bookmarks.create", {"shuts"}>>,
                             <<"bookmarks.update", {"shuts"}>>,
                             <<"bookmarks.delete", {}>> } }

(* handleOpenChange seeds the fields when it is told that the dialog opens;   *)
(* the dialog is opened by its open prop and is never told.                   *)
BookmarkDialogs ==
    { D("bookmarks.create", {"typed", "locked"}),
      D("bookmarks.update", {"aimed", "typed", "locked"}) }

PersonalQueries ==
    { Q("personal", <<"personal-instances", "services">>, {"personal files"}, "list", {"fresh"}),
      Q("personal", <<"personal-instances", "all">>, {"instances"}, "list", {"polled"}),
      Q("personal", <<"personal-instances", "config", "s">>, {"personal files"}, "object",
        {"fresh", "gated"}) }

PersonalWrites ==
    { W(page, call, {"instances", "jobs"}, {<<"personal-instances">>}, goes, {"here"})
      : <<page, call, goes>> \in
            { <<"personal", "personal.create", "job">>, <<"personal", "personal.destroy", "job">>,
              <<"personal", "personal.extend", "stays">>, <<"portal", "personal.destroy", "stays">>,
              <<"portal", "personal.extend", "stays">> } }

PersonalCreateDialog == { D("personal.create", {"typed", "corner", "locked"}) }

PersonalDestroyDialog == { D("personal.destroy", {"aimed", "confirm"}) }

PersonalExtendButton == { D("personal.extend", {"aimed", "locked"}) }

-----------------------------------------------------------------------------
(* Drift, health, audit, jobs and the dashboard.                              *)
DriftQueries ==
    { Q("drift", <<"drift", part>>, {"drift"}, "object", {"polled"})
      : part \in {"status", "summary", "history"} }
    \cup { Q("drift", <<"drift", "report", "r">>, {}, "object", {"gated"}) }

DriftWrites == { W("drift", "drift.check", {"drift"}, {<<"drift">>}, "stays", {}) }

HealthQueries ==
    { Q("health", <<"health-status">>, {"health"}, "object", {"polled"}) }

(* handleReload and handleRecheck await the request and call refetch().       *)
HealthWrites ==
    { W("health", call, {"health"}, {<<"health-status">>}, "stays", {})
      : call \in {"health.reload", "health.recheck"} }

AuditQueries ==
    { Q("audit", <<"audit-filters">>, {"audit"}, "object", {"fresh"}),
      Q("audit", <<"audit", "filters", "cursor">>, {"audit"}, "page", {}) }

JobsQueries == { Q("jobs", <<"jobs">>, {"jobs"}, "list", {"polled"}) }

DashboardQueries ==
    { Q("dashboard", <<"jobs">>, {"jobs"}, "list", {"polled"}),
      Q("dashboard", <<"services">>, ListedServices, "list", {"polled"}),
      Q("dashboard", <<"active-deployments">>, {"deployments", "service access"}, "list",
        {"polled"}),
      Q("dashboard", <<"costs">>, {"costs"}, "object", {"polled"}),
      Q("dashboard", <<"service-outputs">>, {"outputs", "service access"}, "by service",
        {"polled"}),
      Q("dashboard", <<"inventory-counts", "types">>, {"server objects"}, "object", {}),
      Q("dashboard", <<"health-summary">>, {"health"}, "object", {"polled"}),
      Q("dashboard", <<"health-status">>, {"health"}, "object", {"polled"}) }

PinnedQueries ==
    { Q("dashboard", <<"inventory", "service">>, {"service objects"}, "list", {}),
      Q("dashboard", <<"services">>, ListedServices, "list", {}) }

PinnedOutputsQueries ==
    { Q("dashboard", <<"service-outputs", "s">>, {"outputs"}, "list", {"gated"}) }

PinnedWrites ==
    { W("dashboard", "pinned.run", {"jobs"}, {}, "job", {}) }

-----------------------------------------------------------------------------
(* The profile page shares the key of the current user with the frame.        *)
ProfileQueries ==
    { Q("profile", <<"ssh-key">>, {"ssh key"}, "text", {}),
      Q("profile", <<"mfa-status">>, {"mfa"}, "object", {}) }

ProfileUserQuery ==
    { Q("profile", <<"auth", "me">>, {"users", "roles"}, "whole answer", {}) }

ProfileWrites ==
    { W("profile", "profile.update", {"users"}, {<<"auth", "me">>}, "stays", {}),
      W("profile", "profile.changePassword", {}, {}, "stays", {"clears"}),
      W("profile", "profile.generateKey", {"ssh key"}, {<<"ssh-key">>}, "stays", {}),
      W("profile", "profile.deleteKey", {"ssh key"}, {<<"ssh-key">>}, "stays", {}) }

PersonalKeyWrites ==
    { W("profile", call, {"users"}, {<<"auth", "me">>}, "stays", {})
      : call \in {"profile.saveKey", "profile.removeKey"} }

(* The second factor is read again with refetchMfaStatus().                   *)
MfaWrites ==
    { W("profile", call, {"mfa"}, {<<"mfa-status">>}, "stays", {})
      : call \in {"mfa.confirm", "mfa.disable", "mfa.backupCodes"} }

ProfileDialogs ==
    { D("profile.update", {"typed", "locked"}),
      D("profile.changePassword", {"typed", "locked"}),
      D("profile.saveKey", {"typed", "locked"}),
      D("profile.generateKey", {"confirm"}),
      D("mfa.disable", {"typed", "corner", "locked"}) }

-----------------------------------------------------------------------------
(* The inventory: the list of a type, its objects, the tags.  t is the type   *)
(* in the address.                                                            *)
InventoryTypes == {"server", "service", "other"}
ObjectsOf(t) == t \o " objects"

HubQueries ==
    { Q("hub", <<"inventory", t>>, {ObjectsOf(t), "tags"}, "list", {})
      : t \in InventoryTypes }

HubTagQueries ==
    { Q("hub", <<"tags">>, {"tags"}, "list", {}),
      Q("hub", <<"roles-for-access">>, RolesData, "list", {"gated"}) }

HubDelete ==
    { W("hub", "hub.delete", {ObjectsOf(t)}, {<<"inventory", t>>}, "stays",
        {"shuts", "clears"}) : t \in InventoryTypes }

HubTag ==
    { W("hub", "hub.tag", {ObjectsOf(t)}, {<<"inventory", t>>}, "stays",
        {"shuts", "clears"}) : t \in InventoryTypes }

HubAccess == { W("hub", "hub.access", {"rules"}, {}, "stays", {"shuts"}) }

HubAction == { W("hub", "hub.action", {"jobs"}, {}, "job", {"shuts"}) }

(* An action without a job is done when it is answered.                       *)
HubDestroy ==
    { W("hub", "hub.destroy", {"jobs"}, {}, "job", {"shuts"}) }
    \cup
    { W("hub", "hub.destroy", {ObjectsOf(t)}, {<<"inventory", t>>}, "stays", {"shuts"})
      : t \in InventoryTypes }

HubSync ==
    { W("hub", "hub.sync", {ObjectsOf(t)}, {<<"inventory", t>>}, "stays", {})
      : t \in InventoryTypes }

HubDialogs ==
    { D("hub.tag", {"typed", "seeded"}),
      D("hub.delete", {"confirm"}),
      D("hub.action", {"aimed", "confirm"}),
      D("hub.access", {"typed", "seeded", "locked"}),
      D("hub.destroy", {"aimed", "confirm"}) }

TagQueries == { Q("tags", <<"tags">>, {"tags", "object tags"}, "list", {}) }

TagWrites ==
    { W("tags", call, {"tags"}, {<<"tags">>}, "stays", ends)
      : <<call, ends>> \in { <<"tags.create", {"shuts", "clears"}>>,
                             <<"tags.update", {"shuts"}>>,
                             <<"tags.delete", {"shuts"}>> } }

TagDialogs ==
    { D("tags.create", {"typed", "seeded"}),
      D("tags.update", {"aimed", "typed", "seeded"}),
      D("tags.delete", {"aimed", "confirm"}) }

ObjectQueries ==
    UNION { { Q("object", <<"inventory", t, "id">>, {ObjectsOf(t), "tags"}, "object", {}),
              Q("object", <<"inventory", t, "id", "acl">>, {"object access"}, "list", {}),
              Q("object", <<"inventory", t, "id", "jobs">>, {"jobs"}, "list", {"polled"}) }
            : t \in InventoryTypes }
    \cup
    { Q("object", <<"tags">>, {"tags"}, "list", {}),
      Q("object", <<"snapshots", "instance", "v">>, {"snapshots"}, "list", {"polled"}),
      Q("object", <<"costs", "plans">>, {"plans"}, "list", {"gated"}) }

ObjectRuleQueries ==
    { Q("object", <<"credential-access-rules">>, {"rules", "roles"}, "object", {"gated"}) }

ObjectSnapshotWrites ==
    { W("object", call, {"jobs", "snapshots"}, {<<"snapshots">>}, "job", ends)
      : <<call, ends>> \in { <<"object.snapshot", {"shuts", "clears"}>>,
                             <<"object.deleteSnapshot", {"shuts"}>>,
                             <<"object.restoreSnapshot", {"shuts"}>> } }

ObjectWrites ==
    UNION { { W("object", "object.update", {ObjectsOf(t)}, {<<"inventory", t, "id">>},
                "stays", {"shuts"}),
              W("object", "object.delete", {ObjectsOf(t)}, {}, "hub", {}),
              W("object", "object.addTag", {ObjectsOf(t)}, {<<"inventory", t, "id">>},
                "stays", {}),
              W("object", "object.removeTag", {ObjectsOf(t)}, {<<"inventory", t, "id">>},
                "stays", {}) }
            : t \in InventoryTypes }
    \cup { W("object", "object.action", {"jobs"}, {}, "job", {"shuts"}) }

ObjectDialogs ==
    { D("object.delete", {"confirm"}),
      D("object.action", {"aimed", "confirm"}),
      D("object.snapshot", {"typed", "locked"}),
      D("object.restoreSnapshot", {"aimed", "typed", "seeded", "corner", "locked"}),
      D("object.deleteSnapshot", {"aimed", "confirm"}) }

ObjectEditForm == { D("object.update", {"typed", "seeded", "locked"}) }

CreateObjectWrites ==
    { W("new object", "objects.create", {ObjectsOf(t)}, {}, "object", {})
      : t \in InventoryTypes }

CreateObjectForm == { D("objects.create", {"typed", "locked"}) }

-----------------------------------------------------------------------------
(* The inputs of a service's script, in the dialog that runs it.              *)
InputQueries ==
    { Q(page, key, reads, "list", {"gated"})
      : page \in {"frame", "services"},
        <<key, reads>> \in { <<<<"active-deployments">>, {"deployments", "service access"}>>,
                             <<<<"all-ssh-keys">>, {"ssh key"}>> } }

MultiFileQueries ==
    { Q(page, <<"file-library-for-multi-input">>, {"library"}, "list", {"gated"})
      : page \in {"frame", "services"} }

FileInputQueries ==
    { Q(page, <<"file-library-for-input">>, {"library"}, "list", {"gated"})
      : page \in {"frame", "services"} }

-----------------------------------------------------------------------------
AllQueries ==
    GuardQueries \cup PaletteQueries \cup BellQueries \cup HelpQueries
    \cup UsersQueries \cup UserAccessQueries \cup RolesQueries \cup RoleEditQueries
    \cup ServicesQueries \cup ServiceOutputsQueries \cup ConfigQueries
    \cup FilesTabQueries \cup VersionQueries \cup DiffQueries \cup AccessTabQueries
    \cup SchedulesQueries \cup WebhooksQueries \cup SnapshotsQueries
    \cup CostsQueries \cup LibraryQueries \cup FeedbackQueries
    \cup AccessRulesQueries \cup RuleScopeQueries \cup RuleQueries
    \cup ChannelQueries \cup PortalQueries \cup PersonalQueries \cup DriftQueries
    \cup HealthQueries \cup AuditQueries \cup JobsQueries \cup DashboardQueries
    \cup PinnedQueries \cup PinnedOutputsQueries \cup ProfileQueries
    \cup ProfileUserQuery \cup HubQueries \cup HubTagQueries \cup TagQueries
    \cup ObjectQueries \cup ObjectRuleQueries \cup InputQueries
    \cup MultiFileQueries \cup FileInputQueries

AllWrites ==
    BellWrites \cup UsersWrites \cup RolesWrites \cup RoleEditWrites
    \cup ServicesWrites \cup ConfigWrites \cup FilesTabWrites \cup VersionWrites
    \cup AccessTabWrites \cup SchedulesWrites \cup WebhooksWrites
    \cup SnapshotsWrites \cup CostsWrites \cup LibraryWrites \cup FeedbackWrites
    \cup SubmitFeedbackWrites \cup AccessRulesWrites \cup RuleWrites
    \cup ChannelWrites \cup BookmarkWrites \cup PersonalWrites \cup DriftWrites
    \cup HealthWrites \cup PinnedWrites \cup ProfileWrites
    \cup PersonalKeyWrites \cup MfaWrites \cup HubDelete \cup HubTag
    \cup HubAccess \cup HubAction \cup HubDestroy \cup HubSync \cup TagWrites
    \cup ObjectSnapshotWrites \cup ObjectWrites \cup CreateObjectWrites

AllDialogs ==
    UsersDialogs \cup RolesDialogs \cup ServicesDialogs \cup FilesTabDialogs
    \cup VersionDialogs \cup AccessTabDialogs \cup SchedulesDialogs
    \cup WebhooksDialogs \cup SnapshotsDialogs \cup CostsDialogs
    \cup LibraryDialogs \cup FeedbackDialogs \cup SubmitFeedbackDialogs
    \cup AccessRulesDialogs \cup RuleDialogs \cup ChannelDialogs
    \cup BookmarkDialogs \cup PersonalCreateDialog \cup PersonalDestroyDialog
    \cup PersonalExtendButton \cup ProfileDialogs \cup HubDialogs
    \cup TagDialogs \cup ObjectDialogs \cup ObjectEditForm \cup CreateObjectForm
=============================================================================
