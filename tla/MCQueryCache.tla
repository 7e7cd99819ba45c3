---------------------------- MODULE MCQueryCache ----------------------------
EXTENDS QueryCache, ClientTables

MCQueries == AllQueries

MCWrites == AllWrites

Calls(writes) == {w.call : w \in writes}

\* The pairs of the source in which a page goes on showing what a call of its
\* own has changed, because the call's onSuccess does not tell the key: roles
\* and permissions of the signed-in user, service objects of the palette and
\* the portal, cards whose access lists or jobs change, the object page that
\* deletes its object or starts a job for it, the palette and the services page
\* when a scripts.yaml is saved or an access list changes, the file list when a
\* save makes a new file, and what the users page shows of roles and access.
MCUntold ==
    ({<<"auth", "me">>} \X Calls(UsersWrites \cup RolesWrites \cup RoleEditWrites))
    \cup ({<<"inventory", "service">>} \X Calls(ObjectWrites \cup CreateObjectWrites \cup TagWrites))
    \cup {<<<<"service-summaries">>, "services.bulkAcl">>, <<<<"jobs">>, "pinned.run">>}
    \cup {<<<<"inventory", t, "id">>, "object.delete">> : t \in InventoryTypes}
    \cup ({<<"inventory", t, "id", "jobs">> : t \in InventoryTypes}
            \X Calls(ObjectWrites \cup ObjectSnapshotWrites))
    \cup ({<<"services">>, <<"active-deployments">>}
            \X Calls({w \in AllWrites : w.writes \cap ListedServices # {}}))
    \cup ({<<"service", "s", "configs">>} \X Calls(ConfigWrites \cup VersionWrites))
    \cup ({<<"roles">>, <<"user", "u", "service-access">>}
            \X Calls({w \in UsersWrites : "members" \in w.writes}))

\* CredentialAccessRulesPage stores the whole answer where the others store the
\* list of services, ProfilePage where useCurrentUser stores the user.
MCMixed == {<<"services">>, <<"auth", "me">>}
-----------------------------------------------------------------------------
\* The premise of the proofs about the cache, on the tables of the source: a
\* call that changes what its page or the frame shows tells the key, but for
\* the pairs of MCUntold, and no page shows from a staleTime what a call of
\* another page has changed.
ASSUME TablesAreCovered == TablesCover
=============================================================================
