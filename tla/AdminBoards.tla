----------------------------- MODULE AdminBoards -----------------------------
(***************************************************************************)
(* The boards of identities, permissions, quotas, virtual hosts,           *)
(* namespaces, replication and definitions (design/boards/acl, quotas,     *)
(* vhosts, replication, definitions).                                      *)
(***************************************************************************)
EXTENDS BoardShapes

(***************************************************************************)
(* Access.                                                                 *)
(***************************************************************************)

\* acl/AclRuleDialogKafka.tsx:70-173
AclRuleDialogKafka_Fields == Free({"subject", "policies"})

\* acl/AclRuleDialogKafka.tsx:26-69
AclRuleDialogKafka == Dialog(OnOpen, Leaves, AclRuleDialogKafka_Fields)

\* acl/ScramUserDialogKafka.tsx:24-119
ScramUserDialogKafka == Dialog(OnOpen, Leaves, Free({"name", "mechanism", "password"}))

\* acl/AclUserDialog.tsx:159-291
AclUserDialog_Fields ==
    Fields({"name"}, {"enabled", "auth", "password", "keyPatterns", "channelPatterns",
                      "commandRules"})

\* acl/AclUserDialog.tsx:23-158
AclUserDialog == Dialog(OnSubject, Leaves, AclUserDialog_Fields)

\* acl/PrincipalDialog.tsx:91-169
PrincipalDialog_Fields == Fields({"name"}, {"secret", "type", "status"})

\* acl/PrincipalDialog.tsx:22-90
PrincipalDialog == Dialog(OnSubject, Resets, PrincipalDialog_Fields)

\* acl/RuleDialog.tsx:136-289
RuleDialog_Fields == Fields({"subject"}, {"description", "policies"})

\* acl/RuleDialog.tsx:23-135
RuleDialog == Dialog(OnSubject, Resets, RuleDialog_Fields)

\* acl/TokensPulsar.tsx:334-431
GrantDialog_Fields == Free({"role", "topic", "write", "read", "configure"})

\* The draft survives a cancel; only a grant that succeeded clears it.
\* acl/TokensPulsar.tsx:294-333
GrantDialog == Dialog(OnSent, Leaves, GrantDialog_Fields)

\* acl/UserDialogs.tsx:126-226
IdentityDialog_Fields == Fields({"name"}, {"withoutPassword", "password", "tags"})

\* acl/UserDialogs.tsx:25-125
IdentityDialog == Dialog(OnSubject, Resets, IdentityDialog_Fields)

\* acl/UserDialogs.tsx:338-414
PermissionDialog_Fields == Fields({"vhost"}, {"preset", "configure", "write", "read"})

\* acl/UserDialogs.tsx:231-337
PermissionDialog == Dialog(OnSubject, Resets, PermissionDialog_Fields)

\* acl/Acl.tsx:136-217
Acl_Header == [savePrincipal |-> Unless("no directory"), saveRule |-> Unless("no directory")]

\* acl/Acl.tsx:219-269
PrincipalTable == [savePrincipal |-> Always, removePrincipal |-> Always]

\* acl/Acl.tsx:271-342
RuleList == [saveRule |-> Always, removeRule |-> Always]

\* Principals and rules are read once, each when its tab is opened.
\* acl/Acl.tsx:47-135
Acl ==
    Unpolled(Board(NoPanel, None,
          [savePrincipal |-> Filled(PrincipalDialog, Held, List, Waits),
           removePrincipal |-> Asked(Keeps, List),
           saveRule |-> Filled(RuleDialog, Held, List, Waits),
           removeRule |-> Asked(Keeps, List)],
          Acl_Header, With(PrincipalTable, RuleList)))

\* acl/AclKafka.tsx:119-237
AclKafka_Header ==
    [addRule |-> Unless("no authorizer"), addUser |-> Unless("no authorizer"),
     removeUser |-> Always]

\* acl/AclKafka.tsx:238-315
AclKafka_Panel == [removeRule |-> Always]

\* acl/AclKafka.tsx:51-118
AclKafka ==
    Board(Find, None,
          [addRule |-> Filled(AclRuleDialogKafka, Creates, List, Goes),
           addUser |-> Filled(ScramUserDialogKafka, Creates, List, Goes),
           removeUser |-> Asked(Keeps, List),
           removeRule |-> Asked(Clears, List)],
          AclKafka_Header, AclKafka_Panel)

\* acl/AclRedis.tsx:115-277
AclRedis_Rows == [save |-> Always, remove |-> Unless("default user")]

\* acl/AclRedis.tsx:55-114
AclRedis ==
    Board(NoPanel, None,
          [save |-> Filled(AclUserDialog, Held, List, Early),
           remove |-> Asked(Keeps, List)],
          [save |-> Always], AclRedis_Rows)

\* acl/PlainAccess.tsx:127-281
PlainAccess_Header ==
    [save |-> Unless("no key"), remove |-> Unless("no key"), replaceAllowList |-> Always]

\* Nothing is listed: the broker has no call for it.
\* acl/PlainAccess.tsx:37-126
PlainAccess ==
    Listless(Board(NoPanel, None,
          [save |-> Sent(BusyGuard, Nothing),
           remove |-> Asked(Keeps, Nothing),
           replaceAllowList |-> Asked(Keeps, Nothing)],
          PlainAccess_Header, NoOffers))

\* acl/TokensPulsar.tsx:140-284
TokensPulsar_Rows == [revokeNamespace |-> Always, revokeTopic |-> Always]

\* The namespace's grants are read again, then those of its topics, which are
\* a read of their own.
\* acl/TokensPulsar.tsx:73-139
TokensPulsar ==
    Browse(OrOffered, Keyed, {"namespace"},
           [grant |-> Filled(GrantDialog, Creates, Detail, Waits),
            revokeNamespace |-> Asked(Keeps, Detail),
            revokeTopic |-> Asked(Keeps, Detail)],
           [grant |-> Unless("offline")], TokensPulsar_Rows)

\* acl/UsersRabbitMQ.tsx:159-266
UsersRabbitMQ_Header == [saveIdentity |-> Unless("offline")]

\* acl/UsersRabbitMQ.tsx:267-300
UsersRabbitMQ_Panel ==
    [saveIdentity |-> Always, savePermission |-> Always, remove |-> Always]

\* acl/UsersRabbitMQ.tsx:323-446
IdentityDetail == [savePermission |-> Always, revoke |-> Always]

\* acl/UsersRabbitMQ.tsx:67-158
UsersRabbitMQ ==
    Board(Find, None,
          [saveIdentity |-> Filled(IdentityDialog, Held, List, Waits),
           savePermission |-> Filled(PermissionDialog, Held, List, Waits),
           revoke |-> Asked(Keeps, List),
           remove |-> Asked(Clears, List)],
          UsersRabbitMQ_Header, With(UsersRabbitMQ_Panel, IdentityDetail))

(***************************************************************************)
(* Quotas, replication and definitions.                                    *)
(***************************************************************************)

\* quotas/QuotaDialogKafka.tsx:72-140
QuotaDialogKafka_Fields == Free({"entity", "limits"})

\* quotas/QuotaDialogKafka.tsx:26-71
QuotaDialogKafka == Dialog(OnData, Leaves, QuotaDialogKafka_Fields)

\* quotas/QuotasKafka.tsx:83-191
QuotasKafka_Rows == [remove |-> Always]

\* quotas/QuotasKafka.tsx:40-82
QuotasKafka ==
    Board(NoPanel, None,
          [create |-> Filled(QuotaDialogKafka, Creates, List, Goes),
           remove |-> Asked(Keeps, List)],
          [create |-> Always], QuotasKafka_Rows)

\* replication/ReplicationRabbitMQ.tsx:172-238
ShovelCard == [removeShovel |-> Unless("static")]

\* replication/ReplicationRabbitMQ.tsx:255-306
UpstreamCard == [removeUpstream |-> Always]

\* replication/ReplicationRabbitMQ.tsx:43-170
ReplicationRabbitMQ ==
    Board(NoPanel, None,
          [removeShovel |-> Asked(Keeps, List),
           removeUpstream |-> Asked(Keeps, List)],
          NoOffers, With(ShovelCard, UpstreamCard))

\* definitions/DefinitionsRabbitMQ.tsx:133-253
DefinitionsRabbitMQ_Header ==
    [exportToFile |-> Always, choose |-> Always, apply |-> Unless("no preview")]

\* definitions/DefinitionsRabbitMQ.tsx:60-132
DefinitionsRabbitMQ ==
    Listless(Board(NoPanel, None,
          [exportToFile |-> Sent(BusyGuard, Nothing),
           choose |-> Sent(BusyGuard, Nothing),
           apply |-> Asked(Keeps, Nothing)],
          DefinitionsRabbitMQ_Header, NoOffers))

(***************************************************************************)
(* Virtual hosts, namespaces and accounts.                                 *)
(***************************************************************************)

\* vhosts/VhostDialog.tsx:131-234
VhostDialog_Fields ==
    Fields({"name"}, {"description", "defaultQueueType", "tags", "tracing"})

\* vhosts/VhostDialog.tsx:34-130
VhostDialog == Dialog(OnSubject, Resets, VhostDialog_Fields)

\* The field of a limit is filled when the panel appears, and not again when
\* another virtual host is chosen.
\* vhosts/VhostsRabbitMQ.tsx:343-371
LimitRow == Dialog(OnMount, Leaves, Free({"draft"}))

\* vhosts/VhostsRabbitMQ.tsx:133-251
VhostsRabbitMQ_Header == [save |-> Unless("offline")]

\* vhosts/VhostsRabbitMQ.tsx:252-335
VhostsRabbitMQ_Panel ==
    [save |-> Always, remove |-> Unless("root vhost"), setLimit |-> Always]

\* vhosts/VhostsRabbitMQ.tsx:55-132
VhostsRabbitMQ ==
    Board(Find, None,
          [save |-> Filled(VhostDialog, Held, List, Waits),
           remove |-> Asked(Clears, List),
           setLimit |-> Inline(LimitRow, NoGuard, List)],
          VhostsRabbitMQ_Header, VhostsRabbitMQ_Panel)

\* vhosts/NamespaceDialogPulsar.tsx:26-118
NamespaceDialogPulsar == Dialog(OnOpen, Resets, Free({"name"}))

\* vhosts/NamespaceLimitsPulsar.tsx:55-135
NamespaceLimitsPulsar == Dialog(OnSubject, Leaves, Free({"drafts"}))

\* vhosts/NamespacesPulsar.tsx:92-180
NamespacesPulsar_Header == [create |-> Unless("offline")]

\* vhosts/NamespacesPulsar.tsx:181-229
NamespacesPulsar_Panel == [remove |-> Always, limit |-> Always]

\* vhosts/NamespacesPulsar.tsx:47-91
NamespacesPulsar ==
    Board(Find, None,
          [create |-> Filled(NamespaceDialogPulsar, Creates, List, Waits),
           remove |-> Asked(Clears, List),
           limit |-> Inline(NamespaceLimitsPulsar, BusyGuard, List)],
          NamespacesPulsar_Header, NamespacesPulsar_Panel)

\* vhosts/AccountsNats.tsx:74-319
AccountsNats == Reader(Find, None)

AdminBoardSet ==
    {Acl, AclKafka, AclRedis, PlainAccess, TokensPulsar, UsersRabbitMQ, QuotasKafka,
     ReplicationRabbitMQ, DefinitionsRabbitMQ, VhostsRabbitMQ, NamespacesPulsar,
     AccountsNats}
=============================================================================
