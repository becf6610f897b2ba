---------------------------- MODULE ClusterBoards ----------------------------
(***************************************************************************)
(* The boards of brokers, nodes and shards, and the overview page of every *)
(* family (design/boards/cluster, shards, overview).                       *)
(***************************************************************************)
EXTENDS BoardShapes

\* cluster/BrokerActiveMQ.tsx:55-263
BrokerActiveMQ == Reader(OrFirst, KeyedOnce)

\* cluster/BrokerSolace.tsx:41-139
BrokerSolace == Reader(NoPanel, None)

\* cluster/BrokersKafka.tsx:288-379
KafkaTransactionsPanel == Reader(NoPanel, None)

\* cluster/BrokersKafka.tsx:60-279
BrokersKafka == Reader(Named, Keyed)

\* cluster/BrokersPulsar.tsx:67-231
BrokersPulsar == Reader(Sheet, KeyedOnce)

\* cluster/ClusterNsq.tsx:53-245
ClusterNsq == Reader(OrFirst, KeyedOnce)

\* cluster/ConfigDialog.tsx:37-144
ConfigDialog == Reader(Named, KeyedOnce)

\* cluster/ReplicaDialog.tsx:35-113
ReplicaDialog == Reader(Named, KeyedOnce)

\* The tasks are read once; a second task waits for the first.
\* cluster/MaintenanceDialog.tsx:30-123
MaintenanceDialog ==
    Listless(Board(Named, None, [run |-> Asked(Keeps, Nothing)],
                   NoOffers, [run |-> Unless("running")]))

\* cluster/ClusterRocketMQ.tsx:158-301
ClusterRocketMQ_Rows == [setWritable |-> Always]

\* cluster/ClusterRocketMQ.tsx:80-157
ClusterRocketMQ ==
    Board(Named, KeyedOnce, [setWritable |-> Asked(Keeps, List)],
          ClusterRocketMQ_Rows, NoOffers)

\* cluster/NodeRedis.tsx:178-389
NodeRedis_Panel == [run |-> Always]

\* cluster/NodeRedis.tsx:121-177
NodeRedis ==
    Board(LandedOrFirst, KeyedOnce, [run |-> Asked(Keeps, List)], NoOffers,
          NodeRedis_Panel)

\* cluster/NodesRabbitMQ.tsx:57-206
NodesRabbitMQ == Reader(NoPanel, None)

\* cluster/NodesMqtt.tsx:42-210
NodesMqtt == Reader(OrFirst, None)

\* cluster/ServersNats.tsx:79-342
ServersNats == Reader(Find, KeyedOnce)

\* shards/ShardsKinesis.tsx:189-241
ShardDetail == NoOffers

\* The shards of a stream are read in an effect of the hook's own, without a
\* generation.
\* shards/ShardsKinesis.tsx:56-187
ShardsKinesis ==
    Browse(Landed, Pulled(OnPick, Unguarded), {"stream"}, NoOps, NoOffers, ShardDetail)

\* topics/StreamClientsPanel.tsx:28-167
StreamClientsPanel == Reader(Named, Keyed)

(***************************************************************************)
(* Overviews.  Every read of a page polls by itself; the button in the     *)
(* header asks for some of them at once.                                   *)
(***************************************************************************)

\* overview/OverviewActiveMQ.tsx:40-170
OverviewActiveMQ == Overview({"nodes", "destinations", "subscriptions"}, {"nodes"})

\* overview/OverviewAzureServiceBus.tsx:48-192
OverviewAzureServiceBus ==
    Overview({"entities", "subscriptions"}, {"entities", "subscriptions"})

\* overview/OverviewGooglePubSub.tsx:42-170
OverviewGooglePubSub == Overview({"topics", "subscriptions"}, {"topics", "subscriptions"})

\* overview/OverviewIbmMq.tsx:48-206
OverviewIbmMq == Overview({"destinations", "channels"}, {"destinations"})

\* overview/OverviewKafka.tsx:53-183
OverviewKafka == Overview({"cluster"}, {"cluster"})

\* overview/OverviewKinesis.tsx:48-191
OverviewKinesis == Overview({"destinations", "consumers"}, {"destinations"})

\* overview/OverviewMqtt.tsx:46-192
OverviewMqtt == Overview({"broker"}, {"broker"})

\* overview/OverviewNats.tsx:36-260
OverviewNats == Overview({"cluster", "usage", "health"}, {"cluster", "usage", "health"})

\* overview/OverviewNsq.tsx:51-200
OverviewNsq == Overview({"cluster", "destinations", "subscriptions"}, {"cluster"})

\* overview/OverviewPulsar.tsx:53-169
OverviewPulsar == Overview({"cluster"}, {"cluster"})

\* overview/OverviewRabbitMQ.tsx:52-260
OverviewRabbitMQ == Overview({"overview"}, {"overview"})

\* overview/OverviewRedis.tsx:52-244
OverviewRedis == Overview({"servers", "streams", "groups"}, {})

\* overview/OverviewRocketMQ.tsx:69-353
OverviewRocketMQ == Overview({"overview"}, {"overview"})

\* overview/OverviewSolace.tsx:47-195
OverviewSolace == Overview({"destinations", "broker"}, {"destinations"})

\* overview/OverviewSqs.tsx:44-189
OverviewSqs == Overview({"destinations"}, {"destinations"})

ClusterBoardSet ==
    {BrokerActiveMQ, BrokerSolace, KafkaTransactionsPanel, BrokersKafka,
     BrokersPulsar, ClusterNsq, ConfigDialog, ReplicaDialog, MaintenanceDialog,
     ClusterRocketMQ, NodeRedis, NodesRabbitMQ, NodesMqtt, ServersNats,
     ShardsKinesis, StreamClientsPanel}

OverviewSet ==
    {OverviewActiveMQ, OverviewAzureServiceBus, OverviewGooglePubSub, OverviewIbmMq,
     OverviewKafka, OverviewKinesis, OverviewMqtt, OverviewNats, OverviewNsq,
     OverviewPulsar, OverviewRabbitMQ, OverviewRedis, OverviewRocketMQ,
     OverviewSolace, OverviewSqs}
=============================================================================
