----------------------------- MODULE TopicBoards -----------------------------
(***************************************************************************)
(* The boards of destinations: queues, topics, streams, exchanges, rules,  *)
(* policies and channels (design/boards/topics, policies, channels).  For  *)
(* each board X: X is its state and handlers, X_Header what the header,    *)
(* the dialogs and the table offer, X_Panel what the panel of the chosen   *)
(* entry offers.                                                           *)
(***************************************************************************)
EXTENDS TopicDialogs

\* topics/DestinationsActiveMQ.tsx:177-302
DestinationsActiveMQ_Header == [create |-> Always]

\* topics/DestinationsActiveMQ.tsx:303-435
DestinationsActiveMQ_Panel == [move |-> Always, purge |-> Always, remove |-> Always]

\* topics/DestinationsActiveMQ.tsx:74-176
DestinationsActiveMQ ==
    Board(OrFirst, None,
          [create |-> Filled(DestinationDialogActiveMQ, Creates, List, Waits),
           move |-> Filled(MoveDialogActiveMQ, Held, List, Waits),
           purge |-> Asked(Keeps, List),
           remove |-> Asked(Clears, List)],
          DestinationsActiveMQ_Header, DestinationsActiveMQ_Panel)

\* topics/EntitiesAzureServiceBus.tsx:139-259
EntitiesAzureServiceBus_Header == [save |-> Always]

\* topics/EntitiesAzureServiceBus.tsx:260-377
EntitiesAzureServiceBus_Panel == [save |-> Always, remove |-> Always]

\* topics/EntitiesAzureServiceBus.tsx:71-138
EntitiesAzureServiceBus ==
    Board(OrFirst, None,
          [save |-> Filled(EntityDialogAzureServiceBus, Held, List, Waits),
           remove |-> Asked(Clears, List)],
          EntitiesAzureServiceBus_Header, EntitiesAzureServiceBus_Panel)

\* topics/ExchangesRabbitMQ.tsx:194-328
ExchangesRabbitMQ_Header == [declare |-> Always]

\* topics/ExchangesRabbitMQ.tsx:329-494
ExchangesRabbitMQ_Panel ==
    [addBinding |-> Unless("default exchange"), unbind |-> Always,
     removeExchange |-> Unless("default exchange")]

\* topics/ExchangesRabbitMQ.tsx:70-193
ExchangesRabbitMQ ==
    Board(Find, None,
          [declare |-> Filled(ExchangeDialog, Creates, List, Waits),
           addBinding |-> Filled(BindingDialog, Held, List, Waits),
           unbind |-> Asked(Keeps, List),
           removeExchange |-> Asked(Clears, List)],
          ExchangesRabbitMQ_Header, ExchangesRabbitMQ_Panel)

\* topics/QueuesIbmMq.tsx:124-214
QueuesIbmMq_Header == [create |-> Always]

\* topics/QueuesIbmMq.tsx:215-308
QueuesIbmMq_Panel == [remove |-> Always]

\* topics/QueuesIbmMq.tsx:57-123
QueuesIbmMq ==
    Board(OrFirst, None,
          [create |-> Filled(QueueDialogIbmMq, Creates, List, Waits),
           remove |-> Asked(Clears, List)],
          QueuesIbmMq_Header, QueuesIbmMq_Panel)

\* topics/QueuesRabbitMQ.tsx:214-380
QueuesRabbitMQ_Header == [declare |-> Always, rebalance |-> Always]

\* topics/QueuesRabbitMQ.tsx:381-524
QueuesRabbitMQ_Panel == [move |-> Always, purge |-> Always, remove |-> Always]

\* topics/QueuesRabbitMQ.tsx:78-213
QueuesRabbitMQ ==
    Board(Sheet, Keyed,
          [declare |-> Filled(QueueDialog, Creates, List, Waits),
           rebalance |-> Asked(Keeps, List),
           move |-> Filled(MoveDialog, Held, List, Waits),
           purge |-> Asked(Keeps, List),
           remove |-> Asked(Clears, List)],
          QueuesRabbitMQ_Header, QueuesRabbitMQ_Panel)

\* topics/QueuesSolace.tsx:125-213
QueuesSolace_Header == [create |-> Always]

\* topics/QueuesSolace.tsx:214-296
QueuesSolace_Panel == [remove |-> Always]

\* topics/QueuesSolace.tsx:56-124
QueuesSolace ==
    Board(OrFirst, None,
          [create |-> Filled(QueueDialogSolace, Creates, List, Waits),
           remove |-> Asked(Clears, List)],
          QueuesSolace_Header, QueuesSolace_Panel)

\* topics/QueuesSqs.tsx:149-246
QueuesSqs_Header == [save |-> Always]

\* topics/QueuesSqs.tsx:248-372
QueuesSqs_Panel == [save |-> Always, purge |-> Always, remove |-> Always]

\* topics/QueuesSqs.tsx:61-147
QueuesSqs ==
    Board(OrFirst, None,
          [save |-> Filled(QueueDialogSqs, Held, List, Waits),
           purge |-> Asked(Keeps, List),
           remove |-> Asked(Clears, List)],
          QueuesSqs_Header, QueuesSqs_Panel)

\* topics/RoutingSolace.tsx:131-237
RoutingSolace_Header == [add |-> Always]

\* topics/RoutingSolace.tsx:238-275
RoutingSolace_Panel == [drop |-> Always]

\* topics/RoutingSolace.tsx:60-130
RoutingSolace ==
    Board(OrFirst, None,
          [add |-> Filled(SubscriptionDialogSolace, Creates, List, Waits),
           drop |-> Asked(Clears, List)],
          RoutingSolace_Header, RoutingSolace_Panel)

\* topics/RulesAzureServiceBus.tsx:127-216
RulesAzureServiceBus_Header == [save |-> Always]

\* topics/RulesAzureServiceBus.tsx:217-286
RulesAzureServiceBus_Panel == [remove |-> Always]

\* topics/RulesAzureServiceBus.tsx:51-126
RulesAzureServiceBus ==
    Board(OrFirst, None,
          [save |-> Filled(RuleDialogAzureServiceBus, Creates, List, Waits),
           remove |-> Asked(Clears, List)],
          RulesAzureServiceBus_Header, RulesAzureServiceBus_Panel)

\* topics/StreamsKinesis.tsx:120-219
StreamsKinesis_Header == [save |-> Always]

\* topics/StreamsKinesis.tsx:220-313
StreamsKinesis_Panel == [save |-> Unless("settling"), remove |-> Unless("settling")]

\* topics/StreamsKinesis.tsx:55-119
StreamsKinesis ==
    Board(OrFirst, None,
          [save |-> Filled(StreamDialogKinesis, Held, List, Waits),
           remove |-> Asked(Clears, List)],
          StreamsKinesis_Header, StreamsKinesis_Panel)

\* topics/StreamsNats.tsx:202-328
StreamsNats_Header == [save |-> Always]

\* topics/StreamsNats.tsx:329-564
StreamsNats_Panel ==
    [save |-> Always, purge |-> Unless("sealed or purge denied"),
     remove |-> Unless("sealed or delete denied")]

\* topics/StreamsNats.tsx:108-201
StreamsNats ==
    Board(DetailOr, KeyedOnce,
          [save |-> Filled(StreamDialogNats, Held, List, Waits),
           purge |-> Filled(PurgeDialogNats, Held, List, Waits),
           remove |-> Asked(Clears, List)],
          StreamsNats_Header, StreamsNats_Panel)

\* topics/StreamsRedis.tsx:157-278
StreamsRedis_Header == [create |-> Always]

\* topics/StreamsRedis.tsx:279-399
StreamsRedis_Panel == [trim |-> Always, remove |-> Always]

\* topics/StreamsRedis.tsx:75-156
StreamsRedis ==
    Board(DetailOr, KeyedOnce,
          [create |-> Filled(StreamDialog, Creates, List, Waits),
           trim |-> Filled(TrimDialog, Held, List, Waits),
           remove |-> Asked(Clears, List)],
          StreamsRedis_Header, StreamsRedis_Panel)

\* topics/TopicsGooglePubSub.tsx:125-218
TopicsGooglePubSub_Header == [save |-> Always]

\* topics/TopicsGooglePubSub.tsx:219-313
TopicsGooglePubSub_Panel == [save |-> Always, remove |-> Always]

\* topics/TopicsGooglePubSub.tsx:60-124
TopicsGooglePubSub ==
    Board(OrFirst, None,
          [save |-> Filled(TopicDialogGooglePubSub, Held, List, Waits),
           remove |-> Asked(Clears, List)],
          TopicsGooglePubSub_Header, TopicsGooglePubSub_Panel)

\* topics/TopicsKafka.tsx:174-259
TopicsKafka_Header == [create |-> Always, rebalance |-> Always]

\* topics/TopicsKafka.tsx:260-395
TopicsKafka_Panel == [truncate |-> Always, remove |-> Always, reassign |-> Always]

\* topics/TopicsKafka.tsx:79-173
TopicsKafka ==
    Board(Named, Keyed,
          [create |-> Filled(TopicDialogKafka, Creates, List, Goes),
           rebalance |-> Asked(Keeps, Both),
           truncate |-> Asked(Keeps, Both),
           remove |-> Asked(Clears, List),
           reassign |-> Filled(ReassignDialogKafka, Found, Detail, Goes)],
          TopicsKafka_Header, TopicsKafka_Panel)

\* topics/TopicsMqtt.tsx:105-253
TopicsMqtt == Reader(Picked, None)

\* topics/TopicsNsq.tsx:152-251
TopicsNsq_Header == [create |-> Always]

\* topics/TopicsNsq.tsx:252-350
TopicsNsq_Panel == [pause |-> Always, empty |-> Always, remove |-> Always]

\* topics/TopicsNsq.tsx:53-151
TopicsNsq ==
    Board(OrFirst, None,
          [create |-> Filled(TopicDialogNsq, Creates, List, Waits),
           pause |-> Sent(NoGuard, List),
           empty |-> Asked(Keeps, List),
           remove |-> Asked(Clears, List)],
          TopicsNsq_Header, TopicsNsq_Panel)

\* topics/TopicsPulsar.tsx:121-209
TopicsPulsar_Header == [create |-> Always]

\* topics/TopicsPulsar.tsx:210-297
TopicsPulsar_Panel == [remove |-> Always]

\* topics/TopicsPulsar.tsx:70-120
TopicsPulsar ==
    Scoped(Board(Named, KeyedOnce,
          [create |-> Filled(TopicDialogPulsar, Creates, List, Waits),
           remove |-> Asked(Clears, List)],
          TopicsPulsar_Header, TopicsPulsar_Panel))

\* topics/TopicsRocketMQ.tsx:199-325
TopicsRocketMQ_Header == [submit |-> Always]

\* The sheet of the selected topic is mounted anew for each topic, with two
\* reads of its own.
\* topics/TopicsRocketMQ.tsx:390-598
TopicSheet == [submit |-> Always, remove |-> Always]

\* topics/TopicsRocketMQ.tsx:102-198
TopicsRocketMQ ==
    Scoped(Board(Sheet, KeyedOnce,
          [submit |-> Filled(TopicDialog, Derived, List, Waits),
           remove |-> Asked(Clears, List)],
          TopicsRocketMQ_Header, TopicSheet))

\* policies/PoliciesRabbitMQ.tsx:148-274
PoliciesRabbitMQ_Header == [save |-> Always, removeParameter |-> Always]

\* policies/PoliciesRabbitMQ.tsx:275-391
PoliciesRabbitMQ_Panel == [save |-> Always, remove |-> Always]

\* policies/PoliciesRabbitMQ.tsx:54-147
PoliciesRabbitMQ ==
    Board(Find, None,
          [save |-> Filled(PolicyDialog, Held, List, Waits),
           remove |-> Asked(Clears, List),
           removeParameter |-> Asked(Keeps, List)],
          PoliciesRabbitMQ_Header, PoliciesRabbitMQ_Panel)

\* channels/ChannelsIbmMq.tsx:49-223
ChannelsIbmMq == Reader(OrFirst, None)

TopicBoardSet ==
    {DestinationsActiveMQ, EntitiesAzureServiceBus, ExchangesRabbitMQ, QueuesIbmMq,
     QueuesRabbitMQ, QueuesSolace, QueuesSqs, RoutingSolace, RulesAzureServiceBus,
     StreamsKinesis, StreamsNats, StreamsRedis, TopicsGooglePubSub, TopicsKafka,
     TopicsMqtt, TopicsNsq, TopicsPulsar, TopicsRocketMQ, PoliciesRabbitMQ,
     ChannelsIbmMq}
=============================================================================
