---------------------------- MODULE ConsumerBoards ----------------------------
(***************************************************************************)
(* The boards of consumers: groups, subscriptions, channels and client     *)
(* connections (design/boards/consumers).                                  *)
(***************************************************************************)
EXTENDS ConsumerDialogs

\* consumers/ChannelsNsq.tsx:156-258
ChannelsNsq_Header == [create |-> Always]

\* consumers/ChannelsNsq.tsx:259-344
ChannelsNsq_Panel == [pause |-> Always, empty |-> Always, remove |-> Always]

\* consumers/ChannelsNsq.tsx:56-155
ChannelsNsq ==
    Board(OrFirst, None,
          [create |-> Filled(ChannelDialogNsq, Creates, List, Waits),
           pause |-> Sent(NoGuard, List),
           empty |-> Asked(Keeps, List),
           remove |-> Asked(Clears, List)],
          ChannelsNsq_Header, ChannelsNsq_Panel)

\* consumers/ChannelsRabbitMQ.tsx:245-442
ChannelsRabbitMQ_Panel == [close |-> Always, closeAll |-> Always]

\* consumers/ChannelsRabbitMQ.tsx:51-126
ChannelsRabbitMQ ==
    Board(Find, None, [close |-> Asked(Clears, List), closeAll |-> Asked(Clears, List)],
          NoOffers, ChannelsRabbitMQ_Panel)

\* consumers/ClientsActiveMQ.tsx:97-215
ClientsActiveMQ_Panel == [close |-> Always]

\* consumers/ClientsActiveMQ.tsx:46-96
ClientsActiveMQ ==
    Board(OrFirst, None, [close |-> Asked(Clears, List)], NoOffers, ClientsActiveMQ_Panel)

\* consumers/ClientsMqtt.tsx:93-233
ClientsMqtt_Panel == [kick |-> Always]

\* consumers/ClientsMqtt.tsx:45-92
ClientsMqtt ==
    Board(OrFirst, None, [kick |-> Asked(Keeps, List)], NoOffers, ClientsMqtt_Panel)

\* consumers/ClientsNats.tsx:250-349
ClientsNats_Panel == [close |-> Unless("cannot be closed")]

\* consumers/ClientsNats.tsx:83-137
ClientsNats ==
    Board(Find, None, [close |-> Asked(Clears, List)], NoOffers, ClientsNats_Panel)

\* consumers/ClientsNsq.tsx:49-234
ClientsNsq == Reader(OrFirst, None)

\* Each row of the table has the button.
\* consumers/ClientsRedis.tsx:114-272
ClientsRedis_Header == [close |-> Always]

\* consumers/ClientsRedis.tsx:60-113
ClientsRedis ==
    Board(NoPanel, None, [close |-> Asked(Keeps, List)], ClientsRedis_Header, NoOffers)

\* consumers/ClientsSolace.tsx:50-207
ClientsSolace == Reader(OrFirst, None)

\* consumers/ConsumersKafka.tsx:187-350
ConsumersKafka_Panel == [reset |-> Unless("has members"), remove |-> Always]

\* consumers/ConsumersKafka.tsx:70-115
ConsumersKafka ==
    Board(Find, Keyed,
          [reset |-> Filled(ResetOffsetDialogKafka, Chosen, Both, Goes),
           remove |-> Asked(Clears, List)],
          NoOffers, ConsumersKafka_Panel)

\* consumers/ConsumersKinesis.tsx:111-188
ConsumersKinesis_Header == [register |-> Always]

\* consumers/ConsumersKinesis.tsx:189-250
ConsumersKinesis_Panel == [deregister |-> Always]

\* consumers/ConsumersKinesis.tsx:51-110
ConsumersKinesis ==
    Board(OrFirst, None,
          [register |-> Filled(ConsumerDialogKinesis, Creates, List, Waits),
           deregister |-> Asked(Clears, List)],
          ConsumersKinesis_Header, ConsumersKinesis_Panel)

\* consumers/ConsumersNats.tsx:169-305
ConsumersNats_Header == [save |-> Always]

\* consumers/ConsumersNats.tsx:306-469
ConsumersNats_Panel == [save |-> Always, remove |-> Always]

\* consumers/ConsumersNats.tsx:91-168
ConsumersNats ==
    Board(Find, None,
          [save |-> Filled(ConsumerDialogNats, Held, List, Waits),
           remove |-> Asked(Clears, List)],
          ConsumersNats_Header, ConsumersNats_Panel)

\* consumers/ConsumersRedis.tsx:148-305
ConsumersRedis_Header ==
    [create |-> Unless("no stream"), move |-> Always, remove |-> Always]

\* consumers/ConsumersRedis.tsx:66-147
ConsumersRedis ==
    Board(NoPanel, None,
          [create |-> Filled(GroupDialog, Creates, List, Waits),
           move |-> Filled(PositionDialog, Held, List, Twice),
           remove |-> Asked(Keeps, List)],
          ConsumersRedis_Header, NoOffers)

\* consumers/ConsumersRocketMQ.tsx:236-388
ConsumersRocketMQ_Header == [submit |-> Always]

\* The sheet of the selected group, with two reads of its own.
\* consumers/ConsumersRocketMQ.tsx:587-645
GroupSheet == KeyedOnce

\* consumers/ConsumersRocketMQ.tsx:646-870
ConsumersRocketMQ_Panel ==
    [resetOffset |-> Always, cloneOffset |-> Always, submit |-> Always,
     setOneQueueOffset |-> Always, remove |-> Always]

\* consumers/ConsumersRocketMQ.tsx:143-235
ConsumersRocketMQ ==
    Board(Sheet, GroupSheet,
          [submit |-> Filled(ConsumerGroupDialog, Derived, List, Waits),
           resetOffset |-> Filled(ResetOffsetDialog, Derived, List, Waits),
           cloneOffset |-> Filled(CloneOffsetDialog, Derived, List, Waits),
           setOneQueueOffset |-> Filled(QueueOffsetDialog, Selected, List, Waits),
           remove |-> Asked(Clears, List)],
          ConsumersRocketMQ_Header, ConsumersRocketMQ_Panel)

\* consumers/SubscriptionsActiveMQ.tsx:127-232
SubscriptionsActiveMQ_Header == [create |-> Always]

\* consumers/SubscriptionsActiveMQ.tsx:233-301
SubscriptionsActiveMQ_Panel == [remove |-> Always]

\* consumers/SubscriptionsActiveMQ.tsx:51-126
SubscriptionsActiveMQ ==
    Board(OrFirst, None,
          [create |-> Filled(SubscriptionDialogActiveMQ, Creates, List, Waits),
           remove |-> Asked(Clears, List)],
          SubscriptionsActiveMQ_Header, SubscriptionsActiveMQ_Panel)

\* consumers/SubscriptionsAzureServiceBus.tsx:122-224
SubscriptionsAzureServiceBus_Header == [save |-> Always]

\* consumers/SubscriptionsAzureServiceBus.tsx:225-324
SubscriptionsAzureServiceBus_Panel == [save |-> Always, remove |-> Always]

\* consumers/SubscriptionsAzureServiceBus.tsx:49-121
SubscriptionsAzureServiceBus ==
    Board(OrFirst, None,
          [save |-> Filled(SubscriptionDialogAzureServiceBus, Held, List, Waits),
           remove |-> Asked(Clears, List)],
          SubscriptionsAzureServiceBus_Header, SubscriptionsAzureServiceBus_Panel)

\* consumers/SubscriptionsGooglePubSub.tsx:197-296
SubscriptionsGooglePubSub_Header == [save |-> Always]

\* consumers/SubscriptionsGooglePubSub.tsx:297-479
SubscriptionsGooglePubSub_Panel ==
    [save |-> Always, remove |-> Always, snapshot |-> Always, restore |-> Always,
     dropSnapshot |-> Always]

\* The snapshots are a read of their own; a snapshot is dropped without a
\* question.
\* consumers/SubscriptionsGooglePubSub.tsx:58-196
SubscriptionsGooglePubSub ==
    Board(OrFirst, None,
          [save |-> Filled(SubscriptionDialogGooglePubSub, Held, List, Waits),
           remove |-> Asked(Clears, List),
           snapshot |-> Asked(Keeps, Nothing),
           restore |-> Asked(Keeps, Nothing),
           dropSnapshot |-> Sent(NoGuard, Nothing)],
          SubscriptionsGooglePubSub_Header, SubscriptionsGooglePubSub_Panel)

\* consumers/SubscriptionsIbmMq.tsx:47-222
SubscriptionsIbmMq == Reader(OrFirst, None)

\* consumers/SubscriptionsPulsar.tsx:138-218
SubscriptionsPulsar_Header == [create |-> Always]

\* consumers/SubscriptionsPulsar.tsx:219-350
SubscriptionsPulsar_Panel == [reset |-> Always, remove |-> Always]

\* consumers/SubscriptionsPulsar.tsx:78-137
SubscriptionsPulsar ==
    Board(Find, KeyedOnce,
          [create |-> Filled(SubscriptionDialogPulsar, Creates, List, Waits),
           reset |-> Filled(ResetCursorDialogPulsar, Chosen, ListThenDetail, Waits),
           remove |-> Asked(Clears, List)],
          SubscriptionsPulsar_Header, SubscriptionsPulsar_Panel)

ConsumerBoardSet ==
    {ChannelsNsq, ChannelsRabbitMQ, ClientsActiveMQ, ClientsMqtt, ClientsNats,
     ClientsNsq, ClientsRedis, ClientsSolace, ConsumersKafka, ConsumersKinesis,
     ConsumersNats, ConsumersRedis, ConsumersRocketMQ, SubscriptionsActiveMQ,
     SubscriptionsAzureServiceBus, SubscriptionsGooglePubSub, SubscriptionsIbmMq,
     SubscriptionsPulsar}
=============================================================================
