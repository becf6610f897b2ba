---------------------------- MODULE MessageBoards ----------------------------
(***************************************************************************)
(* The boards that read and move messages: the message queries, the dead   *)
(* letters and the producers (design/boards/messages, dlq, producer).      *)
(***************************************************************************)
EXTENDS TopicDialogs

(***************************************************************************)
(* Messages.                                                               *)
(***************************************************************************)

\* messages/ReplayDialog.tsx:91-191
ReplayDialog_Fields == Free({"group", "client"})

\* messages/ReplayDialog.tsx:37-90
ReplayDialog == Dialog(OnOpen, Resets, ReplayDialog_Fields)

\* The groups offered are read while the dialog is open; nothing is reset.
\* messages/MessagesRocketMQ.tsx:574-645
ResendDialog == Dialog(Never, Leaves, Free({"group"}))

\* messages/MessagesActiveMQ.tsx:60-284
MessagesActiveMQ ==
    Browser(OrOffered, KeyedOnce, {"target", "limit"})

\* messages/MessagesAzureServiceBus.tsx:81-290
MessagesAzureServiceBus ==
    Browser(OrFirst, Pulled(OnButton, Unguarded), {"chosenKey", "from"})

\* messages/MessagesGooglePubSub.tsx:70-248
MessagesGooglePubSub ==
    Browser(OrOffered, Pulled(OnButton, Unguarded), {"chosenName"})

\* messages/MessagesIbmMq.tsx:74-254
MessagesIbmMq ==
    Browser(OrOffered, Pulled(OnButton, Unguarded), {"queue"})

\* messages/MessagesKafka.tsx:67-325
MessagesKafka ==
    Browser(Source, Pulled(OnButton, Guarded),
            {"topic", "partition", "mode", "startOffset", "startTime", "key", "limit"})

\* messages/MessagesKinesis.tsx:72-256
MessagesKinesis ==
    Browser(OrOffered, Pulled(OnButton, Unguarded), {"stream", "shard"})

\* messages/MessagesNats.tsx:57-297
MessagesNats ==
    Browser(OrOffered, Pulled(OnButton, Unguarded),
            {"stream", "subject", "startSeq", "headerName", "headerValue"})

\* The query is a state of its own: a search replaces it, and picking another
\* topic takes it away.
\* messages/MessagesPulsar.tsx:63-300
MessagesPulsar ==
    Browser(Source, KeyedOnce,
            {"namespace", "topic", "messageId", "messageKey", "property"})

\* messages/MessagesRabbitMQ.tsx:66-242
MessagesRabbitMQ ==
    Browser(Source, Pulled(OnButton, Unguarded),
            {"queue", "count", "routingFilter", "bodyFilter", "headerFilter"})

\* messages/MessagesRedis.tsx:122-277
MessagesRedis_Rows == [remove |-> Always]

\* The entry is deleted from the stream picked now, whichever stream the
\* listing was read from.
\* messages/MessagesRedis.tsx:59-121
MessagesRedis ==
    Browse(Landed, Pulled(OnButton, Unguarded), {"stream", "contains"},
           [remove |-> Asked(Keeps, Detail)],
           NoOffers, MessagesRedis_Rows)

\* messages/MessagesRocketMQ.tsx:228-364
MessagesRocketMQ_Header == NoOffers

\* messages/MessagesRocketMQ.tsx:366-566
MessageSheet == [replay |-> Always, resend |-> Always]

\* messages/MessagesRocketMQ.tsx:92-227
MessagesRocketMQ ==
    Browse(Source, Pulled(OnButton, Unguarded),
           {"topic", "term", "mode", "hours", "begin", "end", "limit"},
           [replay |-> Filled(ReplayDialog, Held, Nothing, Goes),
            resend |-> Filled(ResendDialog, Held, Nothing, Goes)],
           MessagesRocketMQ_Header, MessageSheet)

\* messages/MessagesSolace.tsx:75-254
MessagesSolace ==
    Browser(OrOffered, Pulled(OnButton, Unguarded), {"queue"})

\* messages/MessagesSqs.tsx:74-250
MessagesSqs ==
    Browser(OrOffered, Pulled(OnButton, Unguarded), {"queue"})

(***************************************************************************)
(* Dead letters.                                                           *)
(***************************************************************************)

\* dlq/ClaimDialog.tsx:16-167
ClaimDialog == Dialog(OnOpen, Leaves, Free({"consumer", "minIdleMinutes"}))

\* dlq/DlqActiveMQ.tsx:89-211
DlqActiveMQ_Panel == [retry |-> Unless("empty")]

\* dlq/DlqActiveMQ.tsx:47-88
DlqActiveMQ == Board(OrFirst, None, [retry |-> Asked(Keeps, List)], NoOffers, DlqActiveMQ_Panel)

\* dlq/DlqAzureServiceBus.tsx:100-311
DlqAzureServiceBus_Rows == [putBack |-> Always]

\* dlq/DlqAzureServiceBus.tsx:52-99
DlqAzureServiceBus ==
    Browse(Source, Pulled(OnPick, Unguarded), {"chosen"},
           [putBack |-> Asked(Keeps, DetailThenList)], NoOffers, DlqAzureServiceBus_Rows)

\* dlq/DlqGooglePubSub.tsx:51-180
DlqGooglePubSub == Reader(OrFirst, None)

\* dlq/DlqIbmMq.tsx:81-187
DlqIbmMq == Reader(OrFirst, None)

\* dlq/DlqPulsar.tsx:49-141
DlqPulsar == Scoped(Reader(NoPanel, None))

\* dlq/DlqRabbitMQ.tsx:138-290
DlqRabbitMQ_Header == [republish |-> Unless("none chosen"), drop |-> Unless("none chosen")]

\* dlq/DlqRabbitMQ.tsx:292-422
DlqRabbitMQ_Rows == NoOffers

\* Both operations go to the queue that is picked, not to a message.
\* dlq/DlqRabbitMQ.tsx:73-137
DlqRabbitMQ ==
    Browse(Source, Pulled(OnButton, Unguarded), {"queue", "count"},
           [republish |-> Filled(MoveDialog, Held, ListThenDetail, Waits),
            drop |-> Asked(Keeps, ListThenDetail)],
           DlqRabbitMQ_Header, DlqRabbitMQ_Rows)

\* The confirmation is the board's own, and busy while the messages are sent
\* one by one; the group is read again whether or not they went through.
\* dlq/DlqRocketMQ.tsx:152-343
DlqRocketMQ_Rows == [resend |-> Always]

\* dlq/DlqRocketMQ.tsx:75-151
DlqRocketMQ ==
    Browse(Source, Pulled(OnPick, Unguarded), {"group", "view"},
           [resend |-> Sent(BusyGuard, DetailAnyway)], NoOffers, DlqRocketMQ_Rows)

\* dlq/DlqSolace.tsx:83-221
DlqSolace == Reader(OrFirst, None)

\* dlq/DlqSqs.tsx:42-158
DlqSqs == Reader(OrFirst, None)

\* dlq/PelRedis.tsx:173-378
PelRedis_Rows == [claim |-> Always, acknowledge |-> Always]

\* dlq/PelRedis.tsx:59-172
PelRedis ==
    Browse(LandedRow, Keyed, {"selectedGroup", "minIdleMs"},
           [claim |-> Filled(ClaimDialog, Held, Both, Twice),
            acknowledge |-> Asked(Keeps, Both)],
           NoOffers, PelRedis_Rows)

(***************************************************************************)
(* Producers.                                                              *)
(***************************************************************************)

\* producer/Producer.tsx:190-384
Producer_Fields == {"topic", "tags", "keys", "format", "body", "delayLevel", "count"}

\* The loop sends `count' times and stops at the first failure; what was sent
\* is kept as the draft of the topic.
\* producer/Producer.tsx:73-189
Producer == Compose(Producer_Fields, Nothing)

\* producer/ProducerActiveMQ.tsx:103-230
ProducerActiveMQ_Fields ==
    {"destination", "body", "headers", "correlationId", "replyTo", "jmsType",
     "persistent", "priority", "count"}

\* producer/ProducerActiveMQ.tsx:46-102
ProducerActiveMQ == Compose(ProducerActiveMQ_Fields, Nothing)

\* producer/ProducerAzureServiceBus.tsx:106-317
ProducerAzureServiceBus_Fields ==
    {"entity", "body", "count", "subject", "correlationId", "sessionId",
     "delaySec", "properties"}

\* producer/ProducerAzureServiceBus.tsx:50-105
ProducerAzureServiceBus == Compose(ProducerAzureServiceBus_Fields, List)

\* producer/ProducerGooglePubSub.tsx:91-254
ProducerGooglePubSub_Fields ==
    {"topic", "body", "count", "orderingKey", "attributes"}

\* producer/ProducerGooglePubSub.tsx:45-90
ProducerGooglePubSub == Compose(ProducerGooglePubSub_Fields, List)

\* producer/ProducerIbmMq.tsx:89-216
ProducerIbmMq_Fields ==
    {"queue", "body", "contentType", "persistent", "correlationId",
     "expirySeconds", "count"}

\* producer/ProducerIbmMq.tsx:47-88
ProducerIbmMq == Compose(ProducerIbmMq_Fields, List)

\* producer/ProducerKafka.tsx:94-222
ProducerKafka_Fields ==
    {"topic", "partition", "acks", "withKey", "key", "value", "headers",
     "count"}

\* producer/ProducerKafka.tsx:46-93
ProducerKafka == Compose(ProducerKafka_Fields, Nothing)

\* producer/ProducerKinesis.tsx:104-225
ProducerKinesis_Fields ==
    {"stream", "body", "partitionKey", "explicitHashKey", "count"}

\* producer/ProducerKinesis.tsx:48-103
ProducerKinesis == Compose(ProducerKinesis_Fields, List)

\* producer/ProducerMqtt.tsx:69-247
ProducerMqtt_Fields ==
    {"topic", "qos", "count", "payload", "retain", "contentType",
     "responseTopic", "correlationData", "messageExpiry", "userProperties"}

\* producer/ProducerMqtt.tsx:43-68
ProducerMqtt == Listless(Compose(ProducerMqtt_Fields, Nothing))

\* producer/ProducerNats.tsx:66-206
ProducerNats_Fields ==
    {"subject", "count", "payload", "headers", "persist", "expectStream",
     "deduplicationId", "replyTimeoutMs"}

\* producer/ProducerNats.tsx:40-65
ProducerNats == Listless(Compose(ProducerNats_Fields, Nothing))

\* producer/ProducerNsq.tsx:91-204
ProducerNsq_Fields ==
    {"topic", "body", "node", "delaySec", "count"}

\* producer/ProducerNsq.tsx:48-90
ProducerNsq == Compose(ProducerNsq_Fields, List)

\* producer/ProducerPulsar.tsx:108-270
ProducerPulsar_Fields ==
    {"topic", "key", "orderingKey", "properties", "body", "delaySeconds",
     "count"}

\* producer/ProducerPulsar.tsx:55-107
ProducerPulsar == Scoped(Compose(ProducerPulsar_Fields, List))

\* producer/ProducerRabbitMQ.tsx:101-334
ProducerRabbitMQ_Fields ==
    {"target", "queue", "exchange", "routingKey", "persistent", "mandatory",
     "count", "contentType", "headers", "correlationId", "replyTo",
     "messageId", "expiration", "priority", "body"}

\* producer/ProducerRabbitMQ.tsx:54-100
ProducerRabbitMQ == Compose(ProducerRabbitMQ_Fields, Nothing)

\* producer/ProducerRedis.tsx:82-237
ProducerRedis_Fields ==
    {"stream", "fields", "id", "count"}

\* producer/ProducerRedis.tsx:34-81
ProducerRedis == Compose(ProducerRedis_Fields, List)

\* producer/ProducerSolace.tsx:92-281
ProducerSolace_Fields ==
    {"target", "destination", "body", "contentType", "deliveryMode",
     "timeToLiveMs", "dmqEligible", "correlationId", "replyTo", "count"}

\* producer/ProducerSolace.tsx:57-91
ProducerSolace == Compose(ProducerSolace_Fields, List)

\* producer/ProducerSqs.tsx:86-271
ProducerSqs_Fields ==
    {"queue", "body", "count", "delaySec", "groupId", "deduplicationId",
     "attributes"}

\* producer/ProducerSqs.tsx:47-85
ProducerSqs == Compose(ProducerSqs_Fields, List)

MessageBoardSet ==
    {MessagesActiveMQ, MessagesAzureServiceBus, MessagesGooglePubSub,
     MessagesIbmMq, MessagesKafka, MessagesKinesis, MessagesNats,
     MessagesPulsar, MessagesRabbitMQ, MessagesRedis, MessagesRocketMQ,
     MessagesSolace, MessagesSqs, DlqActiveMQ, DlqAzureServiceBus,
     DlqGooglePubSub, DlqIbmMq, DlqPulsar, DlqRabbitMQ, DlqRocketMQ,
     DlqSolace, DlqSqs, PelRedis, Producer, ProducerActiveMQ,
     ProducerAzureServiceBus, ProducerGooglePubSub, ProducerIbmMq,
     ProducerKafka, ProducerKinesis, ProducerMqtt, ProducerNats, ProducerNsq,
     ProducerPulsar, ProducerRabbitMQ, ProducerRedis, ProducerSolace,
     ProducerSqs}
=============================================================================
