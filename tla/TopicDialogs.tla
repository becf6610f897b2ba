----------------------------- MODULE TopicDialogs -----------------------------
(***************************************************************************)
(* The dialogs of the destination boards (design/boards/topics and         *)
(* design/boards/policies): when the draft is copied, whether that also    *)
(* declares the dialog idle, and what can be typed.                        *)
(***************************************************************************)
EXTENDS BoardShapes

\* topics/DestinationDialogActiveMQ.tsx:45-139
DestinationDialogActiveMQ == Dialog(OnOpen, Leaves, Free({"name", "kind"}))

\* topics/DestinationDialogActiveMQ.tsx:149-223
MoveDialogActiveMQ == Dialog(OnOpen, Leaves, Free({"to"}))

\* topics/EntityDialogAzureServiceBus.tsx:174-369
EntityDialogAzureServiceBus_Fields ==
    Fields({"name", "kind", "requiresSession", "requiresDuplicateDetection"},
           {"lockDurationSec", "maxDeliveryCount", "deadLetterOnExpiry",
            "forwardDeadLettersTo", "ttlSec"})

\* topics/EntityDialogAzureServiceBus.tsx:26-172
EntityDialogAzureServiceBus ==
    Dialog(OnSubject, Leaves, EntityDialogAzureServiceBus_Fields)

\* topics/ExchangeDialog.tsx:125-217
ExchangeDialog_Fields ==
    Free({"name", "type", "alternateExchange", "transient", "autoDelete"})

\* topics/ExchangeDialog.tsx:30-123
ExchangeDialog == Dialog(OnOpen, Resets, ExchangeDialog_Fields)

\* topics/ExchangeDialog.tsx:341-446
BindingDialog_Fields ==
    Free({"destinationKind", "destination", "headerMatch", "headers", "routingKey"})

\* topics/ExchangeDialog.tsx:219-339
BindingDialog == Dialog(OnOpen, Resets, BindingDialog_Fields)

\* topics/MoveDialog.tsx:130-226
MoveDialog_Fields == Free({"target", "queue", "exchange", "routingKey", "limit"})

\* topics/MoveDialog.tsx:19-128
MoveDialog == Dialog(OnOpen, Resets, MoveDialog_Fields)

\* topics/PurgeDialogNats.tsx:103-186
PurgeDialogNats_Fields == Free({"strategy", "keep", "sequence"})

\* topics/PurgeDialogNats.tsx:18-101
PurgeDialogNats == Dialog(OnOpen, Leaves, PurgeDialogNats_Fields)

\* topics/QueueDialog.tsx:172-356
QueueDialog_Fields ==
    Free({"name", "queueType", "durable", "autoDelete", "deadLetterExchange",
          "deadLetterRoutingKey", "messageTtlMs", "expiresMs", "maxLength",
          "maxLengthBytes", "overflow", "singleActiveConsumer"})

\* topics/QueueDialog.tsx:35-170
QueueDialog == Dialog(OnOpen, Resets, QueueDialog_Fields)

\* topics/QueueDialogIbmMq.tsx:110-215
QueueDialogIbmMq_Fields ==
    Free({"kind", "name", "queueType", "maxDepth", "topicString", "description"})

\* topics/QueueDialogIbmMq.tsx:22-108
QueueDialogIbmMq == Dialog(OnOpen, Leaves, QueueDialogIbmMq_Fields)

\* topics/QueueDialogSolace.tsx:118-232
QueueDialogSolace_Fields ==
    Free({"name", "accessType", "permission", "deadMsgQueue",
          "maxRedeliveryCount", "maxSpoolUsageMb", "owner"})

\* topics/QueueDialogSolace.tsx:32-116
QueueDialogSolace == Dialog(OnOpen, Leaves, QueueDialogSolace_Fields)

\* topics/QueueDialogSqs.tsx:143-288
QueueDialogSqs_Fields ==
    Fields({"name", "fifo"},
           {"visibilityTimeoutSec", "retentionSec", "delaySec", "receiveWaitSec",
            "deadLetterQueue", "maxReceiveCount", "contentBasedDeduplication"})

\* topics/QueueDialogSqs.tsx:29-141
QueueDialogSqs == Dialog(OnSubject, Leaves, QueueDialogSqs_Fields)

\* The partitions come from the board's second read.
\* topics/ReassignDialogKafka.tsx:34-135
ReassignDialogKafka == Dialog(OnData, Leaves, Free({"draft"}))

\* topics/RuleDialogAzureServiceBus.tsx:121-278
RuleDialogAzureServiceBus_Fields ==
    Free({"topic", "subscription", "name", "kind", "expression", "subject", "action"})

\* topics/RuleDialogAzureServiceBus.tsx:19-119
RuleDialogAzureServiceBus == Dialog(OnOpen, Leaves, RuleDialogAzureServiceBus_Fields)

\* topics/StreamDialog.tsx:23-112
StreamDialog == Dialog(OnOpen, Leaves, Free({"key"}))

\* topics/StreamDialogKinesis.tsx:127-226
StreamDialogKinesis_Fields ==
    Fields({"name"}, {"onDemand", "shards", "retentionHours"})

\* topics/StreamDialogKinesis.tsx:32-125
StreamDialogKinesis == Dialog(OnSubject, Leaves, StreamDialogKinesis_Fields)

\* topics/StreamDialogNats.tsx:89-278
StreamDialogNats_Fields ==
    Fields({"name", "storage"},
           {"replicas", "subjects", "retention", "discard", "maxAge", "maxMsgs",
            "maxBytes", "denyDelete", "denyPurge"})

\* topics/StreamDialogNats.tsx:46-87
StreamDialogNats == Dialog(OnSubject, Leaves, StreamDialogNats_Fields)

\* topics/SubscriptionDialogSolace.tsx:33-127
SubscriptionDialogSolace == Dialog(OnOpen, Leaves, Free({"queue", "topic"}))

\* topics/TopicDialog.tsx:123-237
TopicDialog_Fields == Fields({"topic"}, {"readQueue", "writeQueue", "perm", "brokerAddr"})

\* topics/TopicDialog.tsx:35-121
TopicDialog == Dialog(OnSubject, Resets, TopicDialog_Fields)

\* topics/TopicDialogGooglePubSub.tsx:140-222
TopicDialogGooglePubSub_Fields == Fields({"name"}, {"retentionSec", "labels"})

\* topics/TopicDialogGooglePubSub.tsx:23-138
TopicDialogGooglePubSub == Dialog(OnSubject, Leaves, TopicDialogGooglePubSub_Fields)

\* topics/TopicDialogKafka.tsx:155-252
TopicDialogKafka_Fields ==
    Free({"name", "partitions", "replicationFactor", "cleanupPolicy",
          "minInsyncReplicas", "retentionMs", "extraConfigs"})

\* topics/TopicDialogKafka.tsx:20-153
TopicDialogKafka == Dialog(OnOpen, Leaves, TopicDialogKafka_Fields)

\* topics/TopicDialogNsq.tsx:34-114
TopicDialogNsq == Dialog(OnOpen, Leaves, Free({"name"}))

\* topics/TopicDialogPulsar.tsx:100-188
TopicDialogPulsar_Fields == Free({"name", "partitions", "persistent"})

\* topics/TopicDialogPulsar.tsx:18-98
TopicDialogPulsar == Dialog(OnOpen, Resets, TopicDialogPulsar_Fields)

\* topics/TrimDialog.tsx:135-225
TrimDialog_Fields == Free({"strategy", "maxLen", "minId", "approx"})

\* topics/TrimDialog.tsx:19-133
TrimDialog == Dialog(OnOpen, Leaves, TrimDialog_Fields)

\* policies/PolicyDialog.tsx:174-291
PolicyDialog_Fields ==
    Fields({"vhost", "name", "operator"}, {"pattern", "applyTo", "priority", "definition"})

\* policies/PolicyDialog.tsx:35-172
PolicyDialog == Dialog(OnSubject, Resets, PolicyDialog_Fields)
=============================================================================
