--------------------------- MODULE ConsumerDialogs ---------------------------
(***************************************************************************)
(* The dialogs of the boards of groups, subscriptions and consumers        *)
(* (design/boards/consumers).                                              *)
(***************************************************************************)
EXTENDS BoardShapes

\* consumers/ChannelDialogNsq.tsx:31-132
ChannelDialogNsq == Dialog(OnOpen, Leaves, Free({"topic", "name"}))

\* consumers/CloneOffsetDialog.tsx:87-166
CloneOffsetDialog_Fields == Free({"to", "topic", "fromOffline"})

\* consumers/CloneOffsetDialog.tsx:34-85
CloneOffsetDialog == Dialog(OnSubject, Resets, CloneOffsetDialog_Fields)

\* consumers/ConsumerDialogKinesis.tsx:32-137
ConsumerDialogKinesis == Dialog(OnOpen, Leaves, Free({"stream", "name"}))

\* consumers/ConsumerDialogNats.tsx:83-281
ConsumerDialogNats_Fields ==
    Fields({"name", "durable"},
           {"deliverPolicy", "filterSubject", "ackPolicy", "ackWait", "maxDeliver",
            "maxAckPending", "deliverSubject", "deliverGroup"})

\* consumers/ConsumerDialogNats.tsx:37-81
ConsumerDialogNats == Dialog(OnSubject, Leaves, ConsumerDialogNats_Fields)

\* consumers/ConsumerGroupDialog.tsx:142-261
ConsumerGroupDialog_Fields == Fields({"group"}, {"maxRetry", "consumeMode", "brokerAddr"})

\* consumers/ConsumerGroupDialog.tsx:32-140
ConsumerGroupDialog == Dialog(OnSubject, Resets, ConsumerGroupDialog_Fields)

\* The streams come from a polled read.
\* consumers/GroupDialog.tsx:18-162
GroupDialog == Dialog(OnData, Leaves, Free({"stream", "group", "start"}))

\* consumers/PositionDialog.tsx:113-179
PositionDialog_Fields == Free({"choice", "entryId"})

\* consumers/PositionDialog.tsx:18-111
PositionDialog == Dialog(OnOpen, Leaves, PositionDialog_Fields)

\* consumers/QueueOffsetDialog.tsx:18-154
QueueOffsetDialog == Dialog(OnSubject, Resets, Free({"offset"}))

\* consumers/ResetCursorDialogPulsar.tsx:116-191
ResetCursorDialogPulsar_Fields == Free({"mode", "at"})

\* consumers/ResetCursorDialogPulsar.tsx:25-114
ResetCursorDialogPulsar == Dialog(OnOpen, Resets, ResetCursorDialogPulsar_Fields)

\* consumers/ResetOffsetDialog.tsx:103-208
ResetOffsetDialog_Fields == Free({"topic", "target", "at", "force"})

\* consumers/ResetOffsetDialog.tsx:21-101
ResetOffsetDialog == Dialog(OnSubject, Resets, ResetOffsetDialog_Fields)

\* The board splits the topics out of an attribute at every render.
\* consumers/ResetOffsetDialogKafka.tsx:119-207
ResetOffsetDialogKafka_Fields == Free({"topic", "target", "timestamp", "value"})

\* consumers/ResetOffsetDialogKafka.tsx:18-117
ResetOffsetDialogKafka == Dialog(OnRender, Leaves, ResetOffsetDialogKafka_Fields)

\* The topics come from a polled read.
\* consumers/SubscriptionDialogActiveMQ.tsx:105-182
SubscriptionDialogActiveMQ_Fields == Free({"topic", "clientId", "name", "selector"})

\* consumers/SubscriptionDialogActiveMQ.tsx:36-103
SubscriptionDialogActiveMQ == Dialog(OnData, Leaves, SubscriptionDialogActiveMQ_Fields)

\* consumers/SubscriptionDialogAzureServiceBus.tsx:160-346
SubscriptionDialogAzureServiceBus_Fields ==
    Fields({"topic", "name", "requiresSession"},
           {"lockDurationSec", "maxDeliveryCount", "ttlSec", "deadLetterOnExpiry",
            "deadLetterOnRuleError", "forwardDeadLettersTo"})

\* consumers/SubscriptionDialogAzureServiceBus.tsx:25-158
SubscriptionDialogAzureServiceBus ==
    Dialog(OnSubject, Leaves, SubscriptionDialogAzureServiceBus_Fields)

\* consumers/SubscriptionDialogGooglePubSub.tsx:156-372
SubscriptionDialogGooglePubSub_Fields ==
    Fields({"name", "topic", "ordering", "filter"},
           {"ackDeadlineSec", "retentionSec", "retainAcked", "exactlyOnce",
            "deadLetterTopic", "maxAttempts", "retryMinBackoffSec",
            "retryMaxBackoffSec"})

\* consumers/SubscriptionDialogGooglePubSub.tsx:29-154
SubscriptionDialogGooglePubSub ==
    Dialog(OnSubject, Leaves, SubscriptionDialogGooglePubSub_Fields)

\* The board builds the list of topics at every render.
\* consumers/SubscriptionDialogPulsar.tsx:94-173
SubscriptionDialogPulsar_Fields == Free({"topic", "name", "startAt"})

\* consumers/SubscriptionDialogPulsar.tsx:18-92
SubscriptionDialogPulsar == Dialog(OnRender, Resets, SubscriptionDialogPulsar_Fields)
=============================================================================
