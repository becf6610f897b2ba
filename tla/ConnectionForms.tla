--------------------------- MODULE ConnectionForms ---------------------------
(***************************************************************************)
(* The credentials part of the fifteen connection forms: which secrets a   *)
(* draft holds, when a field is on screen, what is submitted and with      *)
(* which instruction for the stored secrets, how a stored profile comes    *)
(* back as a draft, and what the form refuses to submit.  The machine that *)
(* gives a form its behaviour is ConnectionForm.                           *)
(*                                                                         *)
(* Endpoints, options, names and remarks are left out, except the one      *)
(* second address on which a second pair of credentials depends.           *)
(***************************************************************************)
LOCAL INSTANCE TLC

NoMechanism == "none"

(***************************************************************************)
(* Conditions.  A field is shown, submitted or asked for under some        *)
(* mechanisms, or only while the second address is filled in.              *)
(***************************************************************************)
Always == [any |-> TRUE, mechanisms |-> {}, addressed |-> FALSE]
Under(mechanisms) == [any |-> FALSE, mechanisms |-> mechanisms, addressed |-> FALSE]
WithAddress == [any |-> TRUE, mechanisms |-> {}, addressed |-> TRUE]

Holds(condition, mechanism, address) ==
    /\ condition.any \/ mechanism \in condition.mechanisms
    /\ condition.addressed => address

For(fields, condition) == [f \in fields |-> condition]
And(some, others) == some @@ others

(***************************************************************************)
(* A form: the mechanisms to choose from (none when the mechanism is       *)
(* inferred), the one a new draft starts with, when each secret is on      *)
(* screen, and the fields beside which the control that clears the stored  *)
(* credentials is drawn.  Choosing a mechanism blanks the typed fields it  *)
(* takes off the screen, in every form that has the choice.                *)
(***************************************************************************)
Form(choices, first, shows, clearBeside) ==
    [choices |-> choices, first |-> first, shows |-> shows,
     clearBeside |-> clearBeside]

(***************************************************************************)
(* A submission: the mechanism it carries (inferred: the given one when    *)
(* something is typed or kept, fixed, or the one chosen), when each secret *)
(* is sent rather than blank, and the rule for the credentials mode.       *)
(***************************************************************************)
Submission(mechanism, sends, mode) ==
    [mechanism |-> mechanism, sends |-> sends, mode |-> mode]
Inferred(mechanism) == [kind |-> "inferred", of |-> mechanism]
Fixed(mechanism) == [kind |-> "fixed", of |-> mechanism]
Chosen == [kind |-> "chosen", of |-> NoMechanism]

Preserving == "preserving"            \* keep the stored secrets the form left blank
TypedReplaces == "typedReplaces"      \* anything typed replaces all of them
NoneClears == "noneClears"            \* the same, and anonymous clears them
Replacing == "replacing"              \* always replace

(***************************************************************************)
(* A draft of a stored profile: the mechanisms under which its secrets     *)
(* count as stored.                                                        *)
(***************************************************************************)
AnySecret == Always
SecretUnder(mechanisms) == Under(mechanisms)

(***************************************************************************)
(* Requirements, all of them waived while the draft counts as stored:      *)
(* one of some fields, both or neither of a pair, one if another.          *)
(***************************************************************************)
OneOf(fields, condition) == [kind |-> "one", fields |-> fields, when |-> condition]
BothOrNone(fields, condition) == [kind |-> "pair", fields |-> fields, when |-> condition]
Implies(field, other, condition) ==
    [kind |-> "then", fields |-> {field}, other |-> other, when |-> condition]

Family(secrets, form, submission, stored, required) ==
    [secrets |-> secrets, form |-> form, submission |-> submission,
     stored |-> stored, required |-> required]

(***************************************************************************)
(* The families.  X_Secrets is the draft and its empty value, X_Form the   *)
(* form, X_Submission what it submits, X_Stored how a stored profile comes *)
(* back, X_Required what draftInvalidReason demands.                       *)
(***************************************************************************)

\* connections/ConnectionForms.tsx:89-131 (RocketMQDraft)
RocketMQ_Secrets == {"accessKey", "secretKey"}

\* connections/ConnectionForms.tsx:134-297 (RocketMQForm)
RocketMQ_Form ==
    Form({}, NoMechanism, For(RocketMQ_Secrets, Always), {"accessKey"})

\* connections/connectionDraft.ts:284-307 (rocketMQSubmission)
RocketMQ_Submission ==
    Submission(Inferred("acl"), For(RocketMQ_Secrets, Always), Preserving)

\* connections/connectionDraft.ts:714-729 (toRocketMQDraft)
RocketMQ_Stored == AnySecret

\* connections/connectionValidation.ts:355-367 (draftInvalidReason)
RocketMQ_Required == {}

RocketMQ ==
    Family(RocketMQ_Secrets, RocketMQ_Form, RocketMQ_Submission, RocketMQ_Stored,
           RocketMQ_Required)

\* connections/ConnectionForms.tsx:325-361 (KafkaDraft)
Kafka_Secrets == {"username", "password"}

\* connections/ConnectionForms.tsx:364-559 (KafkaForm)
Kafka_Form ==
    Form({"none", "sasl-plain", "sasl-scram"}, "none",
         For(Kafka_Secrets, Under({"sasl-plain", "sasl-scram"})), {"username"})

\* connections/connectionDraft.ts:342-378 (kafkaSubmission)
Kafka_Submission ==
    Submission(Chosen, For(Kafka_Secrets, Under({"sasl-plain", "sasl-scram"})),
               NoneClears)

\* connections/connectionDraft.ts:731-752 (toKafkaDraft)
Kafka_Stored == SecretUnder({"sasl-plain", "sasl-scram"})

\* connections/connectionValidation.ts:51-64 (draftInvalidReason)
Kafka_Required == {OneOf({"username"}, Under({"sasl-plain", "sasl-scram"}))}

Kafka ==
    Family(Kafka_Secrets, Kafka_Form, Kafka_Submission, Kafka_Stored,
           Kafka_Required)

\* connections/ConnectionForms.tsx:587-621 (RabbitMQDraft)
RabbitMQ_Secrets == {"username", "password"}

\* connections/ConnectionForms.tsx:624-777 (RabbitMQForm)
RabbitMQ_Form ==
    Form({}, NoMechanism, For(RabbitMQ_Secrets, Always), {"username"})

\* connections/connectionDraft.ts:309-340 (rabbitMQSubmission)
RabbitMQ_Submission ==
    Submission(Fixed("plain"), For(RabbitMQ_Secrets, Always), TypedReplaces)

\* connections/connectionDraft.ts:759-776 (toRabbitMQDraft)
RabbitMQ_Stored == AnySecret

\* connections/connectionValidation.ts:39-50 (draftInvalidReason)
RabbitMQ_Required == {OneOf({"username"}, Always)}

RabbitMQ ==
    Family(RabbitMQ_Secrets, RabbitMQ_Form, RabbitMQ_Submission, RabbitMQ_Stored,
           RabbitMQ_Required)

\* connections/ConnectionForms.tsx:803-841 (PulsarDraft)
Pulsar_Secrets == {"token"}

\* connections/ConnectionForms.tsx:844-1045 (PulsarForm)
Pulsar_Form ==
    Form({"none", "token"}, "none", For(Pulsar_Secrets, Under({"token"})), {"token"})

\* connections/connectionDraft.ts:648-688 (pulsarSubmission)
Pulsar_Submission ==
    Submission(Chosen, For(Pulsar_Secrets, Under({"token"})), NoneClears)

\* connections/connectionDraft.ts:690-712 (toPulsarDraft)
Pulsar_Stored == SecretUnder({"token"})

\* connections/connectionValidation.ts:65-89 (draftInvalidReason)
Pulsar_Required == {OneOf({"token"}, Under({"token"}))}

Pulsar ==
    Family(Pulsar_Secrets, Pulsar_Form, Pulsar_Submission, Pulsar_Stored,
           Pulsar_Required)

\* connections/ConnectionForms.tsx:1072-1110 (RedisDraft)
Redis_Secrets == {"username", "password"}

\* connections/ConnectionForms.tsx:1113-1322 (RedisForm)
Redis_Form ==
    Form({}, NoMechanism, For(Redis_Secrets, Always), {"username"})

\* connections/connectionDraft.ts:380-417 (redisSubmission)
Redis_Submission ==
    Submission(Inferred("plain"), For(Redis_Secrets, Always), TypedReplaces)

\* connections/connectionDraft.ts:779-807 (toRedisDraft)
Redis_Stored == AnySecret

\* connections/connectionValidation.ts:90-108 (draftInvalidReason)
Redis_Required == {}

Redis ==
    Family(Redis_Secrets, Redis_Form, Redis_Submission, Redis_Stored,
           Redis_Required)

\* connections/ConnectionForms.tsx:1329-1383 (MqttDraft)
Mqtt_Secrets ==
    {"username", "password", "managementApiKey", "managementSecretKey"}

\* connections/ConnectionForms.tsx:1393-1708 (MqttForm)
Mqtt_Form ==
    Form({"none", "plain"}, "none",
         And(For({"username", "password"}, Under({"plain"})),
             For({"managementApiKey", "managementSecretKey"}, WithAddress)),
         {"username"})

\* connections/connectionDraft.ts:435-480 (mqttSubmission)
Mqtt_Submission ==
    Submission(Chosen,
               And(For({"username", "password"}, Under({"plain"})),
                   For({"managementApiKey", "managementSecretKey"}, WithAddress)),
               Preserving)

\* connections/connectionDraft.ts:482-523 (toMqttDraft)
Mqtt_Stored == AnySecret

\* connections/connectionValidation.ts:109-131 (draftInvalidReason)
Mqtt_Required ==
    {OneOf({"username"}, Under({"plain"})), OneOf({"managementApiKey"}, WithAddress)}

Mqtt ==
    Family(Mqtt_Secrets, Mqtt_Form, Mqtt_Submission, Mqtt_Stored,
           Mqtt_Required)

\* connections/ConnectionForms.tsx:1730-1786 (NatsDraft)
Nats_Secrets ==
    {"username", "password", "token", "nkeySeed", "systemUser", "systemPassword"}

\* connections/ConnectionForms.tsx:1801-2124 (NatsForm)
Nats_Form ==
    Form({"none", "plain", "token", "nkey", "creds", "mtls"}, "none",
         And(For({"username", "password"}, Under({"plain"})),
             And([token |-> Under({"token"}), nkeySeed |-> Under({"nkey"})],
                 For({"systemUser", "systemPassword"}, Always))),
         {"username", "token"})

\* connections/connectionDraft.ts:538-579 (natsSubmission)
Nats_Submission ==
    Submission(Chosen,
               And(For({"username", "password"}, Under({"plain"})),
                   And([token |-> Under({"token"}), nkeySeed |-> Under({"nkey"})],
                       For({"systemUser", "systemPassword"}, Always))),
               Preserving)

\* connections/connectionDraft.ts:590-624 (toNatsDraft)
Nats_Stored == AnySecret

\* connections/connectionValidation.ts:132-170 (draftInvalidReason)
Nats_Required ==
    {OneOf({"username"}, Under({"plain"})), OneOf({"token"}, Under({"token"})),
     OneOf({"nkeySeed"}, Under({"nkey"})),
     Implies("systemUser", "systemPassword", Always)}

Nats ==
    Family(Nats_Secrets, Nats_Form, Nats_Submission, Nats_Stored,
           Nats_Required)

\* connections/ConnectionForms.tsx:2142-2188 (ActiveMQDraft)
ActiveMQ_Secrets == {"username", "password", "amqpUsername", "amqpPassword"}

\* connections/ConnectionForms.tsx:2207-2429 (ActiveMQForm)
ActiveMQ_Form ==
    Form({"none", "plain"}, "plain",
         And(For({"username", "password"}, Under({"plain"})),
             For({"amqpUsername", "amqpPassword"}, WithAddress)),
         {"username"})

\* connections/connectionDraft.ts:811-847 (activeMQSubmission)
ActiveMQ_Submission ==
    Submission(Chosen,
               And(For({"username", "password"}, Under({"plain"})),
                   For({"amqpUsername", "amqpPassword"}, WithAddress)),
               Preserving)

\* connections/connectionDraft.ts:854-879 (toActiveMQDraft)
ActiveMQ_Stored == AnySecret

\* connections/connectionValidation.ts:171-179 (draftInvalidReason)
ActiveMQ_Required == {}

ActiveMQ ==
    Family(ActiveMQ_Secrets, ActiveMQ_Form, ActiveMQ_Submission, ActiveMQ_Stored,
           ActiveMQ_Required)

\* connections/ConnectionForms.tsx:2443-2465 (NsqDraft)
Nsq_Secrets == {}

\* connections/ConnectionForms.tsx:2481-2587 (NsqForm)
Nsq_Form == Form({}, NoMechanism, For({}, Always), {})

\* connections/connectionDraft.ts:890-908 (nsqSubmission)
Nsq_Submission == Submission(Fixed(NoMechanism), For({}, Always), Replacing)

\* connections/connectionDraft.ts:910-920 (toNsqDraft)
Nsq_Stored == AnySecret

\* connections/connectionValidation.ts:180-188 (draftInvalidReason)
Nsq_Required == {}

Nsq ==
    Family(Nsq_Secrets, Nsq_Form, Nsq_Submission, Nsq_Stored,
           Nsq_Required)

\* connections/ConnectionForms.tsx:2611-2645 (SqsDraft)
Sqs_Secrets == {"awsAccessKeyId", "awsSecretAccessKey", "awsSessionToken"}

\* connections/ConnectionForms.tsx:2648-2799 (SqsForm)
Sqs_Form ==
    Form({}, NoMechanism, For(Sqs_Secrets, Always), {"awsAccessKeyId"})

\* connections/connectionDraft.ts:936-973 (sqsSubmission)
Sqs_Submission ==
    Submission(Inferred("plain"), For(Sqs_Secrets, Always), Preserving)

\* connections/connectionDraft.ts:975-995 (toSqsDraft)
Sqs_Stored == SecretUnder({"plain"})

\* connections/connectionValidation.ts:189-214 (draftInvalidReason)
Sqs_Required ==
    {BothOrNone({"awsAccessKeyId", "awsSecretAccessKey"}, Always)}

Sqs ==
    Family(Sqs_Secrets, Sqs_Form, Sqs_Submission, Sqs_Stored,
           Sqs_Required)

\* connections/ConnectionForms.tsx:2831-2861 (GooglePubSubDraft)
GooglePubSub_Secrets == {"googleCredentialsJson"}

\* connections/ConnectionForms.tsx:2864-3004 (GooglePubSubForm)
GooglePubSub_Form ==
    Form({}, NoMechanism, For(GooglePubSub_Secrets, Always), GooglePubSub_Secrets)

\* connections/connectionDraft.ts:1012-1043 (googlePubSubSubmission)
GooglePubSub_Submission ==
    Submission(Inferred("plain"), For(GooglePubSub_Secrets, Always), Preserving)

\* connections/connectionDraft.ts:1045-1063 (toGooglePubSubDraft)
GooglePubSub_Stored == SecretUnder({"plain"})

\* connections/connectionValidation.ts:215-237 (draftInvalidReason)
GooglePubSub_Required == {}

GooglePubSub ==
    Family(GooglePubSub_Secrets, GooglePubSub_Form, GooglePubSub_Submission,
           GooglePubSub_Stored, GooglePubSub_Required)

\* connections/ConnectionForms.tsx:3037-3073 (AzureServiceBusDraft)
AzureServiceBus_Secrets == {"azureSharedAccessKey", "azureConnectionString"}

\* connections/ConnectionForms.tsx:3076-3240 (AzureServiceBusForm)
AzureServiceBus_Form ==
    Form({}, NoMechanism, For(AzureServiceBus_Secrets, Always), {"azureSharedAccessKey"})

\* connections/connectionDraft.ts:1079-1111 (azureServiceBusSubmission)
AzureServiceBus_Submission ==
    Submission(Inferred("plain"), For(AzureServiceBus_Secrets, Always), Preserving)

\* connections/connectionDraft.ts:1113-1133 (toAzureServiceBusDraft)
AzureServiceBus_Stored == SecretUnder({"plain"})

\* connections/connectionValidation.ts:238-265 (draftInvalidReason)
AzureServiceBus_Required == {OneOf(AzureServiceBus_Secrets, Always)}

AzureServiceBus ==
    Family(AzureServiceBus_Secrets, AzureServiceBus_Form,
           AzureServiceBus_Submission, AzureServiceBus_Stored,
           AzureServiceBus_Required)

\* connections/ConnectionForms.tsx:3259-3293 (KinesisDraft)
Kinesis_Secrets ==
    {"awsAccessKeyId", "awsSecretAccessKey", "awsSessionToken"}

\* connections/ConnectionForms.tsx:3296-3447 (KinesisForm)
Kinesis_Form ==
    Form({}, NoMechanism, For(Kinesis_Secrets, Always), {"awsAccessKeyId"})

\* connections/connectionDraft.ts:1146-1182 (kinesisSubmission)
Kinesis_Submission ==
    Submission(Inferred("plain"), For(Kinesis_Secrets, Always), Preserving)

\* connections/connectionDraft.ts:1184-1204 (toKinesisDraft)
Kinesis_Stored == SecretUnder({"plain"})

\* connections/connectionValidation.ts:266-291 (draftInvalidReason)
Kinesis_Required ==
    {BothOrNone({"awsAccessKeyId", "awsSecretAccessKey"}, Always)}

Kinesis ==
    Family(Kinesis_Secrets, Kinesis_Form, Kinesis_Submission, Kinesis_Stored,
           Kinesis_Required)

\* connections/ConnectionForms.tsx:3463-3502 (IbmMqDraft)
IbmMq_Secrets ==
    {"username", "password", "messagingUsername", "messagingPassword"}

\* connections/ConnectionForms.tsx:3523-3702 (IbmMqForm)
IbmMq_Form ==
    Form({"none", "plain"}, "plain",
         And(For({"username", "password"}, Under({"plain"})),
             For({"messagingUsername", "messagingPassword"}, Always)),
         {"username"})

\* connections/connectionDraft.ts:1221-1253 (ibmMqSubmission)
IbmMq_Submission ==
    Submission(Chosen, For(IbmMq_Secrets, Under({"plain"})), Preserving)

\* connections/connectionDraft.ts:1260-1282 (toIbmMqDraft)
IbmMq_Stored == AnySecret

\* connections/connectionValidation.ts:292-322 (draftInvalidReason)
IbmMq_Required ==
    {BothOrNone({"messagingUsername", "messagingPassword"}, Under({"plain"}))}

IbmMq ==
    Family(IbmMq_Secrets, IbmMq_Form, IbmMq_Submission, IbmMq_Stored,
           IbmMq_Required)

\* connections/ConnectionForms.tsx:3720-3762 (SolaceDraft)
Solace_Secrets == {"username", "password", "restUsername", "restPassword"}

\* connections/ConnectionForms.tsx:3783-3976 (SolaceForm)
Solace_Form ==
    Form({"none", "plain"}, "plain",
         And(For({"username", "password"}, Under({"plain"})),
             For({"restUsername", "restPassword"}, Always)),
         {"username"})

\* connections/connectionDraft.ts:1302-1338 (solaceSubmission)
Solace_Submission ==
    Submission(Chosen,
               And(For({"username", "password"}, Under({"plain"})),
                   For({"restUsername", "restPassword"}, Always)),
               Preserving)

\* connections/connectionDraft.ts:1345-1368 (toSolaceDraft)
Solace_Stored == AnySecret

\* connections/connectionValidation.ts:323-354 (draftInvalidReason)
Solace_Required == {BothOrNone({"restUsername", "restPassword"}, Always)}

Solace ==
    Family(Solace_Secrets, Solace_Form, Solace_Submission, Solace_Stored,
           Solace_Required)

Families ==
    {RocketMQ, Kafka, RabbitMQ, Pulsar, Redis, Mqtt, Nats, ActiveMQ, Nsq, Sqs,
     GooglePubSub, AzureServiceBus, Kinesis, IbmMq, Solace}
=============================================================================
