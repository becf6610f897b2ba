------------------------- MODULE ConnectionFormProofs -------------------------
(***************************************************************************)
(* Proofs about ConnectionForm, for any number of openings of the dialog   *)
(* and of secrets typed.  They rest on what WellFormed says of a family;   *)
(* each of the fifteen families is shown to be well formed.                *)
(***************************************************************************)
EXTENDS ConnectionForm, TLAPS

(***************************************************************************)
(* The families.                                                           *)
(***************************************************************************)

Modes == {Preserving, TypedReplaces, NoneClears, Replacing}

\* What the rules of a family have to do with each other:  a mechanism is
\* inferred only where stored secrets can be kept; a form that keeps what was
\* left blank recognises every profile it has saved; anonymous clears only where
\* the mechanism is chosen and sends nothing when it is none; a form without an
\* anonymous mode always asks for a credential.
WellFormed(fam) ==
    LET submission == fam.submission
        inferred == submission.mechanism.kind = "inferred"
        chosen == submission.mechanism.kind = "chosen"
    IN  /\ fam.form.choices \cup {fam.form.first, submission.mechanism.of} \subseteq Mechanisms
        /\ submission.mechanism.kind \in {"inferred", "fixed", "chosen"}
        /\ submission.mode \in Modes
        /\ inferred => submission.mechanism.of # NoMechanism
        /\ chosen => fam.form.first \in fam.form.choices
        /\ submission.mode = Replacing => fam.secrets = {} /\ ~inferred
        /\ submission.mode \in {Preserving, TypedReplaces} =>
              \/ fam.stored = Always
              \/ inferred /\ Holds(fam.stored, submission.mechanism.of, TRUE)
        /\ submission.mode = NoneClears =>
              /\ chosen
              /\ NoMechanism \in fam.form.choices
              /\ \A m \in fam.form.choices \ {NoMechanism} : Holds(fam.stored, m, TRUE)
              /\ \A f \in fam.secrets, address \in BOOLEAN :
                    ~Holds(fam.submission.sends[f], NoMechanism, address)
        /\ submission.mechanism.kind = "fixed" =>
              \/ fam.secrets = {}
              \/ \E r \in fam.required : r.kind = "one" /\ r.when = Always

\* The fifteen families are well formed.
LEMMA FamiliesWellFormed == \A fam \in Families : WellFormed(fam)
<1> USE DEF WellFormed, Family, Form, Submission, Inferred, Fixed, Chosen, NoMechanism,
        Mechanisms, Modes, Preserving, TypedReplaces, NoneClears, Replacing,
        AnySecret, SecretUnder, Always, Under, Holds
<1>1. WellFormed(RocketMQ)
  BY DEF RocketMQ, RocketMQ_Form, RocketMQ_Submission, RocketMQ_Stored
<1>2. WellFormed(Kafka)
  BY DEF Kafka, Kafka_Secrets, Kafka_Form, Kafka_Submission, Kafka_Stored, For
<1>3. WellFormed(RabbitMQ)
  BY DEF RabbitMQ, RabbitMQ_Form, RabbitMQ_Submission, RabbitMQ_Stored, RabbitMQ_Required,
     OneOf
<1>4. WellFormed(Pulsar)
  BY DEF Pulsar, Pulsar_Secrets, Pulsar_Form, Pulsar_Submission, Pulsar_Stored, For
<1>5. WellFormed(Redis)
  BY DEF Redis, Redis_Form, Redis_Submission, Redis_Stored
<1>6. WellFormed(Mqtt)
  BY DEF Mqtt, Mqtt_Form, Mqtt_Submission, Mqtt_Stored
<1>7. WellFormed(Nats)
  BY DEF Nats, Nats_Form, Nats_Submission, Nats_Stored
<1>8. WellFormed(ActiveMQ)
  BY DEF ActiveMQ, ActiveMQ_Form, ActiveMQ_Submission, ActiveMQ_Stored
<1>9. WellFormed(Nsq)
  BY DEF Nsq, Nsq_Secrets, Nsq_Form, Nsq_Submission, Nsq_Stored
<1>10. WellFormed(Sqs)
  BY DEF Sqs, Sqs_Form, Sqs_Submission, Sqs_Stored
<1>11. WellFormed(GooglePubSub)
  BY DEF GooglePubSub, GooglePubSub_Form, GooglePubSub_Submission, GooglePubSub_Stored
<1>12. WellFormed(AzureServiceBus)
  BY DEF AzureServiceBus, AzureServiceBus_Form, AzureServiceBus_Submission,
     AzureServiceBus_Stored
<1>13. WellFormed(Kinesis)
  BY DEF Kinesis, Kinesis_Form, Kinesis_Submission, Kinesis_Stored
<1>14. WellFormed(IbmMq)
  BY DEF IbmMq, IbmMq_Form, IbmMq_Submission, IbmMq_Stored
<1>15. WellFormed(Solace)
  BY DEF Solace, Solace_Form, Solace_Submission, Solace_Stored
<1> HIDE DEF WellFormed
<1>16. QED
  BY <1>1, <1>2, <1>3, <1>4, <1>5, <1>6, <1>7, <1>8, <1>9, <1>10, <1>11, <1>12,
     <1>13, <1>14, <1>15 DEF Families

(***************************************************************************)
(* What a draft submits.                                                   *)
(***************************************************************************)

\* The state of an open dialog.
LEMMA DraftFacts ==
    ASSUME IInv, form # Closed
    PROVE  /\ WellFormed(family) /\ family \in Families
           /\ form \in Forms
           /\ edits \in 1..MaxEdits /\ edits # 0 /\ 0 \in 0..MaxEdits
           /\ form.editing => profile \in Profiles /\ profile # NoProfile
           /\ form.credentialsStored => form.editing /\ HasSecret(profile)
           /\ Sent \subseteq family.secrets
<1>1. WellFormed(family) /\ family \in Families /\ form \in Forms
  BY FamiliesWellFormed DEF IInv, TypeOK
<1>2. edits \in 1..MaxEdits /\ edits # 0 /\ 0 \in 0..MaxEdits
  BY BoundsAssumption DEF IInv, TypeOK, DraftInv
<1>3. form.editing => profile \in Profiles /\ profile # NoProfile
  BY DEF IInv, TypeOK, DraftInv
<1>4. form.credentialsStored => form.editing /\ HasSecret(profile)
  BY DEF IInv, DraftInv
<1>5. Sent \subseteq family.secrets
  BY <1>1 DEF Forms, Sent
<1>6. QED
  BY <1>1, <1>2, <1>3, <1>4, <1>5

\* The submission holds the typed secrets that are sent and blanks the others.
LEMMA SubmittedFacts ==
    ASSUME IInv, form # Closed
    PROVE  /\ Submitted \in [family.secrets -> 0..MaxEdits]
           /\ \A f \in family.secrets :
                 /\ f \in Sent => Submitted[f] = edits
                 /\ f \notin Sent => Submitted[f] = 0
<1>1. edits \in 0..MaxEdits /\ 0 \in 0..MaxEdits
  BY DraftFacts, BoundsAssumption
<1>2. QED
  BY <1>1 DEF Submitted

\* The rule of the credentials mode, case by case.
LEMMA ModeFacts ==
    ASSUME IInv, form # Closed
    PROVE  LET rule == family.submission.mode
               keeps == KeepStored /\ (rule = Preserving \/ Sent = {})
               clears == form.clearCredentials \/ (rule = NoneClears /\ form.mechanism = NoMechanism)
           IN  /\ rule = Replacing => CredentialsMode = "replace"
               /\ rule # Replacing /\ clears => CredentialsMode = "clear"
               /\ rule # Replacing /\ ~clears /\ keeps => CredentialsMode = "preserve"
               /\ rule # Replacing /\ ~clears /\ ~keeps => CredentialsMode = "replace"
<1>1. family.submission.mode \in Modes
  BY DraftFacts DEF WellFormed
<1>2. CASE family.submission.mode = Replacing
  BY <1>2 DEF CredentialsMode, Replacing, Preserving, TypedReplaces, NoneClears
<1>3. CASE family.submission.mode = Preserving
  BY <1>3 DEF CredentialsMode, Replacing, Preserving, TypedReplaces, NoneClears,
     KeepStored, Kept
<1>4. CASE family.submission.mode = TypedReplaces
  BY <1>4 DEF CredentialsMode, Replacing, Preserving, TypedReplaces, NoneClears,
     KeepStored, Kept
<1>5. CASE family.submission.mode = NoneClears
  BY <1>5 DEF CredentialsMode, Replacing, Preserving, TypedReplaces, NoneClears,
     KeepStored, Kept, NoMechanism
<1>6. QED
  BY <1>1, <1>2, <1>3, <1>4, <1>5 DEF Modes

\* What the bridge makes of it: the profile a save stores.
LEMMA NewProfileFacts ==
    ASSUME IInv, form # Closed
    PROVE  /\ NewProfile.secrets \in [family.secrets -> 0..MaxEdits]
           /\ NewProfile.mechanism = StoredMechanism
           /\ NewProfile.address = form.address
           /\ form.editing /\ CredentialsMode = "clear" =>
                 \A f \in family.secrets : NewProfile.secrets[f] = 0
           /\ form.editing /\ CredentialsMode = "preserve" =>
                 \A f \in family.secrets :
                    NewProfile.secrets[f] = IF f \in Sent THEN edits ELSE profile.secrets[f]
           /\ ~form.editing \/ CredentialsMode = "replace" =>
                 \A f \in family.secrets :
                    NewProfile.secrets[f] = IF f \in Sent THEN edits ELSE 0
<1> DEFINE secrets == applyCredentialsMode(Submitted, CredentialsMode)
<1>1. /\ NewProfile.secrets = secrets /\ NewProfile.mechanism = StoredMechanism
      /\ NewProfile.address = form.address
  BY DEF NewProfile
<1>2. /\ Submitted \in [family.secrets -> 0..MaxEdits] /\ edits # 0 /\ 0 \in 0..MaxEdits
      /\ \A f \in family.secrets : Submitted[f] = IF f \in Sent THEN edits ELSE 0
      /\ form.editing => profile.secrets \in [family.secrets -> 0..MaxEdits]
  BY DraftFacts, SubmittedFacts DEF Profiles
<1>3. CASE form.editing /\ CredentialsMode = "clear"
  <2>1. secrets = [f \in family.secrets |-> 0]
    BY <1>3 DEF applyCredentialsMode, Blank
  <2>2. QED
    BY <1>1, <1>2, <1>3, <2>1
<1>4. CASE form.editing /\ CredentialsMode = "preserve"
  <2>1. secrets = [f \in family.secrets |->
                     IF Submitted[f] = 0 THEN profile.secrets[f] ELSE Submitted[f]]
    BY <1>4 DEF applyCredentialsMode
  <2>2. QED
    BY <1>1, <1>2, <1>4, <2>1
<1>5. CASE ~form.editing \/ CredentialsMode \notin {"clear", "preserve"}
  <2>1. secrets = Submitted
    BY <1>5 DEF applyCredentialsMode
  <2>2. QED
    BY <1>1, <1>2, <1>5, <2>1
<1>6. QED
  BY <1>3, <1>4, <1>5

\* Nothing is sent without a mechanism where anonymous clears.
LEMMA AnonymousSendsNothing ==
    ASSUME IInv, form # Closed, family.submission.mode = NoneClears,
           form.mechanism = NoMechanism
    PROVE  Sent = {}
<1>1. form.typed \subseteq family.secrets /\ form.address \in BOOLEAN
  BY DraftFacts DEF Forms
<1>2. \A f \in family.secrets, address \in BOOLEAN :
        ~Holds(family.submission.sends[f], NoMechanism, address)
  BY DraftFacts DEF WellFormed
<1>3. QED
  BY <1>1, <1>2 DEF Sent, Submits

\* A form that may keep the stored secrets knows whether there are any, unless
\* the mechanism hides them.
LEMMA StoredIsKnown ==
    ASSUME IInv, form # Closed, form.editing, family.submission.mode # Replacing,
           family.submission.mode = NoneClears => profile.mechanism # NoMechanism
    PROVE  form.credentialsStored <=> HasSecret(profile)
<1>1. /\ profile # NoProfile /\ WellFormed(family) /\ family.submission.mode \in Modes
      /\ MechanismMatchesSecrets /\ ProfileInv
      /\ form.credentialsStored <=>
            HasSecret(profile) /\ Holds(family.stored, profile.mechanism, TRUE)
  BY DraftFacts DEF IInv, DraftInv, WellFormed
<1>2. SUFFICES ASSUME HasSecret(profile)
               PROVE  Holds(family.stored, profile.mechanism, TRUE)
  BY <1>1
<1>3. CASE family.stored = Always
  BY <1>3 DEF Always, Holds
<1>4. CASE /\ family.submission.mechanism.kind = "inferred"
           /\ Holds(family.stored, family.submission.mechanism.of, TRUE)
  BY <1>1, <1>2, <1>4 DEF MechanismMatchesSecrets, ProfileInv, NoMechanism
<1>5. CASE family.submission.mode = NoneClears
  BY <1>1, <1>5 DEF WellFormed, ProfileInv
<1>6. QED
  BY <1>1, <1>3, <1>4, <1>5 DEF WellFormed, Modes

\* The mechanism a save stores.
LEMMA MechanismFacts ==
    ASSUME IInv, form # Closed
    PROVE  LET rule == family.submission.mechanism
           IN  /\ StoredMechanism \in Mechanisms
               /\ form.editing /\ CredentialsMode = "clear" => StoredMechanism = NoMechanism
               /\ ~(form.editing /\ CredentialsMode = "clear") =>
                     /\ rule.kind = "chosen" => StoredMechanism = form.mechanism
                     /\ rule.kind = "inferred" =>
                           StoredMechanism =
                              IF Sent # {} \/ KeepStored THEN rule.of ELSE NoMechanism
               /\ rule.kind = "inferred" => StoredMechanism \in {NoMechanism, rule.of}
               /\ rule.kind = "chosen" =>
                     StoredMechanism \in {NoMechanism} \cup family.form.choices
<1> DEFINE rule == family.submission.mechanism
<1>1. /\ rule.kind \in {"inferred", "fixed", "chosen"} /\ rule.of \in Mechanisms
      /\ form.mechanism \in Mechanisms
      /\ rule.kind = "chosen" => form.mechanism \in family.form.choices
  BY DraftFacts DEF WellFormed, Forms, IInv, DraftInv
<1>2. SubmittedMechanism =
        IF rule.kind = "fixed" THEN rule.of
        ELSE IF rule.kind = "chosen" THEN form.mechanism
        ELSE IF Sent # {} \/ KeepStored THEN rule.of ELSE NoMechanism
  BY <1>1 DEF SubmittedMechanism, NoMechanism
<1>3. NoMechanism \in Mechanisms
  BY DEF NoMechanism, Mechanisms
<1>4. CASE form.editing /\ CredentialsMode = "clear"
  BY <1>1, <1>3, <1>4 DEF StoredMechanism, NoMechanism
<1>5. CASE ~(form.editing /\ CredentialsMode = "clear")
  <2>1. StoredMechanism = SubmittedMechanism
    BY <1>5 DEF StoredMechanism
  <2>2. QED
    BY <1>1, <1>2, <1>3, <1>5, <2>1
<1>6. QED
  BY <1>4, <1>5

(***************************************************************************)
(* Saving.                                                                 *)
(***************************************************************************)

\* What is stored is a profile of the family, with a mechanism it could submit.
LEMMA SaveTypes ==
    ASSUME IInv, form # Closed, Save
    PROVE  profile' \in Profiles /\ family' = family /\ ProfileInv'
<1>1. profile' = NewProfile /\ family' = family
  BY DEF Save
<1>2. NewProfile = [secrets |-> NewProfile.secrets, mechanism |-> NewProfile.mechanism,
                    address |-> NewProfile.address]
  BY DEF NewProfile
<1>3. /\ NewProfile.secrets \in [family.secrets -> 0..MaxEdits]
      /\ NewProfile.mechanism \in Mechanisms /\ NewProfile.address \in BOOLEAN
  BY NewProfileFacts, MechanismFacts, DraftFacts DEF Forms
<1>4. profile' \in Profiles
  BY <1>1, <1>2, <1>3 DEF Profiles
<1>5. ProfileInv'
  BY <1>1, NewProfileFacts, MechanismFacts DEF ProfileInv
<1>6. QED
  BY <1>1, <1>4, <1>5

\* The mechanism that is stored agrees with the secrets that are.
LEMMA SaveMatches ==
    ASSUME IInv, form # Closed, Save
    PROVE  MechanismMatchesSecrets'
<1> DEFINE rule == family.submission.mechanism
           mode == family.submission.mode
           some == \E f \in family.secrets : NewProfile.secrets[f] # 0
<1>1. /\ profile' = NewProfile /\ family' = family /\ Accepted
      /\ NewProfile.mechanism = StoredMechanism
  BY NewProfileFacts DEF Save
<1>2. HasSecret(profile)' <=> some
  BY <1>1 DEF HasSecret
<1>3. /\ WellFormed(family) /\ Sent \subseteq family.secrets /\ edits # 0
      /\ form.credentialsStored => form.editing /\ HasSecret(profile)
      /\ KeepStored => form.credentialsStored
  BY DraftFacts DEF KeepStored, Kept
<1>4. ASSUME rule.kind = "inferred"
      PROVE  StoredMechanism # NoMechanism <=> some
  <2>1. rule.of # NoMechanism /\ mode # Replacing
    BY <1>3, <1>4 DEF WellFormed
  <2>2. CASE form.editing /\ CredentialsMode = "clear"
    BY <2>2, NewProfileFacts, MechanismFacts
  <2>3. CASE form.editing /\ CredentialsMode = "preserve"
    <3>1. KeepStored /\ HasSecret(profile)
      BY <1>3, <2>1, <2>3, ModeFacts
    <3>2. StoredMechanism = rule.of
      BY <1>4, <2>3, <3>1, MechanismFacts
    <3>3. some
      BY <1>3, <2>3, <3>1, NewProfileFacts DEF HasSecret
    <3>4. QED
      BY <2>1, <3>2, <3>3
  <2>4. CASE ~form.editing \/ CredentialsMode = "replace"
    <3>1. StoredMechanism = IF Sent # {} \/ KeepStored THEN rule.of ELSE NoMechanism
      BY <1>4, <2>4, MechanismFacts
    <3>2. some <=> Sent # {}
      BY <1>3, <2>4, NewProfileFacts
    <3>3. KeepStored => Sent # {}
      BY <1>3, <2>1, <2>4, ModeFacts
    <3>4. QED
      BY <2>1, <3>1, <3>2, <3>3
  <2>5. QED
    BY <2>1, <2>2, <2>3, <2>4, ModeFacts
<1>5. ASSUME mode = NoneClears, StoredMechanism = NoMechanism
      PROVE  ~some
  <2>1. rule.kind = "chosen" /\ mode # Replacing
    BY <1>3, <1>5 DEF WellFormed, NoneClears, Replacing
  <2>2. CASE form.editing /\ CredentialsMode = "clear"
    BY <2>2, NewProfileFacts
  <2>3. CASE ~(form.editing /\ CredentialsMode = "clear")
    <3>1. form.mechanism = NoMechanism
      BY <1>5, <2>1, <2>3, MechanismFacts
    <3>2. Sent = {}
      BY <1>5, <3>1, AnonymousSendsNothing
    <3>3. ~form.editing
      BY <1>5, <2>1, <2>3, <3>1, ModeFacts
    <3>4. QED
      BY <3>2, <3>3, NewProfileFacts
  <2>4. QED
    BY <2>2, <2>3
<1>6. StoredMechanism = "acl" => \A f \in family.secrets : NewProfile.secrets[f] # 0
  BY <1>1 DEF Accepted
<1> HIDE DEF some
<1>7. QED
  BY <1>1, <1>2, <1>4, <1>5, <1>6 DEF MechanismMatchesSecrets, NoMechanism

\* Where stored secrets can be kept, an edit changes only what was typed.
LEMMA SaveKeeps ==
    ASSUME IInv, form # Closed, Save, form.editing, ~form.clearCredentials,
           NEW f \in family.secrets
    PROVE  /\ f \in Sent => profile'.secrets[f] = edits
           /\ /\ \/ family.submission.mode = Preserving
                 \/ form.typed = {} /\ form.mechanism = draftMechanism(profile)
              /\ f \notin Sent
              => profile'.secrets[f] = profile.secrets[f]
<1> DEFINE mode == family.submission.mode
           anonymous == mode = NoneClears /\ form.mechanism = NoMechanism
<1>1. /\ profile' = NewProfile /\ WellFormed(family) /\ mode \in Modes
      /\ profile \in Profiles /\ profile # NoProfile /\ edits # 0
  BY DraftFacts DEF Save, WellFormed
<1>2. mode # Replacing
  BY <1>1 DEF WellFormed
<1>3. f \in Sent => profile'.secrets[f] = edits
  <2>1. CASE CredentialsMode \in {"preserve", "replace"}
    BY <1>1, <2>1, NewProfileFacts
  <2>2. CASE CredentialsMode = "clear"
    <3>1. anonymous
      BY <1>2, <2>2, ModeFacts
    <3>2. QED
      BY <3>1, AnonymousSendsNothing
  <2>3. QED
    BY <1>2, <2>1, <2>2, ModeFacts
<1>4. ASSUME \/ mode = Preserving
             \/ form.typed = {} /\ form.mechanism = draftMechanism(profile),
             f \notin Sent
      PROVE  profile'.secrets[f] = profile.secrets[f]
  <2>1. mode = Preserving \/ Sent = {}
    BY <1>4 DEF Sent
  <2>2. CASE anonymous
    <3>1. CredentialsMode = "clear"
      BY <1>2, <2>2, ModeFacts
    <3>2. form.mechanism = draftMechanism(profile)
      BY <1>4, <2>2 DEF NoneClears, Preserving
    <3>3. profile.mechanism \in family.form.choices
      BY <1>1, <2>2 DEF WellFormed, IInv, ProfileInv
    <3>4. profile.mechanism = NoMechanism
      BY <2>2, <3>2, <3>3 DEF draftMechanism
    <3>5. ~HasSecret(profile)
      BY <1>1, <2>2, <3>4 DEF IInv, MechanismMatchesSecrets, NoMechanism
    <3>6. QED
      BY <1>1, <3>1, <3>5, NewProfileFacts DEF HasSecret
  <2>3. CASE ~anonymous
    <3>1. KeepStored <=> form.credentialsStored
      BY <2>3 DEF KeepStored, Kept, NoMechanism
    <3>2. mode = NoneClears => profile.mechanism # NoMechanism
      <4>1. SUFFICES ASSUME mode = NoneClears
                     PROVE  profile.mechanism # NoMechanism
        OBVIOUS
      <4>2. profile.mechanism \in family.form.choices
        BY <1>1, <4>1 DEF WellFormed, IInv, ProfileInv
      <4>3. form.mechanism = profile.mechanism
        BY <1>4, <4>1, <4>2 DEF draftMechanism, NoneClears, Preserving
      <4>4. QED
        BY <2>3, <4>1, <4>3
    <3>3. KeepStored <=> HasSecret(profile)
      BY <1>2, <3>1, <3>2, StoredIsKnown
    <3>4. CASE HasSecret(profile)
      <4>1. CredentialsMode = "preserve"
        BY <1>2, <2>1, <2>3, <3>3, <3>4, ModeFacts
      <4>2. QED
        BY <1>1, <1>4, <4>1, NewProfileFacts
    <3>5. CASE ~HasSecret(profile)
      <4>1. CredentialsMode = "replace"
        BY <1>2, <2>3, <3>3, <3>5, ModeFacts
      <4>2. QED
        BY <1>1, <1>4, <3>5, <4>1, NewProfileFacts DEF HasSecret
    <3>6. QED
      BY <3>4, <3>5
  <2>4. QED
    BY <2>2, <2>3
<1>5. QED
  BY <1>3, <1>4

\* Clearing clears.
LEMMA SaveClears ==
    ASSUME IInv, form # Closed, Save, form.clearCredentials
    PROVE  ~HasSecret(profile)' /\ profile'.mechanism = NoMechanism
<1>1. /\ profile' = NewProfile /\ family' = family /\ WellFormed(family)
      /\ NewProfile.mechanism = StoredMechanism
  BY DraftFacts, NewProfileFacts DEF Save
<1>2. form.editing /\ HasSecret(profile)
  BY DraftFacts DEF IInv, DraftInv
<1>3. family.submission.mode # Replacing
  BY <1>1, <1>2 DEF WellFormed, HasSecret
<1>4. CredentialsMode = "clear"
  BY <1>3, ModeFacts
<1>5. /\ StoredMechanism = NoMechanism
      /\ \A f \in family.secrets : NewProfile.secrets[f] = 0
  BY <1>2, <1>4, MechanismFacts, NewProfileFacts
<1>6. QED
  BY <1>1, <1>5 DEF HasSecret

\* Without an anonymous mode nothing can be saved once the stored credentials
\* are cleared and none is typed.
LEMMA FixedIsRequired ==
    ASSUME IInv, form # Closed, Save, form.clearCredentials, form.typed = {}
    PROVE  family.submission.mechanism.kind # "fixed"
<1>1. WellFormed(family) /\ ~Kept /\ family.secrets # {}
  BY DraftFacts DEF Kept, IInv, DraftInv, HasSecret
<1>2. SUFFICES ASSUME NEW r \in family.required, r.kind = "one", r.when = Always
               PROVE  FALSE
  BY <1>1 DEF WellFormed
<1>3. ~Meets(form.typed, r)
  BY <1>2 DEF Meets
<1>4. Holds(r.when, form.mechanism, form.address)
  BY <1>2 DEF Holds, Always
<1>5. QED
  BY <1>1, <1>3, <1>4 DEF Save, Valid

(***************************************************************************)
(* The invariant.                                                          *)
(***************************************************************************)

\* Editing the draft changes what is typed, the mechanism, the address or the
\* mark that clears, and nothing that is stored.
LEMMA EditStep ==
    ASSUME IInv, form # Closed, UNCHANGED <<family, profile, edits>>,
           form' \in Forms, form'.editing = form.editing,
           form'.credentialsStored = form.credentialsStored,
           form'.clearCredentials => form.credentialsStored,
           form'.mechanism \in family.form.choices \cup {family.form.first}
    PROVE  IInv'
<1>1. TypeOK'
  BY DEF IInv, TypeOK, Profiles, Forms
<1>2. ProfileInv' /\ MechanismMatchesSecrets'
  BY DEF IInv, ProfileInv, MechanismMatchesSecrets, HasSecret
<1>3. DraftInv'
  BY DEF IInv, DraftInv, HasSecret
<1>4. QED
  BY <1>1, <1>2, <1>3 DEF IInv

\* A dialog that was never opened stores nothing.
LEMMA InitIInv == Init => IInv
<1>1. SUFFICES ASSUME Init PROVE IInv
  OBVIOUS
<1>2. TypeOK
  BY <1>1, BoundsAssumption DEF Init, TypeOK
<1>3. QED
  BY <1>1, <1>2 DEF Init, IInv, DraftInv, ProfileInv, MechanismMatchesSecrets

\* Every step of the dialog keeps the invariant.
LEMMA NextIInv == IInv /\ [Next]_vars => IInv'
<1>1. SUFFICES ASSUME IInv, [Next]_vars PROVE IInv'
  OBVIOUS
<1>2. family \in Families /\ WellFormed(family) /\ edits \in 0..MaxEdits /\ MaxEdits \in Nat
  BY <1>1, FamiliesWellFormed, BoundsAssumption DEF IInv, TypeOK
<1>3. ASSUME UNCHANGED <<family, profile>>, edits' \in 0..MaxEdits,
             form' = Closed \/ form' \in Forms, DraftInv'
      PROVE  IInv'
  <2>1. TypeOK'
    BY <1>1, <1>3 DEF IInv, TypeOK, Profiles, Forms
  <2>2. ProfileInv' /\ MechanismMatchesSecrets'
    BY <1>1, <1>3 DEF IInv, ProfileInv, MechanismMatchesSecrets, HasSecret
  <2>3. QED
    BY <1>3, <2>1, <2>2 DEF IInv
<1>4. ASSUME form # Closed
      PROVE  /\ form \in Forms /\ (form.clearCredentials => form.credentialsStored)
             /\ form.mechanism \in family.form.choices \cup {family.form.first}
  BY <1>1, <1>4, DraftFacts DEF IInv, DraftInv
<1>5. CASE UNCHANGED vars
  <2>1. DraftInv'
    BY <1>1, <1>5 DEF IInv, DraftInv, HasSecret, vars
  <2>2. QED
    BY <1>1, <1>2, <1>3, <1>5, <2>1 DEF IInv, TypeOK, Forms, vars
<1>6. CASE Open
  <2> DEFINE draft == IF profile = NoProfile THEN emptyDraft ELSE toDraft(profile)
  <2>1. family' = family /\ profile' = profile /\ form' = draft
        /\ edits' \in 0..MaxEdits /\ edits' # 0
    BY <1>2, <1>6 DEF Open
  <2>2. /\ family.form.first \in Mechanisms /\ family.form.choices \subseteq Mechanisms
    BY <1>2 DEF WellFormed
  <2>3. CASE profile = NoProfile
    <3>1. form' = emptyDraft
      BY <2>1, <2>3
    <3>2. /\ emptyDraft \in Forms /\ ~emptyDraft.editing /\ ~emptyDraft.credentialsStored
          /\ ~emptyDraft.clearCredentials /\ emptyDraft.mechanism = family.form.first
      BY <2>2 DEF emptyDraft, Forms
    <3>3. DraftInv'
      BY <2>1, <2>3, <3>1, <3>2 DEF DraftInv
    <3>4. QED
      BY <1>3, <2>1, <3>1, <3>2, <3>3
  <2>4. CASE profile # NoProfile
    <3>1. form' = toDraft(profile) /\ profile \in Profiles
      BY <1>1, <2>1, <2>4 DEF IInv, TypeOK
    <3>2. /\ draftMechanism(profile) \in family.form.choices \cup {family.form.first}
          /\ draftMechanism(profile) \in Mechanisms /\ profile.address \in BOOLEAN
      BY <2>2, <3>1 DEF draftMechanism, Profiles
    <3> DEFINE stored == HasSecret(profile) /\ Holds(family.stored, profile.mechanism, TRUE)
               new == toDraft(profile)
    <3>3. stored \in BOOLEAN
      OBVIOUS
    <3>4. new = [editing |-> TRUE, typed |-> {}, mechanism |-> draftMechanism(profile),
                 address |-> profile.address, credentialsStored |-> stored,
                 clearCredentials |-> FALSE]
      BY DEF toDraft
    <3> HIDE DEF stored, new
    <3>5. /\ new \in Forms /\ new.editing /\ new.credentialsStored = stored
          /\ ~new.clearCredentials /\ new.mechanism = draftMechanism(profile)
      BY <3>2, <3>3, <3>4 DEF Forms
    <3>6. DraftInv'
      BY <2>1, <2>4, <3>1, <3>2, <3>5 DEF DraftInv, HasSecret, stored, new
    <3>7. QED
      BY <1>3, <2>1, <3>1, <3>5, <3>6 DEF new
  <2>5. QED
    BY <2>3, <2>4
<1>7. ASSUME NEW f \in family.secrets, Type(f) \/ Erase(f)
      PROVE  IInv'
  <2>1. PICK typed \in SUBSET family.secrets : form' = [form EXCEPT !.typed = typed]
    BY <1>4, <1>7 DEF Type, Erase, Forms
  <2>2. form # Closed /\ UNCHANGED <<family, profile, edits>>
    BY <1>7 DEF Type, Erase
  <2>3. /\ form' \in Forms /\ form'.editing = form.editing
        /\ form'.credentialsStored = form.credentialsStored
        /\ form'.clearCredentials = form.clearCredentials /\ form'.mechanism = form.mechanism
    BY <1>4, <2>1, <2>2 DEF Forms
  <2>4. QED
    BY <1>1, <1>4, <2>2, <2>3, EditStep
<1>8. ASSUME NEW m \in family.form.choices, ChooseMechanism(m)
      PROVE  IInv'
  <2>1. PICK typed \in SUBSET family.secrets :
          form' = [form EXCEPT !.mechanism = m, !.typed = typed]
    BY <1>4, <1>8 DEF ChooseMechanism, Forms
  <2>2. form # Closed /\ UNCHANGED <<family, profile, edits>> /\ m \in Mechanisms
    BY <1>2, <1>8 DEF ChooseMechanism, WellFormed
  <2>3. /\ form' \in Forms /\ form'.editing = form.editing
        /\ form'.credentialsStored = form.credentialsStored
        /\ form'.clearCredentials = form.clearCredentials /\ form'.mechanism = m
    BY <1>4, <2>1, <2>2 DEF Forms
  <2>4. QED
    BY <1>1, <1>4, <2>2, <2>3, EditStep
<1>9. CASE ChangeAddress
  <2>1. form # Closed /\ UNCHANGED <<family, profile, edits>>
    BY <1>9 DEF ChangeAddress
  <2>2. PICK address \in BOOLEAN : form' = [form EXCEPT !.address = address]
    BY <1>9 DEF ChangeAddress
  <2>3. /\ form' \in Forms /\ form'.editing = form.editing
        /\ form'.credentialsStored = form.credentialsStored
        /\ form'.clearCredentials = form.clearCredentials /\ form'.mechanism = form.mechanism
    BY <1>4, <2>1, <2>2 DEF Forms
  <2>4. QED
    BY <1>1, <1>4, <2>1, <2>3, EditStep
<1>10. CASE ClearCredentials
  <2>1. form # Closed /\ UNCHANGED <<family, profile, edits>> /\ form.credentialsStored
    BY <1>10 DEF ClearCredentials, Kept
  <2>2. form' = [form EXCEPT !.clearCredentials = TRUE]
    BY <1>10 DEF ClearCredentials
  <2>3. /\ form' \in Forms /\ form'.editing = form.editing
        /\ form'.credentialsStored = form.credentialsStored
        /\ form'.mechanism = form.mechanism
    BY <1>4, <2>1, <2>2 DEF Forms
  <2>4. QED
    BY <1>1, <1>4, <2>1, <2>3, EditStep
<1>11. CASE Save
  <2>1. form # Closed /\ form' = Closed /\ edits' = edits
    BY <1>11 DEF Save
  <2>2. profile' \in Profiles /\ family' = family /\ ProfileInv' /\ MechanismMatchesSecrets'
    BY <1>1, <1>11, <2>1, SaveTypes, SaveMatches
  <2>3. TypeOK' /\ DraftInv'
    BY <1>2, <2>1, <2>2 DEF TypeOK, DraftInv, Profiles
  <2>4. QED
    BY <2>2, <2>3 DEF IInv
<1>12. CASE Cancel
  BY <1>2, <1>3, <1>12 DEF Cancel, DraftInv
<1>13. QED
  BY <1>1, <1>5, <1>6, <1>7, <1>8, <1>9, <1>10, <1>11, <1>12 DEF Next, Done

\* The inductive invariant holds in every reachable state of a dialog.
THEOREM FormInvariance == Spec => []IInv
BY InitIInv, NextIInv, PTL DEF Spec

\* Types: what is stored is always a profile of its family.
THEOREM TypeCorrect == Spec => []TypeOK
<1>1. IInv => TypeOK
  BY DEF IInv
<1>2. QED
  BY <1>1, FormInvariance, PTL

\* However often a profile is edited, its mechanism agrees with its secrets.
THEOREM MechanismMatches == Spec => []MechanismMatchesSecrets
<1>1. IInv => MechanismMatchesSecrets
  BY DEF IInv
<1>2. QED
  BY <1>1, FormInvariance, PTL

\* Saving an edit stores what was typed into a field in use and keeps the secret
\* of one that was left blank, in the families that preserve, and in the others
\* if nothing was typed and the mechanism left alone (applyCredentialsMode).
THEOREM EditKeeps == Spec => EditKeepsTheRest
<1> DEFINE Keeps ==
      form # Closed /\ Save /\ form.editing /\ ~form.clearCredentials =>
        LET preserves == \/ family.submission.mode = Preserving
                         \/ /\ form.typed = {}
                            /\ form.mechanism = draftMechanism(profile)
        IN  \A f \in family.secrets : Submits(f) =>
              /\ f \in form.typed => profile'.secrets[f] = edits
              /\ preserves /\ f \notin form.typed => profile'.secrets[f] = profile.secrets[f]
<1>1. IInv => [Keeps]_vars
  BY SaveKeeps DEF Sent
<1>2. QED
  BY <1>1, FormInvariance, PTL DEF EditKeepsTheRest

\* Saving after the clear control was used, with nothing typed, leaves no secret
\* and no mechanism; a form whose mechanism is fixed does not get that far.
THEOREM ClearClears == Spec => ClearedIsGone
<1> DEFINE Gone == form # Closed /\ Save /\ form.clearCredentials /\ form.typed = {} =>
                      /\ ~HasSecret(profile)' /\ profile'.mechanism = "none"
                      /\ family.submission.mechanism.kind # "fixed"
<1>1. IInv => [Gone]_vars
  BY SaveClears, FixedIsRequired DEF NoMechanism
<1>2. QED
  BY <1>1, FormInvariance, PTL DEF ClearedIsGone
===============================================================================
