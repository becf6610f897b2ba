---------------------------- MODULE ConnectionForm ----------------------------
(***************************************************************************)
(* The connection dialog on one profile: it is opened empty or on the      *)
(* stored profile, credentials are typed, blanked, cleared, the mechanism  *)
(* and the second address are changed, and the draft is saved through the  *)
(* bridge, which resolves the secrets the form left blank against the      *)
(* stored ones.  Stored secrets are never sent back to the form: it only   *)
(* knows whether there are any.                                            *)
(*                                                                         *)
(* The value of a secret is the number of the opening in which it was      *)
(* typed; 0 is blank.                                                      *)
(***************************************************************************)
EXTENDS ConnectionForms, Naturals, FiniteSets

CONSTANTS
    MaxEdits,       \* how often the dialog is opened
    MaxTyped,       \* how many secrets are filled in at one time
    NoProfile,      \* nothing is stored yet
    Closed          \* the dialog is closed

ASSUME BoundsAssumption == MaxEdits \in Nat \ {0} /\ MaxTyped \in Nat

VARIABLES
    family,     \* the protocol of the profile
    profile,    \* what the connection service stores, or NoProfile
    form,       \* the draft in the dialog, or Closed
    edits       \* how often the dialog has been opened

vars == <<family, profile, form, edits>>

Mechanisms == {"none", "acl", "plain", "sasl-plain", "sasl-scram", "token",
               "nkey", "creds", "mtls"}
Blank(fields) == [f \in fields |-> 0]

Profiles == [secrets : [family.secrets -> 0..MaxEdits],
             mechanism : Mechanisms, address : BOOLEAN]
Forms == [editing : BOOLEAN, typed : SUBSET family.secrets,
          mechanism : Mechanisms, address : BOOLEAN,
          credentialsStored : BOOLEAN, clearCredentials : BOOLEAN]

TypeOK ==
    /\ family \in Families
    /\ profile = NoProfile \/ profile \in Profiles
    /\ form = Closed \/ form \in Forms
    /\ edits \in 0..MaxEdits

(***************************************************************************)
(* Reading and submitting a draft.                                         *)
(***************************************************************************)

HasSecret(p) == \E f \in family.secrets : p.secrets[f] # 0

\* A form that lets its user choose shows the stored mechanism; the others
\* keep none.
draftMechanism(p) ==
    IF p.mechanism \in family.form.choices THEN p.mechanism ELSE family.form.first

toDraft(p) ==
    [editing |-> TRUE, typed |-> {}, mechanism |-> draftMechanism(p),
     address |-> p.address,
     credentialsStored |-> HasSecret(p) /\ Holds(family.stored, p.mechanism, TRUE),
     clearCredentials |-> FALSE]

emptyDraft ==
    [editing |-> FALSE, typed |-> {}, mechanism |-> family.form.first,
     address |-> FALSE, credentialsStored |-> FALSE, clearCredentials |-> FALSE]

Shown(f) == Holds(family.form.shows[f], form.mechanism, form.address)
Kept == form.credentialsStored /\ ~form.clearCredentials
Submits(f) == Holds(family.submission.sends[f], form.mechanism, form.address)
Sent == {f \in form.typed : Submits(f)}

\* keepStored: Kafka and Pulsar ask for a mechanism as well.
KeepStored ==
    /\ Kept
    /\ family.submission.mode = NoneClears => form.mechanism # "none"

SubmittedMechanism_TypedOnly ==
    LET rule == family.submission.mechanism IN
    CASE rule.kind = "fixed" -> rule.of
      [] rule.kind = "chosen" -> form.mechanism
      [] OTHER -> IF Sent # {} THEN rule.of ELSE "none"

SubmittedMechanism ==
    LET rule == family.submission.mechanism IN
    CASE rule.kind = "fixed" -> rule.of
      [] rule.kind = "chosen" -> form.mechanism
      [] OTHER -> IF Sent # {} \/ KeepStored THEN rule.of ELSE "none"

CredentialsMode_NeverClears ==
    LET rule == family.submission.mode IN
    IF \/ rule = Preserving /\ KeepStored
       \/ rule \in {TypedReplaces, NoneClears} /\ Sent = {} /\ KeepStored
    THEN "preserve"
    ELSE "replace"

CredentialsMode ==
    LET rule == family.submission.mode IN
    CASE rule = Replacing -> "replace"
      [] rule # Replacing /\ form.clearCredentials -> "clear"
      [] rule = NoneClears /\ form.mechanism = "none" -> "clear"
      [] rule = Preserving /\ KeepStored -> "preserve"
      [] rule \in {TypedReplaces, NoneClears} /\ Sent = {} /\ KeepStored -> "preserve"
      [] OTHER -> "replace"

\* draftInvalidReason: whether the draft meets a requirement.
Meets(filled, requirement) ==
    CASE requirement.kind = "one" -> filled \cap requirement.fields # {}
      [] requirement.kind = "pair" ->
            requirement.fields \subseteq filled \/ filled \cap requirement.fields = {}
      [] requirement.kind = "then" ->
            requirement.fields \subseteq filled => requirement.other \in filled

Valid ==
    \A r \in family.required :
        Holds(r.when, form.mechanism, form.address) => Kept \/ Meets(form.typed, r)

(***************************************************************************)
(* The bridge and the connection service.                                  *)
(***************************************************************************)

\* What a submission holds: the typed fields, blank for all the others.
Submitted_OnlyTyped == [f \in Sent |-> edits]

Submitted == [f \in family.secrets |-> IF f \in Sent THEN edits ELSE 0]

\* A new connection is added as submitted, whatever its mode.
applyCredentialsMode_Forgets(secrets, mode) ==
    IF mode = "clear" THEN Blank(family.secrets) ELSE secrets

applyCredentialsMode(secrets, mode) ==
    CASE form.editing /\ mode = "preserve" ->
            [f \in family.secrets |->
                IF secrets[f] = 0 THEN profile.secrets[f] ELSE secrets[f]]
      [] form.editing /\ mode = "clear" -> Blank(family.secrets)
      [] OTHER -> secrets

StoredMechanism ==
    IF form.editing /\ CredentialsMode = "clear" THEN "none" ELSE SubmittedMechanism

NewProfile ==
    [secrets |-> applyCredentialsMode(Submitted, CredentialsMode),
     mechanism |-> StoredMechanism,
     address |-> form.address]

\* normalizeACLConfig refuses half a pair.
Accepted ==
    NewProfile.mechanism = "acl" => \A f \in family.secrets : NewProfile.secrets[f] # 0

-----------------------------------------------------------------------------
(***************************************************************************)
(* The dialog.                                                             *)
(***************************************************************************)

Init ==
    /\ family \in Families
    /\ profile = NoProfile
    /\ form = Closed
    /\ edits = 0

\* The dialog starts from what it is opened on.
Open ==
    /\ form = Closed
    /\ edits < MaxEdits
    /\ edits' = edits + 1
    /\ form' = IF profile = NoProfile THEN emptyDraft ELSE toDraft(profile)
    /\ UNCHANGED <<family, profile>>

Type(f) ==
    /\ form # Closed
    /\ Shown(f)
    /\ f \notin form.typed
    /\ Cardinality(form.typed) < MaxTyped
    /\ form' = [form EXCEPT !.typed = @ \cup {f}]
    /\ UNCHANGED <<family, profile, edits>>

Erase(f) ==
    /\ form # Closed
    /\ Shown(f)
    /\ f \in form.typed
    /\ form' = [form EXCEPT !.typed = @ \ {f}]
    /\ UNCHANGED <<family, profile, edits>>

\* Choosing a mechanism blanks the fields it does not use.
ChooseMechanism(m) ==
    /\ form # Closed
    /\ m \in family.form.choices \ {form.mechanism}
    /\ form' = [form EXCEPT
                   !.mechanism = m,
                   !.typed = {f \in @ : \/ family.form.shows[f].any
                                        \/ m \in family.form.shows[f].mechanisms}]
    /\ UNCHANGED <<family, profile, edits>>

\* The second address is filled in or blanked; what was typed beside it stays.
ChangeAddress ==
    /\ form # Closed
    /\ \E f \in family.secrets : family.form.shows[f].addressed
    /\ form' = [form EXCEPT !.address = ~@]
    /\ UNCHANGED <<family, profile, edits>>

\* The control is drawn beside a field, while there is something to clear.
ClearCredentials ==
    /\ form # Closed
    /\ Kept
    /\ \E f \in family.form.clearBeside : Shown(f)
    /\ form' = [form EXCEPT !.clearCredentials = TRUE]
    /\ UNCHANGED <<family, profile, edits>>

Save ==
    /\ form # Closed
    /\ Valid
    /\ Accepted
    /\ profile' = NewProfile
    /\ form' = Closed
    /\ UNCHANGED <<family, edits>>

\* A save that is refused or fails leaves the dialog open, the draft in it,
\* and the stored profile as it was; so does a probe.  Closing drops the draft.
Cancel ==
    /\ form # Closed
    /\ form' = Closed
    /\ UNCHANGED <<family, profile, edits>>

\* Everything that can be done has been done.
Done ==
    /\ form = Closed
    /\ edits = MaxEdits
    /\ UNCHANGED vars

Next ==
    \/ Open
    \/ \E f \in family.secrets : Type(f) \/ Erase(f)
    \/ \E m \in family.form.choices : ChooseMechanism(m)
    \/ ChangeAddress
    \/ ClearCredentials
    \/ Save
    \/ Cancel
    \/ Done

Spec == Init /\ [][Next]_vars

-----------------------------------------------------------------------------
(***************************************************************************)
(* What a form promises.                                                   *)
(***************************************************************************)

\* The fields in use: saving an edit stores what was typed into them.  One left
\* blank, under "Saved - leave blank to keep it", keeps its secret in the
\* families that preserve, whatever else was typed (the comment above
\* mqttSubmission), and in the others if nothing was typed and the mechanism is
\* the stored one.  Of the fields whose mechanism or address is off this says
\* nothing: see OffIsDropped.
EditKeepsTheRest ==
    [][ form # Closed /\ Save /\ form.editing /\ ~form.clearCredentials =>
        LET preserves == \/ family.submission.mode = Preserving
                         \/ /\ form.typed = {}
                            /\ form.mechanism = draftMechanism(profile)
        IN  \A f \in family.secrets : Submits(f) =>
              /\ f \in form.typed => profile'.secrets[f] = edits
              /\ preserves /\ f \notin form.typed => profile'.secrets[f] = profile.secrets[f]
      ]_vars

\* Once the clear control was used and nothing typed, saving leaves no secret
\* behind and the profile anonymous, whatever mechanism is chosen and whatever
\* the form counted as stored.  RabbitMQ, which has no anonymous mode, cannot be
\* saved like that.  Credentials typed after the clear control are outside: the
\* mode covers the whole connection and drops them (CredentialsAsShown).
ClearedIsGone ==
    [][ form # Closed /\ Save /\ form.clearCredentials /\ form.typed = {} =>
        /\ ~HasSecret(profile)' /\ profile'.mechanism = "none"
        /\ family.submission.mechanism.kind # "fixed" ]_vars

\* However a profile was edited, its mechanism agrees with its secrets: where
\* the mechanism is inferred the profile signs exactly when it has something to
\* sign with, a RocketMQ profile with ACL has both keys, and an anonymous Kafka
\* or Pulsar profile has no credential that would come back the day somebody
\* chooses a mechanism again.
MechanismMatchesSecrets ==
    profile # NoProfile =>
        /\ family.submission.mechanism.kind = "inferred" =>
              (profile.mechanism # "none" <=> HasSecret(profile))
        /\ profile.mechanism = "acl" =>
              \A f \in family.secrets : profile.secrets[f] # 0
        /\ family.submission.mode = NoneClears /\ profile.mechanism = "none" =>
              ~HasSecret(profile)

\* What the form says of itself: a field it shows is stored as typed, and one
\* it shows as "Saved - leave blank to keep it" keeps its secret when blank.
CredentialsAsShown ==
    [][ form # Closed /\ Save /\ form.editing =>
        \A f \in family.secrets : Shown(f) =>
            /\ f \in form.typed => profile'.secrets[f] = edits
            /\ f \notin form.typed /\ Kept => profile'.secrets[f] = profile.secrets[f]
      ]_vars

\* What the comments of the submissions say of a credential whose mechanism or
\* address was turned off: "Dropped with the address they belong to: keeping
\* them would re-apply them the day somebody fills the acceptor back in".  The
\* field is submitted blank, and preserving fills it again.
OffIsDropped ==
    [][ form # Closed /\ Save /\ form.editing =>
        \A f \in family.secrets : ~Submits(f) => profile'.secrets[f] = 0 ]_vars

-----------------------------------------------------------------------------
(***************************************************************************)
(* The inductive invariant.                                                *)
(***************************************************************************)

\* While the dialog is open nobody else changes the profile: what the draft was
\* told of the stored credentials stays true.
DraftInv ==
    form # Closed =>
        /\ edits # 0
        /\ form.editing <=> profile # NoProfile
        /\ form.credentialsStored <=>
              /\ profile # NoProfile
              /\ HasSecret(profile) /\ Holds(family.stored, profile.mechanism, TRUE)
        /\ form.clearCredentials => form.credentialsStored
        /\ form.mechanism \in family.form.choices \cup {family.form.first}

\* A stored mechanism is one the form could have submitted.
ProfileInv ==
    profile # NoProfile =>
        /\ family.submission.mechanism.kind = "inferred" =>
              profile.mechanism \in {NoMechanism, family.submission.mechanism.of}
        /\ family.submission.mechanism.kind = "chosen" =>
              profile.mechanism \in {NoMechanism} \cup family.form.choices

IInv == TypeOK /\ DraftInv /\ ProfileInv /\ MechanismMatchesSecrets
=============================================================================
