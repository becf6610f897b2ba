----------------------------- MODULE BoardDialog -----------------------------
(***************************************************************************)
(* One dialog of a board at work.  Most stay mounted while they are        *)
(* closed: an effect fills the draft when it opens, `busy' disables its    *)
(* button while a submission runs, and nothing but its user and the end of *)
(* a submission closes it.  No dialog refuses to close while it is busy,   *)
(* so a submission may end when the dialog is closed or open again,        *)
(* perhaps on another entry; the board around it renders with new rows at  *)
(* any time.  A dialog that is rendered for an entry only loses its state  *)
(* with that entry; the submissions it leaves behind are its orphans.      *)
(*                                                                         *)
(* A draft is the entry it was filled from (0 for the empty form), the     *)
(* opening in which that happened and what its user has typed since: into  *)
(* the fields that are locked while an entry is edited, or into the rest.  *)
(* What a form refuses to submit is left out: any draft may be valid.      *)
(***************************************************************************)
EXTENDS BoardShapes, Naturals, FiniteSets

CONSTANTS
    Dialogs,        \* the dialogs, as DialogControl describes them
    Entries,        \* numbers of the entries
    MaxOpenings,    \* how often the dialog is opened
    MaxCalls        \* submissions under way

ASSUME BoundsAssumption ==
    /\ Entries \subseteq Nat \ {0}
    /\ {MaxOpenings, MaxCalls} \subseteq Nat

Shapes ==
    [watch : {Never, OnSent, OnMount, OnOpen, OnSubject, OnData, OnRender},
     fresh : BOOLEAN, subject : {Creates, Held, Derived, Chosen, Found, Selected},
     closing : [early : BOOLEAN, late : BOOLEAN, awaits : BOOLEAN],
     locks : BOOLEAN, header : BOOLEAN, entry : BOOLEAN]

\* A dialog that clears its draft when it has been sent closes at that moment.
ASSUME DialogsAssumption ==
    \A d \in Dialogs : d \in Shapes /\ (d.watch = OnSent => d.closing.late)

VARIABLES
    dialog,     \* the shape of this dialog
    rows,       \* the entries the board shows
    open,       \* the flag of the board that opens it
    openings,   \* how often it has been opened
    target,     \* the entry it was opened on or selected; 0 for none
    draft,      \* the form
    busy,       \* the button is disabled
    calls       \* submissions under way

vars == <<dialog, rows, open, openings, target, draft, busy, calls>>

DialogControl(b, name) ==
    LET op == b.ops[name] IN
    [watch |-> op.dialog.watch, fresh |-> op.dialog.fresh,
     subject |-> op.subject, closing |-> op.closing,
     locks |-> op.dialog.fields.locked # {},
     header |-> name \in DOMAIN b.header, entry |-> name \in DOMAIN b.offers]

FilledOps(b) == {name \in DOMAIN b.ops : b.ops[name].via = "dialog"}

-----------------------------------------------------------------------------
Blank == [from |-> 0, during |-> 0, typed |-> {}]

\* The row behind the dialog at a render.
SubjectOf(e, shown) ==
    IF dialog.subject = Derived /\ e \notin shown THEN 0 ELSE e

\* The dialogs the board renders for an entry that is there, and no longer than
\* that; one of them only while its flag is up.
Vanishing == dialog.subject \in {Chosen, Found}

Mounted(e, shown, up) ==
    Vanishing => e \in shown /\ (dialog.subject = Found => up)

Copies == dialog.watch \notin {Never, OnSent}

\* The effect that fills the draft, for the opening and the rows of a step.
Fill(isBusy) ==
    /\ draft' = IF Copies THEN [from |-> SubjectOf(target', rows'),
                                during |-> openings', typed |-> {}]
                ELSE draft
    /\ busy' = (isBusy /\ ~dialog.fresh)

\* The effect runs again when a dependency has a new identity.
Watches ==
    \/ dialog.watch \in {OnData, OnRender}
    \/ dialog.watch = OnSubject /\ dialog.subject = Derived /\ target # 0

\* What a step leaves of the form: a dialog that is not rendered any more
\* forgets its draft, and the submissions it has made no longer reach it.
Keep(isBusy) ==
    IF Mounted(target', rows', open') THEN draft' = draft /\ busy' = isBusy
    ELSE draft' = Blank /\ busy' = FALSE

Orphaned(running) ==
    IF Mounted(target', rows', open') THEN running
    ELSE {[c EXCEPT !.orphan = TRUE] : c \in running}

\* The board renders with new rows; an open dialog may be back, or fill again.
Rendered(isBusy) ==
    IF ~open \/ ~Mounted(target', rows', open') THEN Keep(isBusy)
    ELSE IF ~Mounted(target, rows, open) THEN Fill(FALSE)
    ELSE IF Watches THEN Fill(isBusy)
    ELSE Keep(isBusy)

-----------------------------------------------------------------------------
Init ==
    /\ dialog \in Dialogs
    /\ rows = Entries
    /\ open = FALSE
    /\ openings = 0
    /\ target = 0
    /\ draft = Blank
    /\ busy = FALSE
    /\ calls = {}

Open_NoFill(e) ==
    /\ ~open
    /\ openings < MaxOpenings
    /\ \/ e = 0 /\ dialog.header /\ ~Vanishing
       \/ e \in rows /\ dialog.entry /\ dialog.subject # Creates
          /\ (dialog.subject = Chosen => e = target)
    /\ open' = TRUE
    /\ openings' = openings + 1
    /\ target' = e
    /\ UNCHANGED <<dialog, rows, calls>>
    /\ IF openings = 0 \/ dialog.watch # OnSubject THEN Fill(busy)
       ELSE UNCHANGED <<draft, busy>>

Open(e) ==
    /\ ~open
    /\ openings < MaxOpenings
    /\ \/ e = 0 /\ dialog.header /\ ~Vanishing
       \/ e \in rows /\ dialog.entry /\ dialog.subject # Creates
          /\ (dialog.subject = Chosen => e = target)
    /\ open' = TRUE
    /\ openings' = openings + 1
    /\ target' = e
    /\ UNCHANGED <<dialog, rows, calls>>
    /\ Fill(busy)

\* Another entry, or none, is chosen on the board.  When the entry of an open
\* dialog was gone, its flag is still up and it opens on the one that is chosen
\* next.
Choose(e) ==
    /\ Vanishing
    /\ e # target
    /\ IF open THEN ~Mounted(target, rows, open) /\ e \in rows
       ELSE dialog.subject = Chosen /\ e \in {0} \cup rows
    /\ target' = e
    /\ UNCHANGED <<dialog, rows, open, openings>>
    /\ calls' = Orphaned(calls)
    /\ IF open THEN Fill(FALSE) ELSE Keep(busy)

\* The selection behind an open dialog is cleared, by a deletion that ends.
Deselect ==
    /\ dialog.subject = Selected
    /\ open
    /\ target # 0
    /\ target' = 0
    /\ UNCHANGED <<dialog, rows, open, openings, draft, busy, calls>>

Type(field) ==
    /\ open
    /\ Mounted(target, rows, open)
    /\ field = "locked" => dialog.locks /\ SubjectOf(target, rows) = 0
    /\ draft' = [draft EXCEPT !.typed = @ \cup {field}]
    /\ UNCHANGED <<dialog, rows, open, openings, target, busy, calls>>

Cancel ==
    /\ open
    /\ Mounted(target, rows, open)
    /\ open' = FALSE
    /\ UNCHANGED <<dialog, rows, openings, target>>
    /\ calls' = Orphaned(calls)
    /\ Keep(busy)

Submission == [opening |-> openings, target |-> target, draft |-> draft,
               sent |-> FALSE, orphan |-> FALSE]

\* What a submission does: the draft is sent as it is, and the button is
\* disabled from now on.  Without the selection it is about, nothing is sent
\* and the dialog closes.
Send ==
    IF dialog.subject = Selected /\ target = 0
    THEN open' = FALSE /\ UNCHANGED <<busy, calls>>
    ELSE /\ Cardinality(calls) < MaxCalls
         /\ busy' = TRUE
         /\ calls' = calls \cup {Submission}
         /\ UNCHANGED open

Submit_Unguarded ==
    /\ open
    /\ Mounted(target, rows, open)
    /\ Send
    /\ UNCHANGED <<dialog, rows, openings, target, draft>>

Submit ==
    /\ open
    /\ ~busy
    /\ Mounted(target, rows, open)
    /\ Send
    /\ UNCHANGED <<dialog, rows, openings, target, draft>>

\* The broker has carried a submission out.  The dialog closes, or the board
\* first waits for the refresh.
Return(c) ==
    /\ ~c.sent
    /\ UNCHANGED <<dialog, rows, openings, target>>
    /\ IF dialog.closing.awaits
       THEN /\ open' = (open /\ ~dialog.closing.early)
            /\ calls' = Orphaned((calls \ {c}) \cup {[c EXCEPT !.sent = TRUE]})
            /\ Keep(busy)
       ELSE /\ open' = FALSE
            /\ calls' = Orphaned(calls \ {c})
            /\ Keep(busy /\ c.orphan)

\* The refresh has rendered the board; then the dialog closes, if the end of
\* the submission is what closes it, and is idle.
Finish(c) ==
    /\ c.sent
    /\ rows' \in SUBSET Entries
    /\ open' = (open /\ ~dialog.closing.late)
    /\ UNCHANGED <<dialog, openings, target>>
    /\ calls' = Orphaned(calls \ {c})
    /\ IF dialog.watch = OnSent /\ ~c.orphan
       THEN draft' = Blank /\ busy' = FALSE
       ELSE Rendered(busy /\ c.orphan)

\* The error is shown in the dialog, which stays as it is.
Fail(c) ==
    /\ ~c.sent
    /\ calls' = calls \ {c}
    /\ busy' = (busy /\ c.orphan)
    /\ UNCHANGED <<dialog, rows, open, openings, target, draft>>

\* The interval, or any other refresh of the board.
Refresh ==
    /\ rows' \in SUBSET Entries
    /\ UNCHANGED <<dialog, open, openings, target>>
    /\ calls' = Orphaned(calls)
    /\ Rendered(busy)

Next ==
    \/ \E e \in {0} \cup Entries : Open(e)
    \/ \E e \in {0} \cup Entries : Choose(e)
    \/ \E field \in {"locked", "free"} : Type(field)
    \/ Deselect \/ Cancel \/ Submit \/ Refresh
    \/ \E c \in calls : Return(c) \/ Finish(c) \/ Fail(c)

Spec == Init /\ [][Next]_vars

-----------------------------------------------------------------------------
Drafts == [from : {0} \cup Entries, during : 0..MaxOpenings,
           typed : SUBSET {"locked", "free"}]

Submissions == [opening : 0..MaxOpenings, target : {0} \cup Entries, draft : Drafts,
                sent : BOOLEAN, orphan : BOOLEAN]

TypeOK ==
    /\ dialog \in Dialogs
    /\ rows \subseteq Entries
    /\ openings \in 0..MaxOpenings
    /\ target \in {0} \cup Entries
    /\ draft \in Drafts
    /\ open \in BOOLEAN /\ busy \in BOOLEAN
    /\ calls \subseteq Submissions

\* Every submission carries a draft that was filled in the opening it was sent
\* from and for the entry it is about, with the locked fields of that entry as
\* they are, whatever was typed into the dialog, or submitted from it, in
\* earlier openings.  The dialogs that never copy, and those that look a row
\* up which may be gone, are outside this property.
SubmittedIsTyped ==
    Copies /\ dialog.subject # Derived =>
        \A c \in calls : /\ c.draft.during = c.opening
                         /\ c.draft.from = c.target
                         /\ c.target # 0 => "locked" \notin c.draft.typed

\* The submissions whose end reaches the dialog.
Own == {c \in calls : ~c.orphan}

\* A dialog that does not declare itself idle when it opens has at most one
\* submission under way of its own, even when it is closed and opened again
\* before the first one has ended: the button stays disabled until then.  Only
\* a dialog that was taken away with its entry, or by closing it, can have an
\* earlier one running beside it.  And no dialog, idle at its opening or not,
\* is busy without a submission of its own that will set it idle.
OneAtATime ==
    /\ ~dialog.fresh => Cardinality(Own) <= 1
    /\ ~Vanishing => Own = calls
    /\ busy => Own # {}

-----------------------------------------------------------------------------
(***************************************************************************)
(* The inductive invariant.                                                *)
(***************************************************************************)

\* The draft of an open dialog is the one its opening filled, unless the
\* selection it is about is gone, when it cannot be sent.
DraftInv ==
    Copies /\ dialog.subject # Derived /\ open /\ Mounted(target, rows, open)
    /\ (dialog.subject = Selected => target # 0) =>
        /\ draft.during = openings
        /\ draft.from = target
        /\ target # 0 => "locked" \notin draft.typed

\* Only a dialog that can vanish leaves a submission behind, and one that has
\* vanished leaves them all; one that is never declared idle by its effect is
\* busy as long as its own submission runs.
BusyInv ==
    /\ ~Mounted(target, rows, open) => Own = {}
    /\ ~Vanishing => Own = calls
    /\ ~dialog.fresh => /\ \A c, d \in Own : c = d
                        /\ Own # {} => busy
    /\ busy => Own # {}

IInv == TypeOK /\ DraftInv /\ BusyInv /\ SubmittedIsTyped
=============================================================================
