-------------------------- MODULE BoardDialogProofs --------------------------
(***************************************************************************)
(* Proofs about BoardDialog, for every set of dialogs, any number of       *)
(* entries, openings and submissions.                                      *)
(***************************************************************************)
EXTENDS BoardDialog, FiniteSetTheorems, TLAPS

\* What the steps use of the shape of a dialog.
LEMMA ShapeFacts ==
    ASSUME TypeOK
    PROVE  /\ dialog.fresh \in BOOLEAN
           /\ dialog.closing.early \in BOOLEAN
           /\ dialog.closing.late \in BOOLEAN
           /\ dialog.closing.awaits \in BOOLEAN
           /\ dialog.watch = OnSent => dialog.closing.late
BY DialogsAssumption DEF TypeOK, Shapes

LEMMA BlankType == Blank \in Drafts
BY BoundsAssumption DEF Blank, Drafts

\* What the filling effect leaves.
LEMMA FillFacts ==
    ASSUME TypeOK, NEW isBusy \in BOOLEAN, Fill(isBusy),
           target' \in {0} \cup Entries, openings' \in 0..MaxOpenings,
           dialog' = dialog
    PROVE  /\ draft' \in Drafts
           /\ busy' \in BOOLEAN
           /\ busy' => isBusy
           /\ ~dialog.fresh /\ isBusy => busy'
           /\ Copies /\ dialog.subject # Derived =>
                /\ draft'.from = target'
                /\ draft'.during = openings'
                /\ draft'.typed = {}
<1>1. SubjectOf(target', rows') \in {0} \cup Entries
  BY DEF SubjectOf
<1>2. dialog.subject # Derived => SubjectOf(target', rows') = target'
  BY DEF SubjectOf
<1>3. draft' = IF Copies THEN [from |-> SubjectOf(target', rows'),
                               during |-> openings', typed |-> {}]
               ELSE draft
  BY DEF Fill
<1>4. draft' \in Drafts
  BY <1>1, <1>3 DEF Drafts, TypeOK
<1>5. busy' = (isBusy /\ ~dialog.fresh)
  BY DEF Fill
<1>6. busy' \in BOOLEAN /\ (busy' => isBusy) /\ (~dialog.fresh /\ isBusy => busy')
  BY <1>5, ShapeFacts
<1>7. QED
  BY <1>2, <1>3, <1>4, <1>6

\* Nothing but the shape of the dialog decides how a state is read.
LEMMA MountedNext ==
    ASSUME dialog' = dialog
    PROVE  /\ Mounted(target, rows, open)' = Mounted(target', rows', open')
           /\ Vanishing' = Vanishing
BY DEF Mounted, Vanishing

\* What a step that only closes, or takes the dialog away, leaves.
LEMMA KeepFacts ==
    ASSUME TypeOK, DraftInv, NEW isBusy \in BOOLEAN, Keep(isBusy),
           UNCHANGED <<dialog, openings, target>>,
           open' => open /\ (Mounted(target', rows', open') => Mounted(target, rows, open))
    PROVE  /\ draft' \in Drafts
           /\ busy' = (isBusy /\ Mounted(target', rows', open'))
           /\ DraftInv'
<1>1. CASE Mounted(target', rows', open')
  <2>1. draft' = draft /\ busy' = isBusy
    BY <1>1 DEF Keep
  <2>2. DraftInv'
    BY <1>1, <2>1 DEF DraftInv, Copies
  <2>3. QED
    BY <1>1, <2>1, <2>2 DEF TypeOK
<1>2. CASE ~Mounted(target', rows', open')
  <2>1. draft' = Blank /\ busy' = FALSE
    BY <1>2 DEF Keep
  <2>2. DraftInv'
    BY <1>2 DEF DraftInv, Mounted, Vanishing
  <2>3. QED
    BY <1>2, <2>1, <2>2, BlankType
<1>3. QED
  BY <1>1, <1>2

\* A render keeps the types, and an open dialog's draft is kept or filled; one
\* that comes back comes back idle.
LEMMA RenderFacts ==
    ASSUME TypeOK, DraftInv, NEW isBusy \in BOOLEAN, Rendered(isBusy),
           rows' \subseteq Entries, UNCHANGED <<dialog, openings, target>>,
           open' = TRUE => open
    PROVE  /\ draft' \in Drafts
           /\ busy' \in BOOLEAN
           /\ busy' => isBusy /\ Mounted(target', rows', open')
           /\ ~dialog.fresh /\ isBusy /\ Mounted(target', rows', open')
              /\ Mounted(target, rows, open) => busy'
           /\ DraftInv'
<1>0. open \in BOOLEAN /\ target' \in {0} \cup Entries /\ openings' \in 0..MaxOpenings
  BY DEF TypeOK
<1>1. CASE ~open /\ Keep(isBusy)
  <2>1. ~open \/ Mounted(target, rows, open) \/ ~Mounted(target', rows', open')
    BY <1>1
  <2>2. CASE open'
    BY <1>1, <2>2, <1>0 DEF TypeOK
  <2>3. CASE ~open'
    BY <1>1, <2>3, KeepFacts
  <2>4. QED
    BY <2>2, <2>3
<1>2. CASE (~Mounted(target', rows', open') \/ Mounted(target, rows, open)) /\ open
           /\ Keep(isBusy)
  BY <1>2, KeepFacts
<1>3. ASSUME Mounted(target', rows', open'), NEW b \in BOOLEAN, Fill(b), b => isBusy,
             Mounted(target, rows, open) => b = isBusy
      PROVE  /\ draft' \in Drafts
             /\ busy' \in BOOLEAN
             /\ busy' => isBusy /\ Mounted(target', rows', open')
             /\ ~dialog.fresh /\ isBusy /\ Mounted(target', rows', open')
                /\ Mounted(target, rows, open) => busy'
             /\ DraftInv'
  <2>1. /\ draft' \in Drafts
        /\ busy' \in BOOLEAN
        /\ busy' => b
        /\ ~dialog.fresh /\ b => busy'
        /\ Copies /\ dialog.subject # Derived =>
             /\ draft'.from = target'
             /\ draft'.during = openings'
             /\ draft'.typed = {}
    BY <1>0, <1>3, FillFacts
  <2>2. DraftInv'
    BY <2>1 DEF DraftInv, Copies
  <2>3. QED
    BY <1>3, <2>1, <2>2
<1>4. CASE open /\ Mounted(target', rows', open') /\ ~Mounted(target, rows, open)
  <2>1. Fill(FALSE)
    BY <1>4 DEF Rendered
  <2>2. QED
    BY <1>3, <1>4, <2>1
<1>5. CASE open /\ Mounted(target', rows', open') /\ Mounted(target, rows, open) /\ Watches
  <2>1. Fill(isBusy)
    BY <1>5 DEF Rendered
  <2>2. QED
    BY <1>3, <1>5, <2>1
<1>6. QED
  BY <1>0, <1>1, <1>2, <1>4, <1>5 DEF Rendered

\* The submissions after a render are the ones before it, or orphans of them.
LEMMA OrphanFacts ==
    ASSUME NEW running \in SUBSET Submissions
    PROVE  /\ Orphaned(running) \subseteq Submissions
           /\ Mounted(target', rows', open') => Orphaned(running) = running
           /\ ~Mounted(target', rows', open') => \A d \in Orphaned(running) : d.orphan
           /\ \A d \in Orphaned(running) : \E c \in running :
                d.opening = c.opening /\ d.target = c.target /\ d.draft = c.draft
<1>1. ASSUME NEW c \in running
      PROVE  LET d == [c EXCEPT !.orphan = TRUE]
             IN  /\ d \in Submissions /\ d.orphan
                 /\ d.opening = c.opening /\ d.target = c.target /\ d.draft = c.draft
  BY DEF Submissions
<1>2. CASE Mounted(target', rows', open')
  BY <1>2 DEF Orphaned
<1>3. CASE ~Mounted(target', rows', open')
  <2>1. Orphaned(running) = {[c EXCEPT !.orphan = TRUE] : c \in running}
    BY <1>3 DEF Orphaned
  <2>2. QED
    BY <1>1, <1>3, <2>1
<1>4. QED
  BY <1>2, <1>3

\* A step that sends nothing new sends nothing wrong.
LEMMA NothingNew ==
    ASSUME SubmittedIsTyped, dialog' = dialog,
           \A d \in calls' : \E c \in calls :
              d.opening = c.opening /\ d.target = c.target /\ d.draft = c.draft
    PROVE  SubmittedIsTyped'
BY DEF SubmittedIsTyped, Copies

\* The board opens the dialog on an entry, or empty.
LEMMA OpenStep ==
    ASSUME IInv, NEW e \in {0} \cup Entries, Open(e)
    PROVE  IInv'
<1> USE DEF IInv
<1>1. /\ ~open /\ open' = TRUE
      /\ openings' = openings + 1 /\ openings < MaxOpenings
      /\ target' = e
      /\ UNCHANGED <<dialog, rows, calls>>
      /\ Fill(busy)
  BY DEF Open
<1>2. openings' \in 0..MaxOpenings /\ target' \in {0} \cup Entries
  BY <1>1, BoundsAssumption DEF TypeOK
<1>3. /\ draft' \in Drafts
      /\ busy' \in BOOLEAN
      /\ busy' => busy
      /\ ~dialog.fresh /\ busy => busy'
      /\ Copies /\ dialog.subject # Derived =>
           /\ draft'.from = target'
           /\ draft'.during = openings'
           /\ draft'.typed = {}
  BY <1>1, <1>2, FillFacts DEF TypeOK
<1>4. TypeOK'
  BY <1>1, <1>2, <1>3 DEF TypeOK
<1>5. DraftInv'
  BY <1>1, <1>3 DEF DraftInv, Copies
<1>6. BusyInv'
  <2>1. Vanishing' = Vanishing /\ Own' = Own
    BY <1>1 DEF Vanishing, Own
  <2>2. ~Mounted(target', rows', open') => Own = {}
    BY <1>1 DEF Open, Mounted, Vanishing, BusyInv
  <2>3. QED
    BY <1>1, <1>3, <2>1, <2>2, MountedNext DEF BusyInv
<1>7. SubmittedIsTyped'
  BY <1>1, NothingNew
<1>8. QED
  BY <1>4, <1>5, <1>6, <1>7

\* Another entry is chosen on the board.
LEMMA ChooseStep ==
    ASSUME IInv, NEW e \in {0} \cup Entries, Choose(e)
    PROVE  IInv'
<1> USE DEF IInv
<1>1. /\ Vanishing
      /\ IF open THEN ~Mounted(target, rows, open) /\ e \in rows
         ELSE dialog.subject = Chosen /\ e \in {0} \cup rows
      /\ target' = e
      /\ UNCHANGED <<dialog, rows, open, openings>>
      /\ calls' = Orphaned(calls)
      /\ IF open THEN Fill(FALSE) ELSE Keep(busy)
  BY DEF Choose
<1>2. openings' \in 0..MaxOpenings /\ target' \in {0} \cup Entries
      /\ open \in BOOLEAN /\ calls \subseteq Submissions /\ Vanishing'
  BY <1>1 DEF TypeOK, Vanishing
<1>3. /\ calls' \subseteq Submissions
      /\ Mounted(target', rows', open') => calls' = calls
      /\ ~Mounted(target', rows', open') => \A d \in calls' : d.orphan
      /\ \A d \in calls' : \E c \in calls :
           d.opening = c.opening /\ d.target = c.target /\ d.draft = c.draft
  BY <1>1, <1>2, OrphanFacts
<1>4. SubmittedIsTyped'
  BY <1>1, <1>3, NothingNew
<1>5. CASE open
  <2>1. /\ draft' \in Drafts
        /\ busy' \in BOOLEAN
        /\ ~busy'
        /\ Copies /\ dialog.subject # Derived =>
             /\ draft'.from = target'
             /\ draft'.during = openings'
             /\ draft'.typed = {}
    BY <1>1, <1>2, <1>5, FillFacts DEF TypeOK
  <2>2. TypeOK'
    BY <1>1, <1>2, <1>3, <2>1 DEF TypeOK
  <2>3. DraftInv'
    BY <1>1, <2>1 DEF DraftInv, Copies
  <2>4. Own' = {}
    BY <1>1, <1>3, <1>5 DEF BusyInv, Own
  <2>5. BusyInv'
    BY <1>2, <2>1, <2>4 DEF BusyInv
  <2>6. QED
    BY <1>4, <2>2, <2>3, <2>5
<1>6. CASE ~open
  <2>1. DraftInv'
    BY <1>1, <1>6 DEF DraftInv
  <2>2. CASE Mounted(target', rows', open')
    <3>1. draft' = draft /\ busy' = busy /\ calls' = calls
      BY <1>1, <1>3, <1>6, <2>2 DEF Keep
    <3>2. TypeOK' /\ BusyInv'
      BY <1>1, <1>2, <2>2, <3>1, MountedNext DEF TypeOK, BusyInv, Own
    <3>3. QED
      BY <1>4, <2>1, <3>2
  <2>3. CASE ~Mounted(target', rows', open')
    <3>1. draft' = Blank /\ busy' = FALSE
      BY <1>1, <1>6, <2>3 DEF Keep
    <3>2. Own' = {}
      BY <1>3, <2>3 DEF Own
    <3>3. TypeOK' /\ BusyInv'
      BY <1>1, <1>2, <1>3, <3>1, <3>2, BlankType DEF TypeOK, BusyInv
    <3>4. QED
      BY <1>4, <2>1, <3>3
  <2>4. QED
    BY <2>2, <2>3
<1>7. QED
  BY <1>2, <1>5, <1>6

\* The selection is cleared under the dialog.
LEMMA DeselectStep ==
    ASSUME IInv, Deselect
    PROVE  IInv'
<1> USE DEF IInv
<1>1. /\ dialog.subject = Selected /\ target' = 0
      /\ UNCHANGED <<dialog, rows, open, openings, draft, busy, calls>>
  BY DEF Deselect
<1>2. ~Vanishing /\ ~Vanishing' /\ Mounted(target', rows', open')
  BY <1>1 DEF Vanishing, Mounted, Selected, Chosen, Found
<1>3. TypeOK'
  BY <1>1 DEF TypeOK
<1>4. DraftInv'
  BY <1>1 DEF DraftInv
<1>5. BusyInv'
  BY <1>1, <1>2, MountedNext DEF BusyInv, Own
<1>6. SubmittedIsTyped'
  BY <1>1, NothingNew
<1>7. QED
  BY <1>3, <1>4, <1>5, <1>6

\* The user types; a locked field only while nothing is edited.
LEMMA TypeStep ==
    ASSUME IInv, NEW field \in {"locked", "free"}, Type(field)
    PROVE  IInv'
<1> USE DEF IInv
<1>1. /\ open /\ Mounted(target, rows, open)
      /\ field = "locked" => SubjectOf(target, rows) = 0
      /\ draft' = [draft EXCEPT !.typed = @ \cup {field}]
      /\ UNCHANGED <<dialog, rows, open, openings, target, busy, calls>>
  BY DEF Type
<1>2. /\ draft' \in Drafts
      /\ draft'.from = draft.from /\ draft'.during = draft.during
      /\ draft'.typed = draft.typed \cup {field}
  BY <1>1 DEF TypeOK, Drafts
<1>3. dialog.subject # Derived => SubjectOf(target, rows) = target
  BY DEF SubjectOf
<1>4. TypeOK'
  BY <1>1, <1>2 DEF TypeOK
<1>5. DraftInv'
  BY <1>1, <1>2, <1>3 DEF DraftInv, Copies, Mounted, Vanishing
<1>6. BusyInv'
  BY <1>1 DEF BusyInv, Mounted, Vanishing, Own
<1>7. SubmittedIsTyped'
  BY <1>1, NothingNew
<1>8. QED
  BY <1>4, <1>5, <1>6, <1>7

\* A step that keeps the form, with the submissions that are left: some have
\* ended, some are now only waited for.
LEMMA KeepStep ==
    ASSUME IInv, NEW running \in SUBSET Submissions, NEW isBusy \in BOOLEAN,
           UNCHANGED <<dialog, openings, target>>, rows' \subseteq Entries,
           open' \in BOOLEAN,
           open' => open /\ (Mounted(target', rows', open') => Mounted(target, rows, open)),
           calls' = Orphaned(running),
           \A d \in running : \E c \in calls :
              d.opening = c.opening /\ d.target = c.target /\ d.draft = c.draft,
           ~Vanishing => \A c \in running : ~c.orphan,
           ~dialog.fresh => \A c, d \in running : ~c.orphan /\ ~d.orphan => c = d /\ isBusy,
           isBusy => \E c \in running : ~c.orphan,
           Keep(isBusy)
    PROVE  IInv'
<1> USE DEF IInv
<1>1. /\ calls' \subseteq Submissions
      /\ Mounted(target', rows', open') => calls' = running
      /\ ~Mounted(target', rows', open') => \A d \in calls' : d.orphan
      /\ \A d \in calls' : \E c \in running :
           d.opening = c.opening /\ d.target = c.target /\ d.draft = c.draft
  BY OrphanFacts
<1>2. /\ draft' \in Drafts
      /\ busy' = (isBusy /\ Mounted(target', rows', open'))
      /\ DraftInv'
  BY KeepFacts
<1>3. ~Vanishing' => Mounted(target', rows', open') /\ ~Vanishing
  BY DEF Mounted, Vanishing
<1>4. TypeOK'
  <2>1. busy' \in BOOLEAN
    BY <1>2
  <2>2. QED
    BY <1>1, <1>2, <2>1 DEF TypeOK
<1>5. BusyInv'
  <2>1. CASE Mounted(target', rows', open')
    <3>1. calls' = running /\ busy' = isBusy
      BY <1>1, <1>2, <2>1
    <3>2. QED
      BY <1>3, <2>1, <3>1, MountedNext DEF BusyInv, Own
  <2>2. CASE ~Mounted(target', rows', open')
    <3>1. Own' = {} /\ ~busy' /\ Vanishing'
      BY <1>1, <1>2, <1>3, <2>2 DEF Own
    <3>2. QED
      BY <3>1 DEF BusyInv
  <2>3. QED
    BY <2>1, <2>2
<1>6. SubmittedIsTyped'
  BY <1>1, NothingNew
<1>7. QED
  BY <1>2, <1>4, <1>5, <1>6

\* The dialog is closed by its user, busy or not.
LEMMA CancelStep ==
    ASSUME IInv, Cancel
    PROVE  IInv'
<1>1. /\ open' = FALSE /\ UNCHANGED <<dialog, rows, openings, target>>
      /\ calls' = Orphaned(calls)
      /\ Keep(busy)
  BY DEF Cancel
<1>2. /\ calls \in SUBSET Submissions /\ busy \in BOOLEAN /\ rows' \subseteq Entries
      /\ open' \in BOOLEAN /\ ~open'
      /\ ~Vanishing => \A c \in calls : ~c.orphan
      /\ ~dialog.fresh => \A c, d \in calls : ~c.orphan /\ ~d.orphan => c = d /\ busy
      /\ busy => \E c \in calls : ~c.orphan
  BY <1>1 DEF IInv, TypeOK, BusyInv, Own
<1>3. QED
  BY <1>1, <1>2, KeepStep

\* The draft is sent, or there is nothing to send it for.
LEMMA SubmitStep ==
    ASSUME IInv, Submit
    PROVE  IInv'
<1> USE DEF IInv
<1>1. /\ open /\ ~busy /\ Mounted(target, rows, open)
      /\ Send
      /\ UNCHANGED <<dialog, rows, openings, target, draft>>
  BY DEF Submit
<1>2. CASE dialog.subject = Selected /\ target = 0
  <2>1. open' = FALSE /\ UNCHANGED <<busy, calls>>
    BY <1>1, <1>2 DEF Send
  <2>2. ~Vanishing /\ ~Vanishing' /\ Mounted(target', rows', open')
    BY <1>1, <1>2 DEF Vanishing, Mounted, Selected, Chosen, Found
  <2>3. TypeOK' /\ DraftInv'
    BY <1>1, <2>1 DEF TypeOK, DraftInv
  <2>4. BusyInv'
    BY <1>1, <2>1, <2>2, MountedNext DEF BusyInv, Own
  <2>5. SubmittedIsTyped'
    BY <1>1, <2>1, NothingNew
  <2>6. QED
    BY <2>3, <2>4, <2>5
<1>3. CASE ~(dialog.subject = Selected /\ target = 0)
  <2>1. busy' = TRUE /\ calls' = calls \cup {Submission} /\ open' = open
    BY <1>1, <1>3 DEF Send
  <2>2. /\ Submission \in Submissions
        /\ ~Submission.orphan
        /\ Submission.opening = openings /\ Submission.target = target
        /\ Submission.draft = draft
    BY DEF Submission, Submissions, TypeOK
  <2>3. TypeOK'
    BY <1>1, <2>1, <2>2 DEF TypeOK
  <2>4. DraftInv'
    BY <1>1, <2>1 DEF DraftInv, Copies, Mounted, Vanishing
  <2>5. /\ Mounted(target', rows', open')
        /\ Own' = Own \cup {Submission}
        /\ Vanishing' = Vanishing
    BY <1>1, <2>1, <2>2 DEF Mounted, Vanishing, Own
  <2>6. BusyInv'
    BY <1>1, <2>1, <2>5, MountedNext DEF BusyInv
  <2>7. SubmittedIsTyped'
    BY <1>1, <1>3, <2>1, <2>2 DEF SubmittedIsTyped, DraftInv, Copies
  <2>8. QED
    BY <2>3, <2>4, <2>6, <2>7
<1>4. QED
  BY <1>2, <1>3

\* The broker has answered; the dialog closes or waits for the refresh.
LEMMA ReturnStep ==
    ASSUME IInv, NEW c \in calls, Return(c)
    PROVE  IInv'
<1> USE DEF IInv
<1> DEFINE d == [c EXCEPT !.sent = TRUE]
<1>1. UNCHANGED <<dialog, rows, openings, target>> /\ rows' \subseteq Entries
  BY DEF Return, TypeOK
<1>2. /\ d \in Submissions
      /\ d.orphan = c.orphan
      /\ d.opening = c.opening /\ d.target = c.target /\ d.draft = c.draft
      /\ c.orphan \in BOOLEAN /\ busy \in BOOLEAN /\ open \in BOOLEAN
      /\ calls \subseteq Submissions
  BY DEF TypeOK, Submissions
<1>3. /\ ~Vanishing => \A b \in calls : ~b.orphan
      /\ ~dialog.fresh => \A a, b \in calls : ~a.orphan /\ ~b.orphan => a = b /\ busy
      /\ busy => \E b \in calls : ~b.orphan
  BY DEF BusyInv, Own
<1>4. CASE dialog.closing.awaits
  <2> DEFINE running == (calls \ {c}) \cup {d}
  <2>1. /\ open' = (open /\ ~dialog.closing.early)
        /\ calls' = Orphaned(running)
        /\ Keep(busy)
    BY <1>4 DEF Return
  <2>2. open' \in BOOLEAN /\ (open' => open)
    BY <1>2, <2>1, ShapeFacts
  <2>3. open' => (Mounted(target', rows', open') => Mounted(target, rows, open))
    BY <1>1, <2>2 DEF Mounted, Vanishing
  <2>4. /\ running \in SUBSET Submissions
        /\ \A b \in running : \E a \in calls :
             b.opening = a.opening /\ b.target = a.target /\ b.draft = a.draft
        /\ ~Vanishing => \A b \in running : ~b.orphan
        /\ busy => \E b \in running : ~b.orphan
    BY <1>2, <1>3
  <2>5. ASSUME ~dialog.fresh, NEW a \in running, NEW b \in running, ~a.orphan, ~b.orphan
        PROVE  a = b /\ busy
    BY <1>2, <1>3, <2>5
  <2> HIDE DEF running
  <2>6. QED
    BY <1>1, <1>2, <2>1, <2>2, <2>3, <2>4, <2>5, KeepStep
<1>5. CASE ~dialog.closing.awaits
  <2> DEFINE running == calls \ {c}
             isBusy == busy /\ c.orphan
  <2>1. open' = FALSE /\ calls' = Orphaned(running) /\ Keep(isBusy)
    BY <1>5 DEF Return
  <2>2. /\ running \in SUBSET Submissions /\ isBusy \in BOOLEAN
        /\ \A b \in running : b \in calls
        /\ ~Vanishing => \A b \in running : ~b.orphan
        /\ isBusy => \E b \in running : ~b.orphan
    BY <1>2, <1>3
  <2>3. ASSUME ~dialog.fresh, NEW a \in running, NEW b \in running, ~a.orphan, ~b.orphan
        PROVE  a = b /\ isBusy
    BY <1>2, <1>3, <2>3
  <2> HIDE DEF running, isBusy
  <2>4. QED
    BY <1>1, <1>2, <2>1, <2>2, <2>3, KeepStep
<1>6. QED
  BY <1>4, <1>5

\* The submission has failed; the dialog stays.
LEMMA FailStep ==
    ASSUME IInv, NEW c \in calls, Fail(c)
    PROVE  IInv'
<1> USE DEF IInv
<1>1. /\ calls' = calls \ {c}
      /\ busy' = (busy /\ c.orphan)
      /\ UNCHANGED <<dialog, rows, open, openings, target, draft>>
  BY DEF Fail
<1>2. busy' \in BOOLEAN /\ (busy' => busy /\ c.orphan)
      /\ (busy /\ c.orphan => busy')
  BY <1>1 DEF TypeOK, Submissions
<1>3. TypeOK'
  BY <1>1, <1>2 DEF TypeOK
<1>4. DraftInv'
  BY <1>1 DEF DraftInv, Copies, Mounted, Vanishing
<1>5. /\ Mounted(target', rows', open') = Mounted(target, rows, open)
      /\ Vanishing' = Vanishing
      /\ Own' = Own \ {c}
  BY <1>1 DEF Mounted, Vanishing, Own
<1>6. BusyInv'
  BY <1>1, <1>2, <1>5, MountedNext DEF BusyInv, Own
<1>7. SubmittedIsTyped'
  BY <1>1, NothingNew
<1>8. QED
  BY <1>3, <1>4, <1>6, <1>7

\* A render of the board, with some of the submissions still under way.
LEMMA RenderStep ==
    ASSUME IInv, NEW running \in SUBSET calls, NEW isBusy \in BOOLEAN,
           rows' \subseteq Entries, UNCHANGED <<dialog, openings, target>>,
           open' \in BOOLEAN, open' => open,
           calls' = Orphaned(running),
           isBusy => \E c \in running : ~c.orphan,
           ~dialog.fresh => \A c \in running : ~c.orphan => isBusy,
           Rendered(isBusy)
    PROVE  IInv'
<1> USE DEF IInv
<1>1. running \in SUBSET Submissions
  BY DEF TypeOK
<1>2. /\ calls' \subseteq Submissions
      /\ Mounted(target', rows', open') => calls' = running
      /\ ~Mounted(target', rows', open') => \A d \in calls' : d.orphan
      /\ \A d \in calls' : \E c \in calls :
           d.opening = c.opening /\ d.target = c.target /\ d.draft = c.draft
  BY <1>1, OrphanFacts
<1>3. /\ draft' \in Drafts
      /\ busy' \in BOOLEAN
      /\ busy' => isBusy /\ Mounted(target', rows', open')
      /\ ~dialog.fresh /\ isBusy /\ Mounted(target', rows', open')
         /\ Mounted(target, rows, open) => busy'
      /\ DraftInv'
  BY RenderFacts
<1>4. TypeOK'
  BY <1>2, <1>3 DEF TypeOK
<1>5. ~Vanishing' => Mounted(target', rows', open') /\ ~Vanishing
  BY DEF Mounted, Vanishing
<1>6. BusyInv'
  <2>1. CASE Mounted(target', rows', open')
    <3>1. calls' = running /\ (busy' => isBusy)
      BY <1>2, <1>3, <2>1
    <3>2. Own' \subseteq Own /\ (~Vanishing => Own' = calls')
      BY <3>1 DEF Own, BusyInv
    <3>3. busy' => Own' # {}
      BY <3>1 DEF Own
    <3>4. ~dialog.fresh /\ Own' # {} => busy'
      BY <1>3, <2>1, <3>1, <3>2 DEF Own, BusyInv
    <3>5. QED
      BY <1>5, <2>1, <3>2, <3>3, <3>4, MountedNext DEF BusyInv
  <2>2. CASE ~Mounted(target', rows', open')
    <3>1. Own' = {} /\ ~busy' /\ Vanishing'
      BY <1>2, <1>3, <1>5, <2>2 DEF Own
    <3>2. QED
      BY <3>1 DEF BusyInv
  <2>3. QED
    BY <2>1, <2>2
<1>7. SubmittedIsTyped'
  BY <1>2, NothingNew
<1>8. QED
  BY <1>3, <1>4, <1>6, <1>7

\* The board refreshes.
LEMMA RefreshStep ==
    ASSUME IInv, Refresh
    PROVE  IInv'
<1>1. /\ rows' \subseteq Entries
      /\ UNCHANGED <<dialog, open, openings, target>>
      /\ calls' = Orphaned(calls)
      /\ Rendered(busy)
  BY DEF Refresh
<1>2. /\ busy \in BOOLEAN /\ open' \in BOOLEAN /\ calls \in SUBSET calls
      /\ open' => open
      /\ busy => \E c \in calls : ~c.orphan
      /\ ~dialog.fresh => \A c \in calls : ~c.orphan => busy
  BY <1>1 DEF IInv, TypeOK, BusyInv, Own
<1>3. QED
  BY <1>1, <1>2, RenderStep

\* The refresh after a submission has rendered the board.
LEMMA FinishStep ==
    ASSUME IInv, NEW c \in calls, Finish(c)
    PROVE  IInv'
<1> USE DEF IInv
<1>1. /\ rows' \subseteq Entries
      /\ open' = (open /\ ~dialog.closing.late)
      /\ UNCHANGED <<dialog, openings, target>>
      /\ calls' = Orphaned(calls \ {c})
      /\ IF dialog.watch = OnSent /\ ~c.orphan THEN draft' = Blank /\ busy' = FALSE
         ELSE Rendered(busy /\ c.orphan)
  BY DEF Finish
<1>2. open' \in BOOLEAN /\ (open' => open) /\ c.orphan \in BOOLEAN
      /\ busy \in BOOLEAN /\ (busy /\ c.orphan) \in BOOLEAN
  BY <1>1, ShapeFacts DEF TypeOK, Submissions
<1>3. /\ calls \ {c} \in SUBSET Submissions
      /\ ~dialog.fresh /\ ~c.orphan => \A d \in calls \ {c} : d.orphan
      /\ ~dialog.fresh => \A d \in calls \ {c} : ~d.orphan => busy /\ c.orphan
      /\ busy /\ c.orphan => \E d \in calls \ {c} : ~d.orphan
  BY <1>2 DEF TypeOK, BusyInv, Own
<1>4. CASE dialog.watch = OnSent /\ ~c.orphan
  <2>1. /\ calls' \subseteq Submissions
        /\ Mounted(target', rows', open') => calls' = calls \ {c}
        /\ ~Mounted(target', rows', open') => \A d \in calls' : d.orphan
        /\ \A d \in calls' : \E b \in calls :
             d.opening = b.opening /\ d.target = b.target /\ d.draft = b.draft
    BY <1>1, <1>3, OrphanFacts
  <2>2. draft' = Blank /\ busy' = FALSE
    BY <1>1, <1>4
  <2>3. TypeOK'
    BY <1>1, <1>2, <2>1, <2>2, BlankType DEF TypeOK
  <2>4. DraftInv'
    BY <1>1, <1>4 DEF DraftInv, Copies
  <2>5. ~Vanishing' => Mounted(target', rows', open') /\ ~Vanishing
    BY <1>1 DEF Mounted, Vanishing
  <2>6. /\ ~Mounted(target', rows', open') => Own' = {}
        /\ ~dialog.fresh => Own' = {}
        /\ ~Vanishing' => Own' = calls'
    BY <1>3, <1>4, <2>1, <2>5 DEF BusyInv, Own
  <2>7. BusyInv'
    BY <1>1, <2>2, <2>6, MountedNext DEF BusyInv
  <2>8. SubmittedIsTyped'
    BY <1>1, <2>1, NothingNew
  <2>9. QED
    BY <2>3, <2>4, <2>7, <2>8
<1>5. CASE ~(dialog.watch = OnSent /\ ~c.orphan)
  <2> DEFINE isBusy == busy /\ c.orphan
             running == calls \ {c}
  <2>1. /\ Rendered(isBusy) /\ calls' = Orphaned(running)
        /\ running \in SUBSET calls /\ isBusy \in BOOLEAN
        /\ isBusy => \E d \in running : ~d.orphan
        /\ ~dialog.fresh => \A d \in running : ~d.orphan => isBusy
    BY <1>1, <1>2, <1>3, <1>5
  <2> HIDE DEF isBusy, running
  <2>2. QED
    BY <1>1, <1>2, <2>1, RenderStep
<1>6. QED
  BY <1>4, <1>5

\* The inductive invariant of a dialog, whatever its effect depends on and in
\* whatever order renders, submissions and openings follow each other.
THEOREM DialogInvariance == Spec => []IInv
<1>1. ASSUME Init PROVE IInv
  <2>1. /\ dialog \in Dialogs /\ rows = Entries /\ open = FALSE /\ openings = 0
        /\ target = 0 /\ draft = Blank /\ busy = FALSE /\ calls = {}
    BY <1>1 DEF Init
  <2>2. TypeOK
    <3>1. 0 \in 0..MaxOpenings
      BY BoundsAssumption
    <3>2. QED
      BY <2>1, <3>1, BlankType DEF TypeOK
  <2>3. DraftInv /\ SubmittedIsTyped
    BY <2>1 DEF DraftInv, SubmittedIsTyped
  <2>4. BusyInv
    BY <2>1 DEF BusyInv, Own
  <2>5. QED
    BY <2>2, <2>3, <2>4 DEF IInv
<1>2. ASSUME IInv, [Next]_vars PROVE IInv'
  <2>1. CASE UNCHANGED vars
    <3>1. UNCHANGED <<dialog, rows, open, openings, target, draft, busy, calls>>
      BY <2>1 DEF vars
    <3>2. TypeOK' /\ DraftInv' /\ BusyInv'
      BY <1>2, <3>1 DEF IInv, TypeOK, DraftInv, BusyInv, Copies, Mounted, Vanishing, Own
    <3>3. SubmittedIsTyped'
      BY <1>2, <3>1, NothingNew DEF IInv
    <3>4. QED
      BY <3>2, <3>3 DEF IInv
  <2>2. CASE Next
    BY <1>2, <2>2, OpenStep, ChooseStep, DeselectStep, TypeStep, CancelStep,
       SubmitStep, RefreshStep, ReturnStep, FinishStep, FailStep DEF Next
  <2>3. QED
    BY <1>2, <2>1, <2>2
<1>3. QED
  BY <1>1, <1>2, PTL DEF Spec

\* Every submission carries the draft of its own opening and entry (save of the
\* dialogs, the effect that fills them).
THEOREM SubmissionIsOwn == Spec => []SubmittedIsTyped
<1>1. IInv => SubmittedIsTyped
  BY DEF IInv
<1>2. QED
  BY <1>1, DialogInvariance, PTL

\* A dialog that does not reset saving has one submission of its own at a time,
\* also across closing and opening; only one that was taken away leaves another
\* behind; and busy always has somebody who ends it.
THEOREM OneSubmission == Spec => []OneAtATime
<1>1. ASSUME IInv PROVE OneAtATime
  <2>1. ASSUME ~dialog.fresh PROVE Cardinality(Own) <= 1
    <3>1. \A c, d \in Own : c = d
      BY <1>1, <2>1 DEF IInv, BusyInv
    <3>2. CASE Own = {}
      BY <3>2, FS_EmptySet
    <3>3. ASSUME NEW c \in Own PROVE Cardinality(Own) <= 1
      <4>1. Own = {c}
        BY <3>1
      <4>2. QED
        BY <4>1, FS_Singleton
    <3>4. QED
      BY <3>2, <3>3
  <2>2. QED
    BY <1>1, <2>1 DEF OneAtATime, IInv, BusyInv
<1>2. QED
  BY <1>1, DialogInvariance, PTL
=============================================================================
