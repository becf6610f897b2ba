----------------------------- MODULE BoardShapes -----------------------------
(***************************************************************************)
(* The vocabulary in which the catalogue modules describe the boards of    *)
(* the desktop window (src/frontend/src/design/boards).  A board is one    *)
(* React component: a list read from the broker, a selection, sometimes a  *)
(* second read that follows the selection, and operations that end in a    *)
(* call to the broker.  A shape keeps what the control of a board depends  *)
(* on and leaves out its columns, words and layout.  The machines that     *)
(* give a shape its behaviour are in Board and BoardDialog.                *)
(*                                                                         *)
(* Every definition of a catalogue is preceded by the lines it stands for. *)
(***************************************************************************)
LOCAL INSTANCE TLC

(***************************************************************************)
(* DIALOGS.  A dialog copies its subject into a draft in an effect that    *)
(* runs when it opens and again whenever a dependency of the effect gets a *)
(* new identity.  `watch' is the least stable of those dependencies:       *)
(* nothing but opening, the subject handed in by the board, an array       *)
(* derived from what a read of the board returned, which is a new array    *)
(* after every refresh, or an array the board builds at every render.  Two *)
(* dialogs have no such effect: one keeps its draft for good, one clears   *)
(* it when a submission has succeeded.  A form inside a panel may fill its *)
(* field when it is mounted and never again.  `fresh' says that the same effect  *)
(* also declares the dialog idle.  The fields are the ones a user can type *)
(* into; the locked ones are disabled, or not rendered, while an entry is  *)
(* edited.                                                                 *)
(***************************************************************************)
Never == "never"
OnSent == "sent"
OnMount == "mount"
OnOpen == "open"
OnSubject == "subject"
OnData == "data"
OnRender == "render"

Resets == TRUE      \* the effect also runs setSaving(false)
Leaves == FALSE     \* it leaves busy alone

Fields(locked, typed) == [locked |-> locked, typed |-> typed]
Free(typed) == Fields({}, typed)

Dialog(watch, fresh, fields) ==
    [watch |-> watch, fresh |-> fresh, fields |-> fields]

(***************************************************************************)
(* READS.  Polled: useBrokerData with its interval.  Keyed: the same, the  *)
(* request closing over the selection.  KeyedOnce: keyed, without the      *)
(* interval.  Pulled: a state and a request of the hook's own, made when   *)
(* the entry is picked or by a button that is disabled while it runs,      *)
(* with or without a generation that refuses the reply of a request that   *)
(* is no longer the latest.                                                *)
(***************************************************************************)
None == [kind |-> "none", guarded |-> TRUE]
Polled == [kind |-> "polled", guarded |-> TRUE]
Keyed == [kind |-> "keyed", guarded |-> TRUE]
KeyedOnce == [kind |-> "once", guarded |-> TRUE]
Pulled(trigger, guarded) == [kind |-> trigger, guarded |-> guarded]
OnPick == "pick"
OnButton == "button"
Guarded == TRUE
Unguarded == FALSE

(***************************************************************************)
(* OPERATIONS.  Asked: a question first, then the call with the entry the  *)
(* question named; on success the selection is cleared or kept and reads   *)
(* are refreshed: the ones of `first' at once, those of `then' when they   *)
(* have ended, and those of `failed' when the call has failed.  Sent: the  *)
(* call without a question, `guard' saying whether a second click is       *)
(* refused while it runs.  Filled: the call with the draft of a dialog.    *)
(* Its subject is none (it creates), held (the row as it was when the      *)
(* dialog opened), derived (the name is held, the row is looked up again   *)
(* at every render), chosen (the entry of the panel: without one the       *)
(* dialog is not rendered, while the flag that opens it stays), found (the *)
(* name is held and is what opens it, and the dialog is rendered while a   *)
(* row has that name: closing it takes it away) or selected (a part of the *)
(* selected entry: when the selection is cleared meanwhile, nothing is     *)
(* sent).  `closing' says when a                                           *)
(* submission that succeeded closes the dialog: as soon as the call has    *)
(* returned, after the refresh that follows it, or at both moments, and    *)
(* whether the dialog is busy for the length of that refresh.  Inline: a   *)
(* form inside the panel of the chosen entry, which goes with the panel.   *)
(***************************************************************************)
Keeps == FALSE
Clears == TRUE
Refreshes(first, then) == [first |-> first, then |-> then, failed |-> {}]
Nothing == Refreshes({}, {})
List == Refreshes({"list"}, {})
Detail == Refreshes({"detail"}, {})
Both == Refreshes({"list", "detail"}, {})
ListThenDetail == Refreshes({"list"}, {"detail"})
DetailThenList == Refreshes({"detail"}, {"list"})
DetailAnyway == [Detail EXCEPT !.failed = {"detail"}]

Creates == "none"
Held == "held"
Derived == "derived"
Chosen == "chosen"
Found == "found"
Selected == "selected"

Waits == [early |-> FALSE, late |-> TRUE, awaits |-> TRUE]
Goes == [early |-> FALSE, late |-> TRUE, awaits |-> FALSE]
Twice == [early |-> TRUE, late |-> TRUE, awaits |-> TRUE]
Early == [early |-> TRUE, late |-> FALSE, awaits |-> TRUE]

BusyGuard == TRUE
NoGuard == FALSE

Asked(clears, rereads) ==
    [via |-> "question", clears |-> clears, rereads |-> rereads]
Sent(guard, rereads) ==
    [via |-> "click", guard |-> guard, rereads |-> rereads]
Filled(dialog, subject, rereads, closing) ==
    [via |-> "dialog", dialog |-> dialog, subject |-> subject,
     rereads |-> rereads, closing |-> closing]
Inline(dialog, guard, rereads) ==
    [via |-> "inline", dialog |-> dialog, guard |-> guard, rereads |-> rereads]

(***************************************************************************)
(* OFFERS.  What the header (or a row of the table) and the panel of the   *)
(* chosen entry offer, and whether a state of the entry takes the offer    *)
(* away: Unless("sealed") is a button disabled on a sealed entry.          *)
(***************************************************************************)
Always == [unless |-> "never"]
Unless(state) == [unless |-> state]
NoOffers == [op \in {} |-> Always]
With(offers, others) == offers @@ others

(***************************************************************************)
(* BOARDS.  `panel' is how the chosen entry is found at a render:          *)
(*   OrFirst   the selected row, or the first one when it is gone          *)
(*   Find      the selected row, or no panel; the second read goes by the  *)
(*             selection                                                   *)
(*   Sheet     the selected row, or no panel; the second read goes by the  *)
(*             row                                                         *)
(*   LandedOrFirst  as OrFirst, and an effect selects the first one        *)
(*   Named     the selection itself, whether or not a row still has it     *)
(*   DetailOr  what the second read returned, or else the selected row     *)
(*   Picked    the row as it was when clicked, the first one before that   *)
(*   NoPanel   nothing is selected on this board                           *)
(* and of a board whose selection is a source, chosen in the toolbar:      *)
(*   Source    the selection                                               *)
(*   OrOffered the selection, or the first one before that                 *)
(*   Landed    the selection, which an effect sets to the first one        *)
(*   LandedRow the same, looked up among the rows                          *)
(***************************************************************************)
OrFirst == "orFirst"
Find == "find"
Named == "named"
DetailOr == "detailOr"
Picked == "picked"
NoPanel == "none"
Source == "source"
OrOffered == "orOffered"
Landed == "landed"
LandedRow == "landedRow"
Sheet == "sheet"
LandedOrFirst == "landedOrFirst"
Sources == {Source, OrOffered, Landed, LandedRow}
Landing == {Landed, LandedRow, LandedOrFirst}

(***************************************************************************)
(* Reader is a board that changes nothing.  Browse is a board whose        *)
(* selection is a source picked in the toolbar, one of the `picks' a query *)
(* is made of, and whose rows are what the second read returned for a      *)
(* source: an offer of a row goes to the source that is picked at that     *)
(* moment.  Compose is a form that is always open, beside the list of what *)
(* can be sent to.  Overview is a page of several reads; its button        *)
(* refreshes some of them.  The list of a board is polled unless the board *)
(* says otherwise; the query of a scoped one depends on a switch or a      *)
(* namespace in the toolbar.                                               *)
(***************************************************************************)
Board(panel, second, ops, header, offers) ==
    [list |-> Polled, panel |-> panel, second |-> second, ops |-> ops,
     header |-> header, offers |-> offers]

Unpolled(board) == [board EXCEPT !.list = KeyedOnce]
Scoped(board) == [board EXCEPT !.list = [kind |-> "scoped", guarded |-> TRUE]]
Listless(board) == [board EXCEPT !.list = None]

NoOps == [op \in {} |-> {}]

Reader(panel, second) == Board(panel, second, NoOps, NoOffers, NoOffers)

Browse(source, second, picks, ops, header, rows) ==
    Board(source, second, ops, header, rows) @@ [picks |-> picks]

Browser(source, second, picks) ==
    Browse(source, second, picks, NoOps, NoOffers, NoOffers)

Overview(reads, button) ==
    Reader(NoPanel, None) @@ [reads |-> reads, button |-> button]

Compose(fields, rereads) ==
    Board(NoPanel, None, [send |-> Sent(BusyGuard, rereads)],
          [send |-> Always], NoOffers) @@ [fields |-> fields]
=============================================================================
