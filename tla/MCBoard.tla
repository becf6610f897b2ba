------------------------------- MODULE MCBoard -------------------------------
(***************************************************************************)
(* The control of every board of the catalogue.  The pages of OverviewSet  *)
(* are several lists without a selection: each of their reads behaves as a *)
(* board that only reads.                                                  *)
(***************************************************************************)
EXTENDS Board, TopicBoards, ConsumerBoards, MessageBoards, AdminBoards,
        ClusterBoards

AllBoards ==
    {Control(b) : b \in TopicBoardSet \cup ConsumerBoardSet \cup MessageBoardSet
                        \cup AdminBoardSet \cup ClusterBoardSet \cup OverviewSet}

\* A board that differs from another one only in having fewer operations can
\* do nothing the other one cannot, as long as both or neither refresh the
\* second read.
Covers(c, b) ==
    /\ c # b
    /\ [c EXCEPT !.ops = b.ops] = b
    /\ b.ops \subseteq c.ops
    /\ (\E op \in c.ops : Details(op)) => \E op \in b.ops : Details(op)

LargestBoards == {b \in AllBoards : ~\E c \in AllBoards : Covers(c, b)}
=============================================================================
