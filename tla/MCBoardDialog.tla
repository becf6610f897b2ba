---------------------------- MODULE MCBoardDialog ----------------------------
(***************************************************************************)
(* The control of every dialog of the catalogue.                           *)
(***************************************************************************)
EXTENDS BoardDialog, TopicBoards, ConsumerBoards, MessageBoards, AdminBoards

AllDialogs ==
    UNION {{DialogControl(b, name) : name \in FilledOps(b)} :
           b \in TopicBoardSet \cup ConsumerBoardSet \cup MessageBoardSet
                 \cup AdminBoardSet}
=============================================================================
