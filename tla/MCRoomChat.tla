----------------------------- MODULE MCRoomChat -----------------------------
(* Small instances of RoomChat. *)
EXTENDS RoomChat

CONSTANTS t1, t2, editor, resumer, paint

Add    == [do |-> "add", id |-> 0, title |-> paint, to |-> "open"]
Finish == [do |-> "change", id |-> 1, title |-> Keep, to |-> "done"]

\* No block, or a new card after one that the answer finishes.
MCReplies == {<<>>, <<Finish, Add>>}
=============================================================================
