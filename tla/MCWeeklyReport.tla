--------------------------- MODULE MCWeeklyReport ---------------------------
(* Small instances of WeeklyReport. *)
EXTENDS WeeklyReport

CONSTANTS shop, blog, ghost, full, part

\* The server's run, and one of the shop alone.
MCChosen == [r \in {full, part} |-> IF r = full THEN {shop, blog} ELSE {shop}]

\* Both projects; one, the other being quiet; one and a name nobody knows; one
\* twice, the first time without a text, and the other both active and quiet; nobody.
MCAnswers ==
  {[secs |-> <<shop, blog>>, bare |-> {}, quiet |-> {}],
   [secs |-> <<blog>>, bare |-> {}, quiet |-> {shop}],
   [secs |-> <<ghost, shop>>, bare |-> {}, quiet |-> {blog}],
   [secs |-> <<shop, blog, shop>>, bare |-> {1}, quiet |-> {blog}],
   [secs |-> <<shop, shop>>, bare |-> {}, quiet |-> {shop}],
   [secs |-> <<>>, bare |-> {}, quiet |-> {}]}
=============================================================================
