-------------------------- MODULE MC_Presentation --------------------------
(* Items of every sort: with and without a pts or an end, immediate, kept on the
   screen, two texts for one pts, one that ends when the next is asked for, one far
   off; times before, at and after them, and times that step back. *)
EXTENDS Presentation

Item(pts, end, imm, keep, text) ==
    [pts |-> pts, end |-> end, imm |-> imm, keep |-> keep, text |-> text, cc |-> FALSE]

MCDecodes ==
    { Item(0, 0, FALSE, FALSE, FALSE),
      Item(3, 4, FALSE, FALSE, TRUE),
      Item(3, 120, FALSE, FALSE, TRUE),
      Item(5, 0, TRUE, TRUE, FALSE) }

MCTimes == {-1, 0, 4, 210}

=============================================================================
