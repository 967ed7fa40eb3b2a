---------------------------- MODULE MCModbusPoll ----------------------------
(* Instance of ModbusPoll: two extracts, of one register or two.           *)
EXTENDS ModbusPoll

E(f, u, a, n) == [function |-> f, unitId |-> u, address |-> a, registers |-> n]

Layout(s) == [f \in Function |-> SelectSeq(s, LAMBDA e : e.function = f)]

(* Neighbours in the table of a unit; far from one another; of two units;  *)
(* and of two functions, in another order than that of the rounds.         *)
MCLayouts ==
  { Layout(<< E(3, 1, 0, 2), E(3, 1, 2, 1) >>),
    Layout(<< E(4, 1, 0, 2), E(4, 1, 8, 2) >>),
    Layout(<< E(3, 1, 0, 1), E(3, 2, 0, 1) >>),
    Layout(<< E(3, 1, 0, 1), E(1, 1, 0, 2) >>) }

=============================================================================
