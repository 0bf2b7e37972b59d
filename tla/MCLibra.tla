------------------------------ MODULE MCLibra ------------------------------
(* A scale of each type and four goods: an ordinary one; one whose code differs *)
(* from it by 2^16, with a long name and a price over the limit of Tiger D; one  *)
(* with a code of seven digits; one with a code below the prefix and an article  *)
(* of five digits.  2.675 and 1.005 end in half a kopeck: the product of the     *)
(* first and 100 is 267.5 as doubles, that of the second is below 100.5, and    *)
(* both are printed downwards.                                                  *)
EXTENDS Libra

Day == <<30, 9, 11>>

\* "Сир, 5%"
MCCheese == [nomen_num |-> 280005, art_num |-> 17, price |-> 2675, date |-> Day, termin |-> 10,
             name |-> <<209, 232, 240, 44, 32, 53, 37>>]
\* A name of 41 characters with both separators and the Ukrainian letters.
MCSausage == [nomen_num |-> 345541, art_num |-> 9999, price |-> 123456784, date |-> Day,
              termin |-> 10,
              name |-> <<170, 179, 191, 44, 175>> \o [k \in 1 .. 36 |-> 219 + k]]
\* A name of twenty characters.
MCTea == [nomen_num |-> 1234567, art_num |-> 5, price |-> 9, date |-> Day, termin |-> 10,
          name |-> [k \in 1 .. 20 |-> 191 + 3 * k]]
\* A name of twenty-one.
MCSalt == [nomen_num |-> 275000, art_num |-> 10000, price |-> 1005, date |-> Day, termin |-> 10,
           name |-> [k \in 1 .. 21 |-> 60 + k]]

MCGoods == {MCCheese, MCSausage, MCTea, MCSalt}
MCFileLists == {<<>>} \cup {<<t>> : t \in MCGoods} \cup (MCGoods \X MCGoods)
MCLineLists == {<<MCCheese, MCSausage>>, <<MCSalt, MCCheese>>, <<MCSausage, MCTea, MCCheese>>}
MCStrays == {<<0, 0>>, <<18, 253>>}
=============================================================================
