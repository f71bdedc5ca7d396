------------------------------ MODULE MCInputs ------------------------------
(***************************************************************************)
(* Inputs for Readers: six events of three ledgers, and filters that keep  *)
(* all, most or few of them.                                               *)
(***************************************************************************)
EXTENDS Naturals, Sequences

SomeEvents == [id \in 1..6 |->
    [ledger |-> (id + 1) \div 2, contract |-> "c", tx |-> "t", transactionIndex |-> id % 2,
     ok |-> id # 3, addresses |-> {"a"}, topics |-> IF id = 4 THEN <<"t">> ELSE <<"t", "u">>]]
SomeFilters == {[contract |-> "c"],
                [transactionIndex |-> 0, address |-> "a"],
                [fromLedger |-> 1, toLedger |-> 3, successfulOnly |-> TRUE, topics |-> <<"*", "u">>]}
=============================================================================
