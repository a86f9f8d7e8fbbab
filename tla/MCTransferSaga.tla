--------------------------- MODULE MCTransferSaga ---------------------------
(***************************************************************************)
(* Small sagas for TLC.                                                    *)
(***************************************************************************)
EXTENDS TransferSaga, TLC

MkDto(a, b, n) == [source |-> a, dest |-> b, amount |-> n, currency |-> "USD"]

(* Three calls: a transfer, a retry of it, and a transfer back.            *)
RetryAndReturn == [c \in Calls |-> IF c = "c3" THEN "k2" ELSE "k1"]
ThereAndBack == [k \in Keys |-> IF k = "k1" THEN MkDto("a", "b", 2) ELSE MkDto("b", "a", 1)]

(* Two calls with keys of their own.                                       *)
OwnKeys == [c \in Calls |-> IF c = "c1" THEN "k1" ELSE "k2"]
BothFromA == [k \in Keys |-> IF k = "k1" THEN MkDto("a", "b", 2) ELSE MkDto("a", "b", 1)]

(* Both accounts got their last entry, of 1, after entries of 3.           *)
Funded == [a \in Accounts |-> [before |-> 3, last |-> 1]]

Dollars == [a \in Accounts |-> "USD"]
=============================================================================
