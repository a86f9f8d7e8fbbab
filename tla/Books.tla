-------------------------------- MODULE Books --------------------------------
(***************************************************************************)
(* What the ledger promises its callers: a set of journals that grows by   *)
(* one complete, balanced journal at a time.  A journal never changes once *)
(* it is in the books, except that it becomes reversed, in the same step   *)
(* that adds its mirror image.  A key is used once.                        *)
(***************************************************************************)
CONSTANTS
  Ids, Keys, NoKey, NoJournal, Dtos,
  Balanced(_),   \* which lists of legs may be posted
  Mirror(_)      \* the legs that undo a list of legs

VARIABLE book

Absent == [legs |-> <<>>, key |-> NoKey, reverses |-> NoJournal, status |-> "absent"]

Init == book = [j \in Ids |-> Absent]

Post(j, legs, key) ==
  /\ book[j] = Absent
  /\ legs # <<>>
  /\ Balanced(legs)
  /\ key # NoKey => \A k \in Ids : book[k].key # key
  /\ book' = [book EXCEPT ![j] = [legs |-> legs, key |-> key,
                                  reverses |-> NoJournal, status |-> "POSTED"]]

Reverse(j, k) ==
  /\ j # k
  /\ book[j] = Absent
  /\ book[k] # Absent
  /\ book' = [i \in Ids |->
                IF i = j
                THEN [legs |-> Mirror(book[k].legs), key |-> NoKey, reverses |-> k,
                      status |-> "POSTED"]
                ELSE IF i = k THEN [book[k] EXCEPT !.status = "REVERSED"] ELSE book[i]]

Next == \E j \in Ids : \/ \E legs \in Dtos, key \in Keys \cup {NoKey} : Post(j, legs, key)
                       \/ \E k \in Ids : Reverse(j, k)

Spec == Init /\ [][Next]_book
=============================================================================
