----------------------------- MODULE MCGateway -----------------------------
(* The parts of Gateway on small instances.                                *)
EXTENDS Gateway, TLC

(* Two payments that the account covers one by one and together only with  *)
(* its overdraft.                                                          *)
Amounts == "p1" :> 2 @@ "p2" :> 1
OpeningRow == [balance |-> 2, avail |-> 3, hold |-> 0, overdraft |-> 1]

(* The first retry comes sooner than the second; the third delay is never  *)
(* used, as in the code.                                                   *)
RetryDelays == <<1, 2, 3>>

(* The rails alone, each real-time payment being submitted and settled, as *)
(* send does before it returns.                                            *)
RtpSpec ==
  /\ Init /\ part = "rails" /\ [][Next]_gatewayVars
  /\ \A p \in Payments :
       /\ WF_gatewayVars(part = "rails" /\ SubmitToNetwork(p) /\ Others("rails"))
       /\ WF_gatewayVars(part = "rails" /\ SettleRtp(p) /\ Others("rails"))
=============================================================================
