------------------------------ MODULE CallLedger ------------------------------
(***************************************************************************)
(* What the reports of the manager promise of the calls of the gateways: a *)
(* call is counted at most once, after its end, and a call that was given  *)
(* up is not counted later.                                                *)
(***************************************************************************)
CONSTANT Calls
VARIABLE status

LedgerTypeOK == status \in [Calls -> {"none", "open", "ended", "counted", "lost"}]

LedgerInit == status = [c \in Calls |-> "none"]

\* A call comes to a gateway, ends, and its report arrives or never will.
Advances == {<<"none", "open">>, <<"open", "ended">>, <<"ended", "counted">>,
             <<"open", "lost">>, <<"ended", "lost">>}

LedgerNext ==
    \E c \in Calls : /\ <<status[c], status'[c]>> \in Advances
                     /\ status' = [status EXCEPT ![c] = status'[c]]

LedgerSpec == LedgerInit /\ [][LedgerNext]_status
=============================================================================
