---------------------------- MODULE LeasesHistory ----------------------------
(***************************************************************************)
(* Leases with a history variable: the late fees each invoice has shown so  *)
(* far.  It observes the steps of Leases and constrains none of them.       *)
(***************************************************************************)
EXTENDS Leases

VARIABLE shown  \* (observation) every late_fee_paise an invoice has had, 0 before its insert

HistoryInit == Init /\ shown = [i \in InvoiceIds |-> {invoices[i].lateFee}]

HistoryNext ==
  /\ Next
  /\ shown' = [i \in InvoiceIds |-> shown[i] \cup {invoices'[i].lateFee}]

HistorySpec == HistoryInit /\ [][HistoryNext]_<<vars, shown>>

FairHistorySpec ==
  /\ HistorySpec
  /\ \A r \in Runs : WF_vars(Schedule(r))
  /\ \A r \in Requests : WF_vars(Continue(r))

\* Whatever a payment charges beyond the rent is a late fee its invoice has shown: the desk and the
\* citizen are asked for a fee only after it was saved in the invoice (applyLateFeeIfOverdue), how
\* often the fee is changed in between and however late the scheduler writes another one.
ChargesAreShown ==
  \A p \in PaymentIds :
    payments[p].status # "absent" => payments[p].amount - Rent \in shown[payments[p].invoice]

=============================================================================
