---------------------------- MODULE MCReviewDesk ----------------------------
(* Two rows where rows meet (reports of one user, alerts of one booking),  *)
(* two admins where decisions meet.                                        *)
EXTENDS ReviewDesk

CONSTANTS a1, a2, c1, c2, t1

MCKinds == {"kyc", "vehicle", "report", "sos"}
MCAdmins == [kyc |-> {a1, a2}, vehicle |-> {a1}, report |-> {a1}, sos |-> {a1}]
MCCustomers == {c1, c2}
MCTransporters == {t1}
MCFilers == [kyc |-> {c1, t1}, vehicle |-> {t1}, report |-> {c1, c2, t1}, sos |-> {c1, t1}]
MCMaxItems == [kyc |-> 1, vehicle |-> 1, report |-> 2, sos |-> 2]
=============================================================================
