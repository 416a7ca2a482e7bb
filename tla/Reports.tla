------------------------------- MODULE Reports ------------------------------
(***************************************************************************)
(* Moderation reports: ReportsService.  A user reports a dish or a seller  *)
(* for a reason; the same report is refused while an earlier one is        *)
(* pending; an administrator decides, and may decide again.                *)
(*                                                                         *)
(* A dish is reported as not homemade only while it is sold as homemade;   *)
(* its category is ListingsService's.  Comments and lists are left out.    *)
(***************************************************************************)
EXTENDS Integers, Sequences, Requests

CONSTANTS
    Reporters,        \* users
    Dishes, Accused,  \* what may be reported: listings, sellers
    MaxReports        \* bound on the reports ever filed

Reasons == {"NON_FAIT_MAISON", "OTHER"}

VARIABLES
    report,    \* Report rows, as they are filed
    homemade   \* the listings sold as homemade

reports == <<report, homemade>>

ReportsInit ==
    /\ report = <<>>
    /\ homemade \in SUBSET Dishes

Pending(subject) ==
    {r \in DOMAIN report : report[r].subject = subject /\ report[r].status = "PENDING"}

\* create: the target, the duplicate check, and then the insert.
CreateReport(t, u, target, reason) ==
    /\ At(t, "idle")
    /\ reason = "NON_FAIT_MAISON" => target \in homemade
    /\ LET subject == <<u, target, reason>> IN
       /\ Pending(subject) = {}
       /\ Goto(t, "insertReport", [subject |-> subject])
    /\ UNCHANGED reports
InsertReport(t) ==
    /\ At(t, "insertReport")
    /\ Len(report) < MaxReports
    /\ report' = Append(report, [subject |-> Arg(t).subject, status |-> "PENDING"])
    /\ Done(t)
    /\ UNCHANGED homemade

\* updateStatus: whatever the report's status, two administrators included.
UpdateStatus(t, r, decision) ==
    /\ At(t, "idle") /\ r \in DOMAIN report
    /\ Goto(t, "decideReport", [report |-> r, decision |-> decision])
    /\ UNCHANGED reports
DecideReport(t) ==
    /\ At(t, "decideReport")
    /\ report' = [report EXCEPT ![Arg(t).report].status = Arg(t).decision]
    /\ Done(t)
    /\ UNCHANGED homemade

\* The seller moves a dish into or out of the homemade category.
Recategorise(d) ==
    /\ homemade' = IF d \in homemade THEN homemade \ {d} ELSE homemade \cup {d}
    /\ UNCHANGED <<report, task>>

ReportsNext ==
    \/ \E t \in Tasks :
          \/ \E u \in Reporters, target \in Dishes \cup Accused, reason \in Reasons :
                CreateReport(t, u, target, reason)
          \/ \E r \in 1..MaxReports, decision \in {"RESOLVED", "REJECTED"} : UpdateStatus(t, r, decision)
          \/ InsertReport(t) \/ DecideReport(t)
    \/ \E d \in Dishes : Recategorise(d)

-----------------------------------------------------------------------------
(* Properties                                                              *)

\* create's "duplicate-spam guard: same reporter + target + type while still
\* PENDING": nobody has two pending reports of one target for one reason.
OnePendingReport ==
    \A r, s \in DOMAIN report :
        /\ report[r].status = "PENDING" /\ report[s].status = "PENDING"
        /\ report[r].subject = report[s].subject
        => r = s
=============================================================================
