------------------------------- MODULE Payouts -------------------------------
(***************************************************************************)
(* Paying a seller or a driver out: the Stripe Connect account that the    *)
(* money goes to, and the withdrawals of one user's wallet.                *)
(*                                                                         *)
(* Code: WalletsService.requestWithdrawal, payments/onboarding             *)
(* OnboardingService.createAccountLink, and handleAccountUpdated of the    *)
(* Stripe webhook.  How an entry comes to be AVAILABLE is OrderFlow.       *)
(*                                                                         *)
(* A request in flight is a TASK; every await is an interleaving point.    *)
(* Stripe keeps the accounts, makes the transfers, and delivers            *)
(* account.updated events late, twice or out of order.                     *)
(***************************************************************************)
EXTENDS Integers, FiniteSets, FiniteSetsExt

CONSTANTS
    Tasks,        \* requests of the user that may be in flight at once
    Entries,      \* the user's wallet entries
    Amount,       \* amountCents of each; negative for a DRIVER_DEBT
    WithdrawalMin,\* WITHDRAWAL_MIN_CENTS
    WithdrawalIds,\* bound on the withdrawals: the ids generateUlid may return
    Accounts,     \* bound on the Connect accounts Stripe may create
    NoWithdrawal, NoAccount,
    Faults        \* which failures may happen, a subset of FaultKinds

\* "stripe": a call is refused; "timeout": it is carried out but its answer is
\* lost; "db": a statement throws or the process dies; "lost": a stored account
\* no longer exists at Stripe.
FaultKinds == {"stripe", "timeout", "db", "lost"}

\* The net of a set of entries, debts included.
Total(S) == MapThenSumSet(LAMBDA e : Amount[e], S)

ASSUME PayoutsAssumption ==
    /\ \A S \in SUBSET Entries : Total(S) \in Int
    /\ WithdrawalMin \in Nat
    /\ NoWithdrawal \notin WithdrawalIds
    /\ NoAccount \notin Accounts
    /\ Faults \subseteq FaultKinds

VARIABLES
    entry,     \* status and withdrawalId of the user's WalletEntry rows
    debits,    \* the withdrawals that have a WITHDRAWAL row
    transfers, \* Stripe: what each withdrawal's transfer paid for
    account,   \* stripeConnectAccountId of the profile
    completed, \* stripeOnboardingCompleted of the profile
    exists,    \* Stripe: the accounts there are
    links,     \* accounts the user was given an onboarding link for
    ready,     \* Stripe: accounts with charges, payouts and details in order
    onboarded, \* accounts that have been ready at some time
    events,    \* account.updated events Stripe has sent, and may send again
    task       \* the requests in flight

wallet == <<entry, debits, transfers>>
profile == <<account, completed>>
connect == <<exists, links, ready, onboarded, events>>
vars == <<wallet, profile, connect, task>>

NoTransfer == [entries |-> {}, total |-> 0, account |-> NoAccount]
NoEntry == [status |-> "none", withdrawal |-> NoWithdrawal]
Idle == [pc |-> "idle", entries |-> {}, account |-> NoAccount,
         withdrawal |-> NoWithdrawal, again |-> FALSE]

Init ==
    /\ entry = [e \in Entries |-> NoEntry]
    /\ debits = {}
    /\ transfers = [w \in WithdrawalIds |-> NoTransfer]
    /\ account = NoAccount
    /\ completed = FALSE
    /\ exists = {}
    /\ links = {}
    /\ ready = {}
    /\ onboarded = {}
    /\ events = {}
    /\ task = [t \in Tasks |-> Idle]

-----------------------------------------------------------------------------
(* Helpers *)

At(t, pc) == task[t].pc = pc
Goto(t, pc) == task' = [task EXCEPT ![t].pc = pc]
Done(t) == task' = [task EXCEPT ![t] = Idle]

Available == {e \in Entries : entry[e].status = "AVAILABLE"}
UsedIds ==
    debits \cup {w \in WithdrawalIds : transfers[w] # NoTransfer}
           \cup {task[t].withdrawal : t \in Tasks}

\* An earning is released, or a compensation or a debt is booked.
BecomesAvailable(e) ==
    /\ entry[e].status = "none"
    /\ entry' = [entry EXCEPT ![e].status = "AVAILABLE"]
    /\ UNCHANGED <<debits, transfers, profile, connect, task>>

-----------------------------------------------------------------------------
(* POST /wallet/withdraw *)

\* Mutant: the minimum is not checked.
RequestAnyAmount(t) ==
    /\ task[t] = Idle
    /\ Total(Available) >= 0
    /\ task' = [task EXCEPT ![t].pc = "target", ![t].entries = Available]
    /\ UNCHANGED <<wallet, profile, connect>>

\* The AVAILABLE entries are read, debts included; a net debt, or less than the
\* minimum, is refused.
RequestWithdrawal(t) ==
    /\ task[t] = Idle
    /\ Total(Available) >= 0
    /\ Total(Available) >= WithdrawalMin
    /\ task' = [task EXCEPT ![t].pc = "target", ![t].entries = Available]
    /\ UNCHANGED <<wallet, profile, connect>>

\* The profile is read: no completed onboarding or no account is a 403.
ResolvePayoutTarget(t) ==
    /\ At(t, "target")
    /\ IF completed /\ account # NoAccount
       THEN \E w \in WithdrawalIds \ UsedIds :
              task' = [task EXCEPT ![t].pc = "transfer", ![t].account = account,
                                   ![t].withdrawal = w]
       ELSE Done(t)
    /\ UNCHANGED <<wallet, profile, connect>>

\* Stripe transfers the total, or refuses; the handler throws when it did not
\* get the transfer.  The idempotency key is the withdrawal's own id.  (Stripe
\* asks less of an account that receives a transfer than the flag does.)
CreateTransfer(t) ==
    /\ At(t, "transfer")
    /\ \/ /\ task[t].account \in exists
          /\ transfers' = [transfers EXCEPT ![task[t].withdrawal] =
                             [entries |-> task[t].entries,
                              total |-> Total(task[t].entries),
                              account |-> task[t].account]]
          /\ Goto(t, "settle") \/ ("timeout" \in Faults /\ Done(t))
       \/ /\ "stripe" \in Faults \/ task[t].account \notin exists
          /\ Done(t)
          /\ UNCHANGED transfers
    /\ UNCHANGED <<entry, debits, profile, connect>>

\* Mutant: the entries are settled by their status, not by the ids that were read.
SettleByStatus(t) ==
    /\ At(t, "settle")
    /\ entry' = [e \in Entries |->
                   IF e \in Available
                   THEN [status |-> "PAID_OUT", withdrawal |-> task[t].withdrawal]
                   ELSE entry[e]]
    /\ debits' = debits \cup {task[t].withdrawal}
    /\ Done(t)
    /\ UNCHANGED <<transfers, profile, connect>>

\* One transaction: the entries that were read become PAID_OUT, by id, and the
\* debit row is inserted.
Settle(t) ==
    /\ At(t, "settle")
    /\ entry' = [e \in Entries |->
                   IF e \in task[t].entries
                   THEN [status |-> "PAID_OUT", withdrawal |-> task[t].withdrawal]
                   ELSE entry[e]]
    /\ debits' = debits \cup {task[t].withdrawal}
    /\ Done(t)
    /\ UNCHANGED <<transfers, profile, connect>>

-----------------------------------------------------------------------------
(* POST /payments/onboarding: createAccountLink *)

\* The profile is read: a stored account is reused.
CreateAccountLink(t) ==
    /\ task[t] = Idle
    /\ task' = [task EXCEPT
                  ![t].pc = IF account = NoAccount THEN "create" ELSE "mint",
                  ![t].account = account]
    /\ UNCHANGED <<wallet, profile, connect>>

\* createExpressAccount: the account is created at Stripe, which reports it,
\* not ready yet.
CreateExpressAccount(t) ==
    /\ At(t, "create")
    /\ \/ \E a \in Accounts \ exists :
            /\ a \notin {ev.account : ev \in events}
            /\ exists' = exists \cup {a}
            /\ events' = events \cup {[account |-> a, ready |-> FALSE]}
            /\ task' = [task EXCEPT ![t].pc = "saveAccount", ![t].account = a]
       \/ "stripe" \in Faults /\ Done(t) /\ UNCHANGED <<exists, events>>
    /\ UNCHANGED <<wallet, profile, links, ready, onboarded>>

\* Its id is stored on the profile; the onboarding flag is left as it is.
SaveAccount(t) ==
    /\ At(t, "saveAccount")
    /\ account' = task[t].account
    /\ Goto(t, "mint")
    /\ UNCHANGED <<wallet, completed, connect>>

\* A link is minted.  An account Stripe does not know is replaced, once.
MintAccountLink(t) ==
    /\ At(t, "mint")
    /\ \/ /\ task[t].account \in exists
          /\ links' = links \cup {task[t].account}
          /\ Done(t)
       \/ /\ task[t].account \notin exists
          /\ IF task[t].again
             THEN Done(t)
             ELSE task' = [task EXCEPT ![t].pc = "create", ![t].again = TRUE]
          /\ UNCHANGED links
       \/ "stripe" \in Faults /\ Done(t) /\ UNCHANGED links
    /\ UNCHANGED <<wallet, profile, exists, ready, onboarded, events>>

\* A statement throws, or the process dies.
Abort(t) ==
    /\ "db" \in Faults
    /\ task[t] # Idle
    /\ Done(t)
    /\ UNCHANGED <<wallet, profile, connect>>

-----------------------------------------------------------------------------
(* Stripe *)

\* The user fills in the form of a link: the account becomes ready, or later
\* stops being so, and Stripe reports it.
OnboardingFinished(a) ==
    /\ a \in (links \cap exists) \ ready
    /\ ready' = ready \cup {a}
    /\ onboarded' = onboarded \cup {a}
    /\ events' = events \cup {[account |-> a, ready |-> TRUE]}
    /\ UNCHANGED <<wallet, profile, exists, links, task>>

RequirementsDue(a) ==
    /\ a \in ready
    /\ ready' = ready \ {a}
    /\ events' = events \cup {[account |-> a, ready |-> FALSE]}
    /\ UNCHANGED <<wallet, profile, exists, links, onboarded, task>>

AccountLost(a) ==
    /\ "lost" \in Faults
    /\ a \in exists
    /\ exists' = exists \ {a}
    /\ ready' = ready \ {a}
    /\ UNCHANGED <<wallet, profile, links, onboarded, events, task>>

\* account.updated: the flag of the profile that holds this account is set to
\* what the event says.  An event may come again later.
HandleAccountUpdated(ev) ==
    /\ ev \in events
    /\ completed' = IF ev.account = account THEN ev.ready ELSE completed
    /\ UNCHANGED <<wallet, account, connect, task>>

-----------------------------------------------------------------------------
Next ==
    \/ \E t \in Tasks :
         \/ RequestWithdrawal(t) \/ ResolvePayoutTarget(t) \/ CreateTransfer(t)
         \/ Settle(t)
         \/ CreateAccountLink(t) \/ CreateExpressAccount(t) \/ SaveAccount(t)
         \/ MintAccountLink(t)
         \/ Abort(t)
    \/ \E e \in Entries : BecomesAvailable(e)
    \/ \E a \in Accounts :
         OnboardingFinished(a) \/ RequirementsDue(a) \/ AccountLost(a)
    \/ \E ev \in events : HandleAccountUpdated(ev)

Spec == Init /\ [][Next]_vars

-----------------------------------------------------------------------------
(* Properties *)

EventType == [account : Accounts, ready : BOOLEAN]
TaskType ==
    [pc : {"idle", "target", "transfer", "settle", "create", "saveAccount", "mint"},
     entries : SUBSET Entries, account : Accounts \cup {NoAccount},
     withdrawal : WithdrawalIds \cup {NoWithdrawal}, again : BOOLEAN]
TypeOK ==
    /\ task \in [Tasks -> TaskType]
    /\ entry \in [Entries -> [status : {"none", "AVAILABLE", "PAID_OUT"},
                              withdrawal : WithdrawalIds \cup {NoWithdrawal}]]
    /\ debits \subseteq WithdrawalIds
    /\ transfers \in [WithdrawalIds ->
                       [entries : SUBSET Entries, total : Int,
                        account : Accounts \cup {NoAccount}]]
    /\ account \in Accounts \cup {NoAccount}
    /\ completed \in BOOLEAN
    /\ exists \subseteq Accounts
    /\ links \subseteq Accounts
    /\ ready \subseteq Accounts
    /\ onboarded \subseteq Accounts
    /\ events \subseteq EventType

\* An entry is PAID_OUT only when a transfer of its withdrawal counted it: an
\* earning that is released between the read of the balance and the settlement
\* is neither lost nor paid without being marked (requestWithdrawal).
SettledWasTransferred ==
    \A e \in Entries : entry[e].status = "PAID_OUT" =>
      /\ entry[e].withdrawal \in debits
      /\ e \in transfers[entry[e].withdrawal].entries

\* What a debit row books is what its transfer paid, and never below the
\* minimum, although the balance moves between the read and the transfer.
DebitsMatchTransfers ==
    \A w \in debits :
      /\ transfers[w].total = Total(transfers[w].entries)
      /\ transfers[w].total >= WithdrawalMin

\* No money leaves before the user finished an onboarding form: the flag that
\* opens the gate is written by late and repeated webhooks, for an account that
\* other requests replace (resolvePayoutTarget, handleAccountUpdated).
NoPayoutBeforeOnboarding ==
    (\E w \in WithdrawalIds : transfers[w] # NoTransfer) => onboarded # {}

\* "Creates ONE Stripe transfer (idempotency-keyed)" (requestWithdrawal): an
\* entry is paid by one transfer.  Holds for requests one after the other whose
\* failures are refusals; overlapping requests violate it.
PaidOutOnce ==
    \A v, w \in WithdrawalIds :
      v # w => transfers[v].entries \cap transfers[w].entries = {}

\* "Idempotent across calls: if stripeConnectAccountId is already set, we just
\* mint a new link against the existing account" (createAccountLink).
OneAccountPerUser == Cardinality(exists) <= 1

\* "Need a completed onboarding AND a Connect account id" (requestWithdrawal):
\* what passes the gate is an account whose onboarding was completed.
GateSeesOnboardedAccount ==
    \A t \in Tasks : At(t, "transfer") => task[t].account \in onboarded

\* "Idempotent - Stripe may deliver the same event multiple times" (handleEvent):
\* a repeated event does not close the gate on an account that is in order.
RedeliveryHarmless ==
    [][completed /\ ~completed' => account \notin ready]_vars
=============================================================================
