---------------------------- MODULE PayoutsProofs ----------------------------
(***************************************************************************)
(* Withdrawals are booked as they were paid, for any number of requests,   *)
(* entries and accounts and any failures.                                  *)
(*                                                                         *)
(* The argument: an id belongs to one request until its debit row exists   *)
(* (IdsOwned, IdsDistinct), so a transfer that a debit row stands for is   *)
(* never overwritten; and between the transfer and the settlement the      *)
(* request remembers exactly what the transfer paid for (TransfersKept).   *)
(***************************************************************************)
EXTENDS Payouts, TLAPS

\* A request has a withdrawal id from the gate to its end, and no debit row has
\* that id yet.
IdsOwned ==
    \A t \in Tasks :
      IF task[t].pc \in {"transfer", "settle"}
      THEN task[t].withdrawal \in WithdrawalIds \ debits
      ELSE task[t].withdrawal = NoWithdrawal

IdsDistinct ==
    \A t, u \in Tasks :
      task[t].withdrawal = task[u].withdrawal /\ task[t].withdrawal # NoWithdrawal
        => t = u

\* What a request read is worth the minimum.
Enough ==
    \A t \in Tasks :
      task[t].pc \in {"target", "transfer", "settle"} =>
        Total(task[t].entries) >= WithdrawalMin

\* A request that is about to settle knows what its transfer paid for.
TransfersKept ==
    \A t \in Tasks :
      At(t, "settle") =>
        /\ transfers[task[t].withdrawal].entries = task[t].entries
        /\ transfers[task[t].withdrawal].total = Total(task[t].entries)

\* The flag, and a request that passed the gate, go back to an event that says
\* ready, and that to an onboarding that was finished.
GateOpened ==
    /\ \A ev \in events : ev.ready => onboarded # {}
    /\ completed => onboarded # {}
    /\ \A t \in Tasks : At(t, "transfer") => onboarded # {}

IInv ==
    /\ TypeOK
    /\ IdsOwned
    /\ IdsDistinct
    /\ Enough
    /\ TransfersKept
    /\ GateOpened
    /\ SettledWasTransferred
    /\ DebitsMatchTransfers
    /\ NoPayoutBeforeOnboarding

USE PayoutsAssumption

-----------------------------------------------------------------------------
\* The initial state satisfies the invariant.
LEMMA InitIInv == Init => IInv
  <1> SUFFICES ASSUME Init PROVE IInv
    OBVIOUS
  <1>1. \A t \in Tasks : task[t] = Idle
    BY DEF Init
  <1>2. TypeOK
    <2>1. Idle \in TaskType
      BY DEF Idle, TaskType
    <2>2. task \in [Tasks -> TaskType]
      <3> HIDE DEF Idle
      <3> QED BY <2>1 DEF Init
    <2>3. NoTransfer \in [entries : SUBSET Entries, total : Int,
                         account : Accounts \cup {NoAccount}]
      BY DEF NoTransfer
    <2>4. transfers \in [WithdrawalIds ->
                          [entries : SUBSET Entries, total : Int,
                           account : Accounts \cup {NoAccount}]]
      BY <2>3 DEF Init
    <2>5. entry \in [Entries -> [status : {"none", "AVAILABLE", "PAID_OUT"},
                                 withdrawal : WithdrawalIds \cup {NoWithdrawal}]]
      BY DEF Init, NoEntry
    <2> QED BY <2>2, <2>4, <2>5 DEF Init, TypeOK
  <1>3. IdsOwned /\ IdsDistinct /\ Enough /\ TransfersKept
    BY <1>1 DEF IdsOwned, IdsDistinct, Enough, TransfersKept, Idle, At
  <1>4. GateOpened
    BY <1>1 DEF GateOpened, Init, At, Idle
  <1>5. SettledWasTransferred /\ DebitsMatchTransfers /\ NoPayoutBeforeOnboarding
    BY DEF SettledWasTransferred, DebitsMatchTransfers, NoPayoutBeforeOnboarding, Init,
           NoEntry
  <1> QED BY <1>2, <1>3, <1>4, <1>5 DEF IInv

\* Writing one request's slot keeps the others, and keeps the type.
LEMMA SlotWritten ==
  ASSUME TypeOK, NEW t \in Tasks, NEW k \in TaskType, task' = [task EXCEPT ![t] = k]
  PROVE  /\ task' \in [Tasks -> TaskType]
         /\ task'[t] = k
         /\ \A u \in Tasks \ {t} : task'[u] = task[u]
  BY DEF TypeOK

\* An idle slot is well typed.
LEMMA IdleTyped == Idle \in TaskType
  BY DEF Idle, TaskType
\* Going on to another step only changes the step.
LEMMA GotoWrites ==
  ASSUME TypeOK, NEW t \in Tasks,
         NEW pc \in {"idle", "target", "transfer", "settle", "create", "saveAccount",
                     "mint"},
         Goto(t, pc)
  PROVE  /\ task' \in [Tasks -> TaskType]
         /\ task'[t].pc = pc
         /\ task'[t].entries = task[t].entries
         /\ task'[t].account = task[t].account
         /\ task'[t].withdrawal = task[t].withdrawal
         /\ \A u \in Tasks \ {t} : task'[u] = task[u]
  <1>1. task[t] \in TaskType
    BY DEF TypeOK
  <1>2. [task[t] EXCEPT !.pc = pc] \in TaskType
    BY <1>1 DEF TaskType
  <1>3. task' = [task EXCEPT ![t] = [task[t] EXCEPT !.pc = pc]]
    BY DEF Goto
  <1> QED BY <1>1, <1>2, <1>3 DEF TypeOK, TaskType

\* Ending empties the slot.
LEMMA DoneWrites ==
  ASSUME TypeOK, NEW t \in Tasks, Done(t)
  PROVE  /\ task' \in [Tasks -> TaskType]
         /\ task'[t] = Idle
         /\ \A u \in Tasks \ {t} : task'[u] = task[u]
  BY IdleTyped, SlotWritten DEF Done

-----------------------------------------------------------------------------
\* Steps that leave wallet, gate and the request's withdrawal alone: whatever
\* only ends a request, or works on the account, keeps the invariant.
LEMMA SlotOnly ==
  ASSUME IInv, NEW t \in Tasks,
         UNCHANGED <<wallet, completed, onboarded>>,
         task' \in [Tasks -> TaskType],
         \A u \in Tasks \ {t} : task'[u] = task[u],
         task'[t].pc \notin {"target", "transfer", "settle"},
         task'[t].withdrawal = NoWithdrawal,
         account' \in Accounts \cup {NoAccount},
         exists' \in SUBSET Accounts, links' \in SUBSET Accounts,
         ready' \in SUBSET Accounts, events' \in SUBSET EventType,
         \A ev \in events' : ev.ready => ev \in events
  PROVE  IInv'
  <1>1. TypeOK'
    BY DEF IInv, TypeOK, wallet
  <1>2. IdsOwned' /\ Enough' /\ TransfersKept'
    <2> SUFFICES ASSUME NEW u \in Tasks
                 PROVE  /\ IdsOwned!(u)'
                        /\ Enough!(u)'
                        /\ TransfersKept!(u)'
      BY DEF IdsOwned, Enough, TransfersKept
    <2>1. CASE u = t
      BY <2>1 DEF At
    <2>2. CASE u # t
      BY <2>2 DEF IInv, IdsOwned, Enough, TransfersKept, At, wallet
    <2> QED BY <2>1, <2>2
  <1>3. IdsDistinct'
    BY DEF IInv, IdsDistinct
  <1>4. GateOpened'
    <2>1. \A u \in Tasks : At(u, "transfer")' => At(u, "transfer")
      BY DEF At
    <2> QED BY <2>1 DEF IInv, GateOpened
  <1>5. SettledWasTransferred' /\ DebitsMatchTransfers' /\ NoPayoutBeforeOnboarding'
    BY DEF IInv, SettledWasTransferred, DebitsMatchTransfers,
           NoPayoutBeforeOnboarding, wallet
  <1> QED BY <1>1, <1>2, <1>3, <1>4, <1>5 DEF IInv

\* A request that ends without writing keeps the invariant.
LEMMA JustDone ==
  ASSUME IInv, NEW t \in Tasks, Done(t), UNCHANGED <<wallet, profile, connect>>
  PROVE  IInv'
  <1>1. TypeOK
    BY DEF IInv
  <1>2. /\ task' \in [Tasks -> TaskType]
        /\ task'[t] = Idle
        /\ \A u \in Tasks \ {t} : task'[u] = task[u]
    BY <1>1, DoneWrites
  <1> QED BY <1>1, <1>2, SlotOnly DEF Idle, profile, connect, TypeOK

-----------------------------------------------------------------------------
(* Withdrawals *)

\* Reading the balance keeps the invariant: what was read is worth the minimum.
LEMMA RequestKeeps ==
  ASSUME IInv, NEW t \in Tasks, RequestWithdrawal(t)
  PROVE  IInv'
  <1> DEFINE k == [Idle EXCEPT !.pc = "target", !.entries = Available]
  <1>1. k \in TaskType
    BY IdleTyped DEF TaskType, Available
  <1>2. task' = [task EXCEPT ![t] = k]
    BY DEF RequestWithdrawal, IInv, TypeOK
  <1>3. /\ task' \in [Tasks -> TaskType]
        /\ task'[t] = k
        /\ \A u \in Tasks \ {t} : task'[u] = task[u]
    <2> HIDE DEF k
    <2> QED BY <1>1, <1>2, SlotWritten DEF IInv
  <1>4. /\ task'[t].pc = "target" /\ task'[t].entries = Available
        /\ task'[t].withdrawal = NoWithdrawal
    BY <1>3 DEF Idle
  <1> HIDE DEF k
  <1>5. TypeOK'
    BY <1>3 DEF IInv, TypeOK, RequestWithdrawal, wallet, profile, connect
  <1>6. IdsOwned' /\ Enough' /\ TransfersKept'
    <2> SUFFICES ASSUME NEW u \in Tasks
                 PROVE  /\ IdsOwned!(u)'
                        /\ Enough!(u)'
                        /\ TransfersKept!(u)'
      BY DEF IdsOwned, Enough, TransfersKept
    <2>1. CASE u = t
      BY <2>1, <1>4 DEF At, RequestWithdrawal
    <2>2. CASE u # t
      BY <2>2, <1>3 DEF IInv, IdsOwned, Enough, TransfersKept, At, wallet,
                        RequestWithdrawal
    <2> QED BY <2>1, <2>2
  <1>7. IdsDistinct'
    BY <1>3, <1>4 DEF IInv, IdsDistinct
  <1>8. GateOpened'
    BY <1>3, <1>4 DEF IInv, GateOpened, At, RequestWithdrawal, profile, connect
  <1>9. SettledWasTransferred' /\ DebitsMatchTransfers' /\ NoPayoutBeforeOnboarding'
    BY DEF IInv, SettledWasTransferred, DebitsMatchTransfers,
           NoPayoutBeforeOnboarding, RequestWithdrawal, wallet, connect
  <1> QED BY <1>5, <1>6, <1>7, <1>8, <1>9 DEF IInv

\* Passing the gate: the request gets an id that nobody else has.
LEMMA ResolveKeeps ==
  ASSUME IInv, NEW t \in Tasks, ResolvePayoutTarget(t)
  PROVE  IInv'
  <1>1. CASE ~(completed /\ account # NoAccount)
    BY <1>1, JustDone DEF ResolvePayoutTarget
  <1>2. CASE completed /\ account # NoAccount
    <2>1. PICK w \in WithdrawalIds \ UsedIds :
            task' = [task EXCEPT ![t].pc = "transfer", ![t].account = account,
                                 ![t].withdrawal = w]
      BY <1>2 DEF ResolvePayoutTarget
    <2> DEFINE k == [task[t] EXCEPT !.pc = "transfer", !.account = account,
                                    !.withdrawal = w]
    <2>2. task[t] \in TaskType /\ account \in Accounts \cup {NoAccount}
      BY DEF IInv, TypeOK
    <2>3. k \in TaskType
      BY <2>2 DEF TaskType
    <2>4. task' = [task EXCEPT ![t] = k]
      BY <2>1
    <2>5. /\ task' \in [Tasks -> TaskType]
          /\ task'[t] = k
          /\ \A u \in Tasks \ {t} : task'[u] = task[u]
      <3> HIDE DEF k
      <3> QED BY <2>3, <2>4, SlotWritten DEF IInv
    <2>6. /\ task'[t].pc = "transfer" /\ task'[t].entries = task[t].entries
          /\ task'[t].withdrawal = w
      BY <2>5, <2>2 DEF TaskType
    <2> HIDE DEF k
    <2>7. w \notin debits /\ \A u \in Tasks : task[u].withdrawal # w
      BY DEF UsedIds
    <2>8. TypeOK'
      BY <2>5 DEF IInv, TypeOK, ResolvePayoutTarget, wallet, profile, connect
    <2>9. IdsOwned' /\ Enough' /\ TransfersKept'
      <3> SUFFICES ASSUME NEW u \in Tasks
                   PROVE  /\ IdsOwned!(u)'
                          /\ Enough!(u)'
                          /\ TransfersKept!(u)'
        BY DEF IdsOwned, Enough, TransfersKept
      <3>1. CASE u = t
        BY <3>1, <2>6, <2>7 DEF IInv, Enough, At, ResolvePayoutTarget, wallet
      <3>2. CASE u # t
        BY <3>2, <2>5 DEF IInv, IdsOwned, Enough, TransfersKept, At, wallet,
                          ResolvePayoutTarget
      <3> QED BY <3>1, <3>2
    <2>10. IdsDistinct'
      BY <2>5, <2>6, <2>7 DEF IInv, IdsDistinct
    <2>11. GateOpened'
      BY <1>2, <2>5 DEF IInv, GateOpened, At, ResolvePayoutTarget, profile, connect
    <2>12. SettledWasTransferred' /\ DebitsMatchTransfers' /\ NoPayoutBeforeOnboarding'
      BY DEF IInv, SettledWasTransferred, DebitsMatchTransfers,
             NoPayoutBeforeOnboarding, ResolvePayoutTarget, wallet, connect
    <2> QED BY <2>8, <2>9, <2>10, <2>11, <2>12 DEF IInv
  <1> QED BY <1>1, <1>2

\* The transfer is made under an id that has no debit row and no other owner.
LEMMA TransferKeeps ==
  ASSUME IInv, NEW t \in Tasks, CreateTransfer(t)
  PROVE  IInv'
  <1> DEFINE w == task[t].withdrawal
             made == [entries |-> task[t].entries, total |-> Total(task[t].entries),
                      account |-> task[t].account]
  <1>0. TypeOK /\ At(t, "transfer")
    BY DEF IInv, CreateTransfer
  <1>1. w \in WithdrawalIds \ debits /\ Total(task[t].entries) >= WithdrawalMin
    BY <1>0 DEF IInv, IdsOwned, Enough, At
  <1>2. CASE transfers' = transfers /\ Done(t)
    BY <1>2, JustDone DEF CreateTransfer, wallet
  <1>3. CASE transfers' = [transfers EXCEPT ![w] = made] /\ (Goto(t, "settle") \/ Done(t))
    <2>1. /\ task' \in [Tasks -> TaskType]
          /\ \A u \in Tasks \ {t} : task'[u] = task[u]
          /\ \/ /\ task'[t].pc = "settle" /\ task'[t].withdrawal = w
                /\ task'[t].entries = task[t].entries
             \/ task'[t].pc = "idle" /\ task'[t].withdrawal = NoWithdrawal
      BY <1>0, <1>3, GotoWrites, DoneWrites DEF Idle
    <2>2. made \in [entries : SUBSET Entries, total : Int,
                    account : Accounts \cup {NoAccount}]
      <3>1. task[t].entries \in SUBSET Entries
              /\ task[t].account \in Accounts \cup {NoAccount}
        BY <1>0 DEF TypeOK, TaskType
      <3> QED BY <3>1
    <2>3. /\ transfers'[w].entries = task[t].entries
          /\ transfers'[w].total = Total(task[t].entries)
          /\ \A v \in WithdrawalIds \ {w} : transfers'[v] = transfers[v]
      BY <1>0, <1>1, <1>3 DEF TypeOK
    <2>4. TypeOK'
      <3>1. transfers' \in [WithdrawalIds ->
                             [entries : SUBSET Entries, total : Int,
                              account : Accounts \cup {NoAccount}]]
        <4> HIDE DEF made
        <4> QED BY <1>0, <1>3, <2>2 DEF TypeOK
      <3> QED BY <1>0, <2>1, <3>1 DEF TypeOK, CreateTransfer, profile, connect
    <2>5. IdsOwned' /\ Enough' /\ TransfersKept'
      <3> SUFFICES ASSUME NEW u \in Tasks
                   PROVE  /\ IdsOwned!(u)'
                          /\ Enough!(u)'
                          /\ TransfersKept!(u)'
        BY DEF IdsOwned, Enough, TransfersKept
      <3>1. CASE u = t
        BY <3>1, <1>1, <2>1, <2>3 DEF At, CreateTransfer
      <3>2. CASE u # t
        <4>1. task'[u] = task[u]
          BY <3>2, <2>1
        <4>2. At(u, "settle") => task[u].withdrawal \in WithdrawalIds \ {w}
          BY <3>2, <1>1 DEF IInv, IdsOwned, IdsDistinct, At
        <4> QED BY <4>1, <4>2, <2>3
                DEF IInv, IdsOwned, Enough, TransfersKept, At, CreateTransfer
      <3> QED BY <3>1, <3>2
    <2>6. IdsDistinct'
      BY <2>1 DEF IInv, IdsDistinct
    <2>7. GateOpened'
      BY <2>1 DEF IInv, GateOpened, At, CreateTransfer, profile, connect
    <2>8. SettledWasTransferred' /\ DebitsMatchTransfers'
      <3>1. entry' = entry /\ debits' = debits
        BY DEF CreateTransfer
      <3>2. \A v \in debits : v \in WithdrawalIds \ {w}
        BY <1>0, <1>1 DEF TypeOK
      <3> QED BY <2>3, <3>1, <3>2 DEF IInv, SettledWasTransferred, DebitsMatchTransfers
    <2>9. NoPayoutBeforeOnboarding'
      BY <1>0 DEF IInv, GateOpened, NoPayoutBeforeOnboarding, CreateTransfer, connect
    <2> QED BY <2>4, <2>5, <2>6, <2>7, <2>8, <2>9 DEF IInv
  <1> QED BY <1>2, <1>3 DEF CreateTransfer

\* The settlement marks what the transfer paid for, and nothing else.
LEMMA SettleKeeps ==
  ASSUME IInv, NEW t \in Tasks, Settle(t)
  PROVE  IInv'
  <1> DEFINE w == task[t].withdrawal
  <1>0. TypeOK /\ At(t, "settle")
    BY DEF IInv, Settle
  <1>1. /\ w \in WithdrawalIds \ debits
        /\ transfers[w].entries = task[t].entries
        /\ transfers[w].total = Total(task[t].entries)
        /\ Total(task[t].entries) >= WithdrawalMin
    BY <1>0 DEF IInv, IdsOwned, TransfersKept, Enough, At
  <1>2. /\ task' \in [Tasks -> TaskType]
        /\ task'[t] = Idle
        /\ \A u \in Tasks \ {t} : task'[u] = task[u]
    BY <1>0, DoneWrites DEF Settle
  <1>3. /\ debits' = debits \cup {w} /\ transfers' = transfers
        /\ \A e \in Entries : entry'[e] = IF e \in task[t].entries
                                          THEN [status |-> "PAID_OUT", withdrawal |-> w]
                                          ELSE entry[e]
    BY DEF Settle
  <1>4. TypeOK'
    <2>1. entry' \in [Entries -> [status : {"none", "AVAILABLE", "PAID_OUT"},
                                  withdrawal : WithdrawalIds \cup {NoWithdrawal}]]
      BY <1>0, <1>1 DEF Settle, TypeOK
    <2> QED BY <1>0, <1>1, <1>2, <1>3, <2>1 DEF TypeOK, Settle, profile, connect
  <1>5. IdsOwned' /\ Enough' /\ TransfersKept'
    <2> SUFFICES ASSUME NEW u \in Tasks
                 PROVE  /\ IdsOwned!(u)'
                        /\ Enough!(u)'
                        /\ TransfersKept!(u)'
      BY DEF IdsOwned, Enough, TransfersKept
    <2>1. CASE u = t
      BY <2>1, <1>2 DEF At, Idle
    <2>2. CASE u # t
      <3>1. task'[u] = task[u] /\ task[u].withdrawal # w
        BY <2>2, <1>1, <1>2 DEF IInv, IdsDistinct
      <3> QED BY <3>1, <1>3 DEF IInv, IdsOwned, Enough, TransfersKept, At
    <2> QED BY <2>1, <2>2
  <1>6. IdsDistinct'
    BY <1>2 DEF IInv, IdsDistinct, Idle
  <1>7. GateOpened'
    BY <1>2 DEF IInv, GateOpened, At, Idle, Settle, profile, connect
  <1>8. SettledWasTransferred'
    <2> SUFFICES ASSUME NEW e \in Entries, entry'[e].status = "PAID_OUT"
                 PROVE  /\ entry'[e].withdrawal \in debits'
                        /\ e \in transfers'[entry'[e].withdrawal].entries
      BY DEF SettledWasTransferred
    <2>1. CASE e \in task[t].entries
      BY <2>1, <1>1, <1>3
    <2>2. CASE e \notin task[t].entries
      BY <2>2, <1>3 DEF IInv, SettledWasTransferred
    <2> QED BY <2>1, <2>2
  <1>9. DebitsMatchTransfers' /\ NoPayoutBeforeOnboarding'
    BY <1>1, <1>3 DEF IInv, DebitsMatchTransfers, NoPayoutBeforeOnboarding, Settle,
                      connect
  <1> QED BY <1>4, <1>5, <1>6, <1>7, <1>8, <1>9 DEF IInv

-----------------------------------------------------------------------------
(* The account, Stripe, and the webhook *)

\* Requests for an onboarding link only touch the account.
LEMMA LinkKeeps ==
  ASSUME IInv, NEW t \in Tasks,
         \/ CreateAccountLink(t) \/ CreateExpressAccount(t) \/ SaveAccount(t)
         \/ MintAccountLink(t)
  PROVE  IInv'
  <1>0. TypeOK /\ task[t] \in TaskType
    BY DEF IInv, TypeOK
  <1>1. CASE CreateAccountLink(t)
    <2> DEFINE k == [Idle EXCEPT !.pc = IF account = NoAccount THEN "create" ELSE "mint",
                                 !.account = account]
    <2>1. k \in TaskType
      BY <1>0, IdleTyped DEF TypeOK, TaskType
    <2>2. task' = [task EXCEPT ![t] = k]
      BY <1>0, <1>1 DEF CreateAccountLink, TypeOK
    <2>3. k.pc \notin {"target", "transfer", "settle"} /\ k.withdrawal = NoWithdrawal
      BY DEF Idle
    <2> HIDE DEF k
    <2>4. /\ task' \in [Tasks -> TaskType] /\ task'[t] = k
          /\ \A u \in Tasks \ {t} : task'[u] = task[u]
      BY <1>0, <2>1, <2>2, SlotWritten
    <2>5. UNCHANGED <<wallet, profile, connect>>
      BY <1>1 DEF CreateAccountLink
    <2> QED BY <1>0, <2>3, <2>4, <2>5, SlotOnly DEF TypeOK, profile, connect
  <1>2. CASE CreateExpressAccount(t)
    <2>0. task[t].withdrawal = NoWithdrawal
      BY <1>2 DEF CreateExpressAccount, IInv, IdsOwned, At
    <2>1. CASE Done(t) /\ UNCHANGED <<exists, events>>
      BY <1>2, <2>1, JustDone DEF CreateExpressAccount, connect
    <2>2. ASSUME NEW a \in Accounts \ exists,
                 exists' = exists \cup {a},
                 events' = events \cup {[account |-> a, ready |-> FALSE]},
                 task' = [task EXCEPT ![t].pc = "saveAccount", ![t].account = a]
          PROVE  IInv'
      <3> DEFINE k == [task[t] EXCEPT !.pc = "saveAccount", !.account = a]
      <3>1. k \in TaskType /\ k.pc = "saveAccount" /\ k.withdrawal = NoWithdrawal
        BY <1>0, <2>0 DEF TaskType
      <3>2. task' = [task EXCEPT ![t] = k]
        BY <2>2
      <3> HIDE DEF k
      <3>3. /\ task' \in [Tasks -> TaskType] /\ task'[t] = k
            /\ \A u \in Tasks \ {t} : task'[u] = task[u]
        BY <1>0, <3>1, <3>2, SlotWritten
      <3>4. events' \in SUBSET EventType /\ \A ev \in events' : ev.ready => ev \in events
        <4> DEFINE ev0 == [account |-> a, ready |-> FALSE]
        <4>1. ev0 \in EventType /\ ~ev0.ready
          BY DEF EventType
        <4> HIDE DEF ev0
        <4>2. events' = events \cup {ev0}
          BY <2>2 DEF ev0
        <4> QED BY <1>0, <4>1, <4>2 DEF TypeOK
      <3>5. UNCHANGED <<wallet, profile, links, ready, onboarded>>
        BY <1>2 DEF CreateExpressAccount
      <3> QED BY <1>0, <2>2, <3>1, <3>3, <3>4, <3>5, SlotOnly DEF TypeOK, profile
    <2> QED BY <1>2, <2>1, <2>2 DEF CreateExpressAccount
  <1>3. CASE SaveAccount(t)
    <2>0. task[t].withdrawal = NoWithdrawal
      BY <1>3 DEF SaveAccount, IInv, IdsOwned, At
    <2>1. account' \in Accounts \cup {NoAccount}
      BY <1>0, <1>3 DEF SaveAccount, TaskType
    <2>2. /\ task' \in [Tasks -> TaskType] /\ task'[t].pc = "mint"
          /\ task'[t].withdrawal = NoWithdrawal
          /\ \A u \in Tasks \ {t} : task'[u] = task[u]
      BY <1>0, <1>3, <2>0, GotoWrites DEF SaveAccount
    <2>3. UNCHANGED <<wallet, completed, connect>>
      BY <1>3 DEF SaveAccount
    <2> QED BY <1>0, <2>1, <2>2, <2>3, SlotOnly DEF TypeOK, connect
  <1>4. CASE MintAccountLink(t)
    <2>0. task[t].withdrawal = NoWithdrawal
      BY <1>4 DEF MintAccountLink, IInv, IdsOwned, At
    <2>1. links' \in SUBSET Accounts
      BY <1>0, <1>4 DEF MintAccountLink, TypeOK
    <2>2. UNCHANGED <<wallet, profile, exists, ready, onboarded, events>>
      BY <1>4 DEF MintAccountLink
    <2>3. CASE Done(t)
      <3>1. /\ task' \in [Tasks -> TaskType] /\ task'[t] = Idle
            /\ \A u \in Tasks \ {t} : task'[u] = task[u]
        BY <1>0, <2>3, DoneWrites
      <3> QED BY <1>0, <2>1, <2>2, <3>1, SlotOnly DEF TypeOK, profile, Idle
    <2>4. CASE task' = [task EXCEPT ![t].pc = "create", ![t].again = TRUE]
      <3> DEFINE k == [task[t] EXCEPT !.pc = "create", !.again = TRUE]
      <3>1. k \in TaskType /\ k.pc = "create" /\ k.withdrawal = NoWithdrawal
        BY <1>0, <2>0 DEF TaskType
      <3>2. task' = [task EXCEPT ![t] = k]
        BY <2>4
      <3> HIDE DEF k
      <3>3. /\ task' \in [Tasks -> TaskType] /\ task'[t] = k
            /\ \A u \in Tasks \ {t} : task'[u] = task[u]
        BY <1>0, <3>1, <3>2, SlotWritten
      <3> QED BY <1>0, <2>1, <2>2, <3>1, <3>3, SlotOnly DEF TypeOK, profile
    <2> QED BY <1>4, <2>3, <2>4 DEF MintAccountLink
  <1> QED BY <1>1, <1>2, <1>3, <1>4

\* Stripe and its events: the set of accounts that were ready only grows, and a
\* ready event comes with it.
LEMMA StripeKeeps ==
  ASSUME IInv,
         \/ \E a \in Accounts :
              OnboardingFinished(a) \/ RequirementsDue(a) \/ AccountLost(a)
         \/ \E ev \in events : HandleAccountUpdated(ev)
         \/ \E e \in Entries : BecomesAvailable(e)
  PROVE  IInv'
  <1>1. task' = task /\ debits' = debits /\ transfers' = transfers
    BY DEF OnboardingFinished, RequirementsDue, AccountLost, HandleAccountUpdated,
           BecomesAvailable, wallet
  <1>2. /\ onboarded \subseteq onboarded'
        /\ \A ev \in events' : ev.ready => onboarded' # {}
        /\ completed' => onboarded' # {}
    BY DEF IInv, GateOpened, OnboardingFinished, RequirementsDue, AccountLost,
           HandleAccountUpdated, BecomesAvailable, profile, connect
  <1>3. TypeOK'
    <2>0. TypeOK
      BY DEF IInv
    <2>1. ASSUME NEW a \in Accounts,
                 OnboardingFinished(a) \/ RequirementsDue(a) \/ AccountLost(a)
          PROVE  TypeOK'
      <3>1. \A b \in BOOLEAN : [account |-> a, ready |-> b] \in EventType
        BY DEF EventType
      <3>2. events' \in SUBSET EventType
        BY <2>0, <2>1, <3>1 DEF TypeOK, OnboardingFinished, RequirementsDue, AccountLost
      <3>3. /\ exists' \in SUBSET Accounts /\ ready' \in SUBSET Accounts
            /\ onboarded' \in SUBSET Accounts /\ links' = links
        BY <2>0, <2>1 DEF TypeOK, OnboardingFinished, RequirementsDue, AccountLost
      <3>4. UNCHANGED <<wallet, profile>>
        BY <2>1 DEF OnboardingFinished, RequirementsDue, AccountLost
      <3> QED BY <2>0, <1>1, <3>2, <3>3, <3>4 DEF TypeOK, wallet, profile
    <2>2. ASSUME NEW ev \in events, HandleAccountUpdated(ev)
          PROVE  TypeOK'
      BY <2>0, <2>2 DEF TypeOK, EventType, HandleAccountUpdated, wallet, connect
    <2>3. ASSUME NEW e \in Entries, BecomesAvailable(e)
          PROVE  TypeOK'
      BY <2>0, <2>3 DEF TypeOK, BecomesAvailable, profile, connect
    <2> QED BY <2>1, <2>2, <2>3
  <1>4. SettledWasTransferred'
    <2>1. \A e \in Entries : entry'[e].status = "PAID_OUT" => entry'[e] = entry[e]
      BY DEF IInv, TypeOK, OnboardingFinished, RequirementsDue, AccountLost,
             HandleAccountUpdated, BecomesAvailable, wallet
    <2> QED BY <1>1, <2>1 DEF IInv, SettledWasTransferred
  <1>5. /\ IdsOwned' /\ IdsDistinct' /\ Enough' /\ TransfersKept'
        /\ DebitsMatchTransfers'
    BY <1>1 DEF IInv, IdsOwned, IdsDistinct, Enough, TransfersKept, At,
                DebitsMatchTransfers
  <1>6. GateOpened' /\ NoPayoutBeforeOnboarding'
    BY <1>1, <1>2 DEF IInv, GateOpened, NoPayoutBeforeOnboarding, At
  <1> QED BY <1>3, <1>4, <1>5, <1>6 DEF IInv

-----------------------------------------------------------------------------
\* Every step, and a stuttering step, keeps the invariant.
LEMMA NextIInv == IInv /\ [Next]_vars => IInv'
  <1> SUFFICES ASSUME IInv, [Next]_vars PROVE IInv'
    OBVIOUS
  <1>1. ASSUME NEW t \in Tasks, Abort(t) PROVE IInv'
    BY <1>1, JustDone DEF Abort
  <1>2. CASE UNCHANGED vars
    BY <1>2 DEF vars, wallet, profile, connect, IInv, TypeOK, IdsOwned, IdsDistinct,
                Enough, TransfersKept, GateOpened, At, SettledWasTransferred,
                DebitsMatchTransfers, NoPayoutBeforeOnboarding
  <1> QED BY <1>1, <1>2, RequestKeeps, ResolveKeeps, TransferKeeps, SettleKeeps,
             LinkKeeps, StripeKeeps DEF Next

\* An entry is marked paid only when the transfer of its withdrawal counted it
\* (requestWithdrawal), under every interleaving and failure.
THEOREM PaidOutWasTransferred == Spec => []SettledWasTransferred
  <1>1. IInv => SettledWasTransferred
    BY DEF IInv
  <1> QED BY InitIInv, NextIInv, <1>1, PTL DEF Spec

\* A debit row books what its transfer paid, and at least the minimum.
THEOREM DebitsAreTransfers == Spec => []DebitsMatchTransfers
  <1>1. IInv => DebitsMatchTransfers
    BY DEF IInv
  <1> QED BY InitIInv, NextIInv, <1>1, PTL DEF Spec

\* No transfer is made for a user who never finished an onboarding
\* (resolvePayoutTarget, handleAccountUpdated).
THEOREM OnboardedBeforePayout == Spec => []NoPayoutBeforeOnboarding
  <1>1. IInv => NoPayoutBeforeOnboarding
    BY DEF IInv
  <1> QED BY InitIInv, NextIInv, <1>1, PTL DEF Spec
=============================================================================
