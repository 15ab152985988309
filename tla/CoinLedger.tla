----------------------------- MODULE CoinLedger -----------------------------
(***************************************************************************)
(* The coin and trust ledgers under concurrent transactions (CoinService,  *)
(* TrustService, PenaltyService.lockAccounts).                             *)
(*                                                                         *)
(* Every transaction runs READ COMMITTED.  A movement takes its account    *)
(* with SELECT ... FOR UPDATE, which is kept until the transaction ends,   *)
(* and only then looks its key up and reads the balance; rows it inserts   *)
(* are seen by others when it commits.  One action is one statement of one *)
(* transaction: the SELECT and what follows it under the lock are one      *)
(* action because nobody else can come between them.  No unique index and  *)
(* no CHECK refuses a row here: the locks alone have to be enough.         *)
(***************************************************************************)
EXTENDS CoinMoves, FiniteSets

CONSTANT Process   \* database connections that run a transaction each

VARIABLES
  balance,  \* coin_account.balance, trust_score.score, as committed
  ledger,   \* committed rows of each account
  done,     \* marks of committed transactions
  job,      \* the transaction of a process, NoJob when it has none
  at,       \* its next statement
  held,     \* the rows it has locked
  seen,     \* balances it has read under lock and perhaps changed
  own,      \* rows it has inserted and not committed
  found     \* the movement it is about to reverse

committed == <<balance, ledger, done>>
vars == <<balance, ledger, done, job, at, held, seen, own, found>>

NoJob == [steps |-> <<>>, needs |-> {}, bars |-> {}, marks |-> {}]

Unseen == [a \in Account |-> 0]
NoRows == [a \in Account |-> <<>>]

Busy(p) == at[p] \in DOMAIN job[p].steps

Now(p) == job[p].steps[at[p]]

Rows(p, a) == ledger[a] \o own[p][a]

Bal(p, a) == IF a \in held[p] THEN seen[p][a] ELSE balance[a]

\* Deviation: accounts are read without FOR UPDATE.
FreeGate(r, p) == r \in Account \/ \A q \in Process \ {p} : r \notin held[q]

\* No other transaction has the row locked.
Free(r, p) == \A q \in Process \ {p} : r \notin held[q]

-----------------------------------------------------------------------------

Init ==
  /\ balance = [a \in Account |-> 0]
  /\ ledger = [a \in Account |-> <<>>]
  /\ done = {}
  /\ job = [p \in Process |-> NoJob]
  /\ at = [p \in Process |-> 0]
  /\ held = [p \in Process |-> {}]
  /\ seen = [p \in Process |-> Unseen]
  /\ own = [p \in Process |-> NoRows]
  /\ found = [p \in Process |-> 0]

\* A call, or the retry of one whether or not it has committed before.
Start(p, j) ==
  /\ job[p] = NoJob
  /\ job' = [job EXCEPT ![p] = j]
  /\ at' = [at EXCEPT ![p] = 1]
  /\ UNCHANGED <<committed, held, seen, own, found>>

Advance(p) == at' = [at EXCEPT ![p] = @ + 1] /\ UNCHANGED job

\* The transaction is over: its locks are released, its snapshot forgotten.
End(p) ==
  /\ job' = [job EXCEPT ![p] = NoJob]
  /\ at' = [at EXCEPT ![p] = 0]
  /\ held' = [held EXCEPT ![p] = {}]
  /\ seen' = [seen EXCEPT ![p] = Unseen]
  /\ own' = [own EXCEPT ![p] = NoRows]
  /\ found' = [found EXCEPT ![p] = 0]

\* An error, a deadlock Postgres breaks, a connection or a process that dies.
Rollback(p) ==
  /\ job[p] # NoJob
  /\ End(p)
  /\ UNCHANGED committed

\* lockEventForUpdate, lockAccounts, the row a conditional update matches.
Lock(p) ==
  /\ Busy(p) /\ Now(p).op = "lock"
  /\ LET r == Now(p).on IN
     /\ Free(r, p)
     /\ held' = [held EXCEPT ![p] = @ \cup {r}]
     /\ seen' = IF r \in Account THEN [seen EXCEPT ![p][r] = Bal(p, r)] ELSE seen
  /\ Advance(p)
  /\ UNCHANGED <<committed, own, found>>

\* A status that no longer allows the transition ends the call.
Check(p) ==
  /\ Busy(p) /\ Now(p).op = "check"
  /\ job[p].needs \subseteq done /\ job[p].bars \cap done = {}
  /\ Advance(p)
  /\ UNCHANGED <<committed, held, seen, own, found>>

\* findMany takes no lock.
Find(p) ==
  /\ Busy(p) /\ Now(p).op = "find"
  /\ found' = [found EXCEPT ![p] = Unreversed(Rows(p, Now(p).on), Now(p).cause)]
  /\ Advance(p)
  /\ UNCHANGED <<committed, held, seen, own>>

\* The loop over the charges found has nothing to do.
NothingFound(p) ==
  /\ Busy(p) /\ Now(p).op = "reverse" /\ found[p] = 0
  /\ Advance(p)
  /\ UNCHANGED <<committed, held, seen, own, found>>

\* applyWithin: lock, look the key up, insert the row, write the balance.
Move(p) ==
  /\ Busy(p)
  /\ Now(p).op \in {"apply", "penalize"} \/ (Now(p).op = "reverse" /\ found[p] # 0)
  /\ LET a   == Now(p).on
         new == Written(Now(p), Bal(p, a), Rows(p, a), found[p])
     IN /\ Free(a, p)
        /\ ~ Overdrawn(Now(p), Bal(p, a), Rows(p, a), found[p])
        /\ held' = [held EXCEPT ![p] = @ \cup {a}]
        /\ seen' = [seen EXCEPT ![p][a] = Closing(Bal(p, a), new)]
        /\ own' = [own EXCEPT ![p][a] = @ \o new]
  /\ Advance(p)
  /\ UNCHANGED <<committed, found>>

Commit(p) ==
  /\ job[p] # NoJob /\ ~ Busy(p)
  /\ balance' = [a \in Account |-> Bal(p, a)]
  /\ ledger' = [a \in Account |-> Rows(p, a)]
  /\ done' = done \cup job[p].marks
  /\ End(p)

Statements(p) == Lock(p) \/ Check(p) \/ Find(p) \/ NothingFound(p) \/ Move(p)

Next ==
  \E p \in Process :
    (\E j \in Job : Start(p, j)) \/ Statements(p) \/ Commit(p) \/ Rollback(p)

Spec == Init /\ [][Next]_vars

-----------------------------------------------------------------------------
(* Properties *)

\* Every account, row and transaction is in a state the tables allow: no wallet
\* row is worth nothing, an idle connection holds no lock and no row.
TypeOK ==
  /\ balance \in [Account -> Int]
  /\ ledger \in [Account -> Seq(Row)]
  /\ done \subseteq Mark
  /\ job \in [Process -> Job \cup {NoJob}]
  /\ at \in [Process -> Nat]
  /\ held \in [Process -> SUBSET (Account \cup Gate)]
  /\ seen \in [Process -> [Account -> Int]]
  /\ own \in [Process -> [Account -> Seq(Row)]]
  /\ found \in [Process -> Int]
  /\ \A a \in Wallet : \A i \in DOMAIN ledger[a] : ledger[a][i].amount # 0
  /\ \A p \in Process : job[p] = NoJob => held[p] = {} /\ own[p] = NoRows

\* Each row begins where the one before it ended, the first at zero.
Chained(rows) ==
  \A i \in DOMAIN rows :
    /\ rows[i].before = IF i = 1 THEN 0 ELSE rows[i - 1].after
    /\ rows[i].after = rows[i].before + rows[i].amount

Bounded(a, n) == n >= 0 /\ (a \in Score => n <= MaxScore)

\* ADR-0007, and the nightly findDrift: the cached balance is what the ledger
\* adds up to, row by row, and no row leaves a wallet below zero or a score
\* outside its bounds, however transactions interleave.
BalanceIsLedger ==
  \A a \in Account :
    /\ Chained(ledger[a])
    /\ balance[a] = Closing(0, ledger[a])
    /\ \A i \in DOMAIN ledger[a] : Bounded(a, ledger[a][i].after)

Keyed(rows) ==
  \A i, k \in DOMAIN rows :
    rows[i].kind = rows[k].kind /\ rows[i].cause = rows[k].cause => i = k

\* "Exactly once": a retried job, a double tap and two concurrent requests leave
\* one row for a key, without an insert ever meeting the unique index.
OncePerKey == \A a \in Account : Keyed(ledger[a])

Mirrored(rows) ==
  \A i \in DOMAIN rows :
    rows[i].kind = "reversal" =>
      \E k \in 1 .. i - 1 :
        /\ rows[k].kind = "original" /\ rows[k].cause = rows[i].cause
        /\ rows[k].amount = - rows[i].amount

\* A reversal in a wallet gives back, after it, exactly what one row took.
ReversalsMirror == \A a \in Wallet : Mirrored(ledger[a])

\* A transaction that commits has had the effect of running alone at that
\* moment: its locks make READ COMMITTED serializable for what it moves.
Serial == INSTANCE SerialLedger WITH balance <- balance, ledger <- ledger, done <- done
IsSerial == Serial!Spec

Wanted(p) ==
  IF Busy(p) /\ (Now(p).op \in {"lock", "apply", "penalize"}
                 \/ (Now(p).op = "reverse" /\ found[p] # 0))
  THEN {Now(p).on} ELSE {}

WaitsFor(p, q) == p # q /\ Wanted(p) \cap held[q] # {}

\* lockAccounts: "Sorting by user id gives a total order over accounts, which
\* makes a cycle impossible" (penalty.service.ts:199), with the event row before
\* the wallets and the wallets before the scores.
NoWaitCycle ==
  ~ \E S \in (SUBSET Process) \ {{}} : \A p \in S : \E q \in S : WaitsFor(p, q)
=============================================================================
