------------------------------- MODULE Grants -------------------------------
(***************************************************************************)
(* How a person comes into the product, and every coin it gives away on    *)
(* the way: the first completed profile and its rewards (ProfileService),  *)
(* the founding ranks (FoundingService), gift codes with their             *)
(* administration (GiftCodeService, GiftCodeAdminService) and the comeback *)
(* grant (ComebackService).                                                *)
(*                                                                         *)
(* A transaction is one step per row it locks, and the commit.  Two taps   *)
(* of one person wait for each other at the user row, so a person has one  *)
(* open transaction.  CoinService.apply is one idempotent movement here;   *)
(* CoinLedger has its statements.                                          *)
(***************************************************************************)
EXTENDS Integers, FiniteSets, Sequences

CONSTANTS
  User,           \* people
  MaxRank,        \* founding_campaign.max_rank
  TierTables,     \* the tables of founding.tier<n>_max_rank and _coins
  OnboardingCoins,\* economy.onboarding_reward_coins
  CodeCoins,      \* what an operator makes the gift code worth
  CodeMax,        \* the values of max_redemptions; 0 for none
  CodePerUser,    \* the values of per_user_limit
  ComebackCoins   \* economy.comeback_grant_coins

ASSUME CampaignAssumption ==
  MaxRank \in Nat /\ TierTables \subseteq [upTo : [1 .. 2 -> Nat], coins : [1 .. 3 -> Nat]]
ASSUME CodeAssumption ==
  /\ CodeCoins \subseteq Nat \ {0} /\ CodeMax \subseteq Nat
  /\ CodePerUser \subseteq Nat \ {0}
ASSUME PeopleAssumption == IsFiniteSet(User)
ASSUME RewardAssumption ==
  /\ OnboardingCoins \in Nat \ {0} /\ ComebackCoins \in Nat \ {0}

VARIABLES
  state,     \* user.onboarding_state
  nextRank,  \* founding_campaign.next_rank
  tiers,     \* the tier table in force
  member,    \* founding_member: rank and coins
  code,      \* the gift_code row
  window,    \* the clock against starts_at and expires_at
  redeemed,  \* gift_code_redemption.coins of each person, by seq
  comeback,  \* the comeback key is in the ledger
  credit,    \* what coin_ledger credits each person with, by idempotency key
  listed,    \* the people a comeback sweep has found
  edit,      \* an operator's edit of the code that has read its row
  tx         \* the open transaction of each person

vars == <<state, nextRank, tiers, member, code, window, redeemed,
          comeback, credit, listed, edit, tx>>

foundingVars == <<nextRank, tiers, member>>
codeVars == <<code, window, redeemed, edit>>
comebackVars == <<comeback, listed>>

NoMember == [rank |-> 0, coins |-> 0]
CodeRow == [coins : Nat, max : Nat, perUser : Nat, count : Nat, active : BOOLEAN]
NoCode == [coins |-> 0, max |-> 0, perUser |-> 0, count |-> 0, active |-> FALSE]
NoEdit == [coins |-> 0, max |-> 0, perUser |-> 0]
Terms == [coins : CodeCoins, max : CodeMax, perUser : CodePerUser]

Credit == [profile : Nat, rank : Nat, comeback : Nat, gifts : Seq(CodeCoins)]
NoCredit == [profile |-> 0, rank |-> 0, comeback |-> 0, gifts |-> <<>>]

Idle == [op |-> "idle", saw |-> "none", rank |-> 0, coins |-> 0]
Open(op) == [Idle EXCEPT !.op = op]

States == {"NEW", "TERMS_ACCEPTED", "PROFILE_COMPLETE"}
Windows == {"before", "open", "after"}
Tx == [op : {"idle", "complete", "ranked", "redeem", "held"},
       saw : States \cup Windows \cup {"none"}, rank : 0 .. MaxRank, coins : Nat]

TypeOK ==
  /\ state \in [User -> States]
  /\ nextRank \in 1 .. MaxRank + 1
  /\ tiers \in TierTables
  /\ member \in [User -> [rank : 0 .. MaxRank, coins : Nat]]
  /\ code \in CodeRow
  /\ window \in Windows
  /\ redeemed \in [User -> Seq(CodeCoins)]
  /\ comeback \in [User -> BOOLEAN]
  /\ credit \in [User -> Credit]
  /\ listed \subseteq User
  /\ edit \in Terms \cup {NoEdit}
  /\ tx \in [User -> Tx]

Init ==
  /\ state = [u \in User |-> "NEW"]
  /\ nextRank = 1
  /\ tiers \in TierTables
  /\ member = [u \in User |-> NoMember]
  /\ code = NoCode
  /\ window \in {"before", "open"}
  /\ redeemed = [u \in User |-> <<>>]
  /\ comeback = [u \in User |-> FALSE]
  /\ credit = [u \in User |-> NoCredit]
  /\ listed = {}
  /\ edit = NoEdit
  /\ tx = [u \in User |-> Idle]

Continue(u, t) == tx' = [tx EXCEPT ![u] = t]

\* A connection drops, or a constraint refuses a statement: nothing is kept.
Rollback(u) ==
  /\ tx[u] # Idle
  /\ Continue(u, Idle)
  /\ UNCHANGED <<state, foundingVars, codeVars, comebackVars, credit>>

-----------------------------------------------------------------------------
(* The first completed profile. *)

\* ConsentService.acceptPolicies moves a new account on.
AcceptPolicies(u) ==
  /\ state[u] = "NEW"
  /\ state' = [state EXCEPT ![u] = "TERMS_ACCEPTED"]
  /\ UNCHANGED <<foundingVars, codeVars, comebackVars, credit, tx>>

\* complete: the user row is locked and its state read.
Complete(u) ==
  /\ tx[u] = Idle
  /\ state[u] # "NEW"
  /\ Continue(u, [Open("complete") EXCEPT !.saw = state[u]])
  /\ UNCHANGED <<state, foundingVars, codeVars, comebackVars, credit>>

\* Deviation: the counter is read, and written by whoever comes later.
CampaignRead == TRUE

\* The conditional UPDATE of founding_campaign waits for the one that ran it.
CampaignFree == \A v \in User : tx[v].op # "ranked"

\* tierFor: a rank past the last boundary has the last tier.
TierFor(r) == IF r <= tiers.upTo[1] THEN tiers.coins[1]
              ELSE IF r <= tiers.upTo[2] THEN tiers.coins[2] ELSE tiers.coins[3]

\* award, on a first completion with a rank left; tier and coins are read here.
Award(u) ==
  /\ tx[u].op = "complete" /\ tx[u].saw # "PROFILE_COMPLETE"
  /\ member[u] = NoMember
  /\ CampaignFree /\ nextRank <= MaxRank
  /\ Continue(u, [tx[u] EXCEPT !.op = "ranked", !.rank = nextRank, !.coins = TierFor(nextRank)])
  /\ UNCHANGED <<state, foundingVars, codeVars, comebackVars, credit>>

\* The commit of complete, with the rank the transaction has or without one: the
\* campaign is off or full, or this is not a first completion.
CommitProfile(u) ==
  /\ tx[u].op \in {"complete", "ranked"}
  /\ state' = [state EXCEPT ![u] = "PROFILE_COMPLETE"]
  /\ IF tx[u].op = "ranked"
       THEN /\ nextRank' = tx[u].rank + 1
            /\ member' = [member EXCEPT ![u] = [rank |-> tx[u].rank, coins |-> tx[u].coins]]
       ELSE UNCHANGED <<nextRank, member>>
  /\ credit' = [credit EXCEPT ![u] =
       [profile  |-> @.profile + (IF state[u] = "PROFILE_COMPLETE" THEN 0 ELSE OnboardingCoins),
        rank     |-> @.rank + tx[u].coins,
        comeback |-> @.comeback, gifts |-> @.gifts]]
  /\ Continue(u, Idle)
  /\ UNCHANGED <<tiers, codeVars, comebackVars>>

\* An operator retunes the tiers.
Retune(t) ==
  /\ tiers # t
  /\ tiers' = t
  /\ UNCHANGED <<state, nextRank, member, codeVars, comebackVars, credit, tx>>

-----------------------------------------------------------------------------
(* Gift codes. *)

\* starts_at, then expires_at is reached.
Tick ==
  /\ window # "after"
  /\ window' = IF window = "before" THEN "open" ELSE "after"
  /\ UNCHANGED <<state, foundingVars, code, redeemed, edit, comebackVars, credit, tx>>

\* Deviation: an update of the code does not wait for the redeemer holding it.
CodeRead == TRUE

CodeFree == \A v \in User : tx[v].op # "held"

\* create
CreateCode(t) ==
  /\ code = NoCode
  /\ code' = [coins |-> t.coins, max |-> t.max, perUser |-> t.perUser, count |-> 0,
              active |-> TRUE]
  /\ UNCHANGED <<state, foundingVars, window, redeemed, edit, comebackVars,
                 credit, tx>>

\* setActive
SetActive ==
  /\ code # NoCode /\ CodeFree
  /\ code' = [code EXCEPT !.active = ~ @]
  /\ UNCHANGED <<state, foundingVars, window, redeemed, edit, comebackVars,
                 credit, tx>>

\* update reads the row and refuses a maximum below the count it has read.
ReadForUpdate(t) ==
  /\ code # NoCode /\ edit = NoEdit
  /\ t.max = 0 \/ t.max >= code.count
  /\ edit' = t
  /\ UNCHANGED <<state, foundingVars, code, window, redeemed, comebackVars,
                 credit, tx>>

\* CHECK (redeemed_count <= max_redemptions)
Allowed(max, count) == max = 0 \/ count <= max

\* update, its one statement: written if the CHECK allows it, an error otherwise.
UpdateCode ==
  /\ edit # NoEdit /\ CodeFree
  /\ code' = IF Allowed(edit.max, code.count)
               THEN [code EXCEPT !.coins = edit.coins, !.max = edit.max, !.perUser = edit.perUser]
               ELSE code
  /\ edit' = NoEdit
  /\ UNCHANGED <<state, foundingVars, window, redeemed, comebackVars, credit, tx>>

\* redeem: the clock is read and the code found before the transaction.
Redeem(u) ==
  /\ tx[u] = Idle
  /\ code # NoCode
  /\ Continue(u, [Open("redeem") EXCEPT !.saw = window])
  /\ UNCHANGED <<state, foundingVars, codeVars, comebackVars, credit>>

\* giftCodeState is ACTIVE, and this person has redemptions left.
Redeemable(u) ==
  /\ code.active /\ tx[u].saw = "open"
  /\ code.max = 0 \/ code.count < code.max
  /\ Len(redeemed[u]) < code.perUser

\* SELECT ... FOR UPDATE and the checks; a refusal is Rollback.
HoldCode(u) ==
  /\ tx[u].op = "redeem"
  /\ CodeFree
  /\ Redeemable(u)
  /\ Continue(u, [tx[u] EXCEPT !.op = "held", !.coins = code.coins])
  /\ UNCHANGED <<state, foundingVars, codeVars, comebackVars, credit>>

\* The movement, the redemption row and the count, committed.
CommitRedemption(u) ==
  /\ tx[u].op = "held"
  /\ Allowed(code.max, code.count + 1)
  /\ credit' = [credit EXCEPT ![u].gifts = Append(@, tx[u].coins)]
  /\ redeemed' = [redeemed EXCEPT ![u] = Append(@, tx[u].coins)]
  /\ code' = [code EXCEPT !.count = @ + 1]
  /\ Continue(u, Idle)
  /\ UNCHANGED <<state, foundingVars, window, edit, comebackVars>>

-----------------------------------------------------------------------------
(* The comeback grant. *)

\* candidates: attendance, trust, status and balance choose among the people
\* who have no comeback row yet.
Candidates ==
  /\ listed = {}
  /\ listed' \in (SUBSET {u \in User : ~ comeback[u]}) \ {{}}
  /\ UNCHANGED <<state, foundingVars, codeVars, comeback, credit, tx>>

\* Deviation: the lifetime key is not looked at.
KeyAlwaysFree(u) == TRUE

\* CoinService.apply with comebackGrantKey
KeyFree(u) == ~ comeback[u]

\* grant: nothing is checked again but the key; an overlapping sweep has the
\* person on its list too.
Grant(u) ==
  /\ u \in listed
  /\ credit' = [credit EXCEPT ![u].comeback = @ + (IF KeyFree(u) THEN ComebackCoins ELSE 0)]
  /\ comeback' = [comeback EXCEPT ![u] = TRUE]
  /\ listed' \in {listed \ {u}, listed}
  /\ UNCHANGED <<state, foundingVars, codeVars, tx>>

-----------------------------------------------------------------------------

Next ==
  \/ Tick \/ SetActive \/ UpdateCode \/ Candidates
  \/ \E t \in TierTables : Retune(t)
  \/ \E t \in Terms : CreateCode(t) \/ ReadForUpdate(t)
  \/ \E u \in User :
       \/ AcceptPolicies(u) \/ Rollback(u)
       \/ Complete(u) \/ Award(u) \/ CommitProfile(u)
       \/ Redeem(u) \/ HoldCode(u) \/ CommitRedemption(u)
       \/ Grant(u)

Spec == Init /\ [][Next]_vars

-----------------------------------------------------------------------------
(* Properties. *)

\* The rows of gift_code_redemption, UNIQUE (code, user, seq).
Redemptions == UNION {{u} \X DOMAIN redeemed[u] : u \in User}

Members == {u \in User : member[u] # NoMember}

\* The founding ranks are 1, 2, 3 ... without a gap and without a twin, however
\* completions overlap and roll back, and a rank is nobody's who has not
\* completed a profile.
RanksAreGapFree ==
  /\ {member[u].rank : u \in Members} = 1 .. nextRank - 1
  /\ Cardinality(Members) = nextRank - 1
  /\ \A u \in Members : state[u] = "PROFILE_COMPLETE"

\* The stored count of a code is the number of its redemptions and never above
\* the maximum in force, though an operator changes the terms while it is used;
\* and whoever has passed the checks is not refused by the constraint later.
CodeWithinLimits ==
  /\ code.count = Cardinality(Redemptions)
  /\ code.max = 0 \/ code.count <= code.max
  /\ \A u \in User : tx[u].op = "held" =>
       /\ code.max = 0 \/ code.count < code.max
       /\ Len(redeemed[u]) < code.perUser

\* The ledger credits a person with what the tables grant, key by key.
Matched(u) ==
  /\ credit[u].profile = (IF state[u] = "PROFILE_COMPLETE" THEN OnboardingCoins ELSE 0)
  /\ credit[u].rank = member[u].coins
  /\ credit[u].comeback = (IF comeback[u] THEN ComebackCoins ELSE 0)
  /\ credit[u].gifts = redeemed[u]

\* What the tables say was granted is what the ledger credits: the rank's coins,
\* each redemption's coins at the time, one onboarding reward, one comeback.
RecordsMatchLedger == \A u \in User : Matched(u)
=============================================================================
