--------------------------- MODULE Grants_proofs ---------------------------
(***************************************************************************)
(* What holds of ranks, gift codes and grants for every number of people   *)
(* and every tier, price and limit: the two row locks make the ranks       *)
(* gap-free and the code's limits exact, and the records match the ledger. *)
(***************************************************************************)
EXTENDS Grants, FiniteSetTheorems, SequenceTheorems, TLAPS

\* A transaction that has run the conditional UPDATE of the campaign holds the
\* next rank, alone, for a person who has none.
RankIsHeld ==
  /\ \A u, v \in User : tx[u].op = "ranked" /\ tx[v].op = "ranked" => u = v
  /\ \A u \in User : tx[u].op = "ranked" =>
       tx[u].rank = nextRank /\ nextRank <= MaxRank /\ member[u] = NoMember

\* A completion without a rank has no rank's coins to pay.
NothingToPay ==
  \A u \in User : tx[u].op = "complete" => tx[u].coins = 0

\* Nobody has the rank zero.
RanksStartAtOne ==
  \A u \in Members : member[u].rank >= 1

\* The row of the code, once there is one, has terms an operator chose; an edit is
\* of a row that exists.
CodeIsReal ==
  /\ code = NoCode \/ (code.coins \in CodeCoins /\ code.perUser \in CodePerUser)
  /\ edit # NoEdit => code # NoCode

\* The redeemer who holds the row of the code is alone with it, and pays out what
\* the row says.
CodeIsHeld ==
  /\ \A u, v \in User : tx[u].op = "held" /\ tx[v].op = "held" => u = v
  /\ \A u \in User : tx[u].op = "held" => code # NoCode /\ tx[u].coins = code.coins

\* The inductive invariant.
IInv ==
  /\ TypeOK
  /\ RanksAreGapFree /\ RankIsHeld /\ RanksStartAtOne
  /\ CodeWithinLimits /\ CodeIsReal /\ CodeIsHeld /\ IsFiniteSet(Redemptions)
  /\ RecordsMatchLedger /\ NothingToPay

-----------------------------------------------------------------------------
(* Records *)

\* A transaction as it is opened, and as it goes on.
LEMMA TxFacts ==
  /\ Idle \in Tx /\ Idle.op = "idle"
  /\ \A s \in States \cup Windows :
       \A op \in {"complete", "redeem"} :
         /\ [Open(op) EXCEPT !.saw = s] \in Tx
         /\ [Open(op) EXCEPT !.saw = s].op = op
         /\ [Open(op) EXCEPT !.saw = s].coins = 0
  <1>1. Idle \in Tx /\ Idle.op = "idle"
    BY CampaignAssumption DEF Idle, Tx
  <1>2. ASSUME NEW s \in States \cup Windows, NEW op \in {"complete", "redeem"}
        PROVE  /\ [Open(op) EXCEPT !.saw = s] \in Tx
               /\ [Open(op) EXCEPT !.saw = s].op = op
               /\ [Open(op) EXCEPT !.saw = s].coins = 0
    <2>1. [Open(op) EXCEPT !.saw = s] = [op |-> op, saw |-> s, rank |-> 0, coins |-> 0]
      <3>1. Open(op) = [op |-> op, saw |-> "none", rank |-> 0, coins |-> 0]
        BY DEF Open, Idle
      <3> QED BY <3>1
    <2> QED BY <2>1, CampaignAssumption DEF Tx
  <1> QED BY <1>1, <1>2

\* The row of a code that exists is not the row of none.
LEMMA CodeOfTerms ==
  ASSUME NEW k \in CodeRow, k.coins \in CodeCoins
  PROVE  k # NoCode
  BY CodeAssumption DEF NoCode

\* What the ledger credits a person with after one more row.
LEMMA CreditFacts ==
  ASSUME NEW k \in Credit, NEW x \in Nat, NEW y \in Nat, NEW c \in CodeCoins
  PROVE  /\ [profile |-> k.profile + y, rank |-> k.rank + x, comeback |-> k.comeback,
             gifts |-> k.gifts] \in Credit
         /\ [k EXCEPT !.comeback = @ + x] \in Credit
         /\ [k EXCEPT !.gifts = Append(@, c)] \in Credit
  <1>1. k.profile + y \in Nat /\ k.rank + x \in Nat /\ k.comeback + x \in Nat
    BY DEF Credit
  <1>2. [profile |-> k.profile + y, rank |-> k.rank + x, comeback |-> k.comeback,
         gifts |-> k.gifts] \in Credit
    BY <1>1 DEF Credit
  <1>3. [k EXCEPT !.comeback = @ + x] \in Credit
    BY <1>1 DEF Credit
  <1>4. [k EXCEPT !.gifts = Append(@, c)] \in Credit
    <2>1. k.gifts \in Seq(CodeCoins)
      BY DEF Credit
    <2>2. Append(k.gifts, c) \in Seq(CodeCoins)
      BY <2>1
    <2> QED BY <2>2 DEF Credit
  <1> QED BY <1>2, <1>3, <1>4

-----------------------------------------------------------------------------
(* What a step leaves alone *)

\* The parts of the invariant that depend on the campaign.
Founding == RanksAreGapFree /\ RankIsHeld /\ RanksStartAtOne

\* The parts that depend on the code.
Codes == CodeWithinLimits /\ CodeIsReal /\ CodeIsHeld /\ IsFiniteSet(Redemptions)

\* A step after which the same transactions hold ranks, and nobody's profile is
\* undone, leaves the ranks as they are.
LEMMA FoundingUntouched ==
  ASSUME Founding, UNCHANGED <<nextRank, member>>,
         \A u \in User : state[u] = "PROFILE_COMPLETE" => state'[u] = "PROFILE_COMPLETE",
         \A u \in User : tx'[u].op = "ranked" => tx'[u] = tx[u]
  PROVE  Founding'
  <1>1. Members' = Members
    BY DEF Members
  <1>2. RanksAreGapFree' /\ RanksStartAtOne'
    BY <1>1 DEF Founding, RanksAreGapFree, RanksStartAtOne, Members
  <1>3. RankIsHeld'
    BY DEF Founding, RankIsHeld
  <1> QED BY <1>2, <1>3 DEF Founding

\* A step after which the same transactions hold the code leaves it as it is.
LEMMA CodesUntouched ==
  ASSUME Codes, UNCHANGED <<code, redeemed>>, edit' # NoEdit => code # NoCode,
         \A u \in User : tx'[u].op = "held" => tx'[u] = tx[u]
  PROVE  Codes'
  <1>1. Redemptions' = Redemptions
    BY DEF Redemptions
  <1>2. CodeWithinLimits' /\ CodeIsReal'
    BY <1>1 DEF Codes, CodeWithinLimits, CodeIsReal
  <1>3. CodeIsHeld'
    BY DEF Codes, CodeIsHeld
  <1> QED BY <1>1, <1>2, <1>3 DEF Codes

\* A step that pays nobody.
LEMMA RecordsUntouched ==
  ASSUME RecordsMatchLedger, UNCHANGED <<member, comeback, redeemed, credit>>,
         \A u \in User : state[u] = "PROFILE_COMPLETE" <=> state'[u] = "PROFILE_COMPLETE"
  PROVE  RecordsMatchLedger'
  BY DEF RecordsMatchLedger, Matched

-----------------------------------------------------------------------------
(* The invariant, action by action *)

\* Nobody has anything before the first profile.
LEMMA InitInvariant == Init => IInv
  <1> SUFFICES ASSUME Init
               PROVE  IInv
    OBVIOUS
  <1>1. <<>> \in Seq(CodeCoins)
    BY EmptySeq
  <1>2. TypeOK
    <2>1. credit \in [User -> Credit]
      BY <1>1 DEF Init, NoCredit, Credit
    <2>2. nextRank \in 1 .. MaxRank + 1
      BY CampaignAssumption DEF Init
    <2>3. member \in [User -> [rank : 0 .. MaxRank, coins : Nat]]
      BY CampaignAssumption DEF Init, NoMember
    <2>4. tx \in [User -> Tx]
      BY TxFacts DEF Init
    <2>5. code \in CodeRow
      BY DEF Init, NoCode, CodeRow
    <2>6. redeemed \in [User -> Seq(CodeCoins)]
      BY <1>1 DEF Init
    <2>7. /\ state \in [User -> States] /\ tiers \in TierTables
          /\ window \in Windows /\ comeback \in [User -> BOOLEAN]
          /\ listed \subseteq User /\ edit \in Terms \cup {NoEdit}
      BY DEF Init, States, Windows
    <2> QED BY <2>1, <2>2, <2>3, <2>4, <2>5, <2>6, <2>7 DEF TypeOK
  <1>3. RanksAreGapFree /\ RankIsHeld /\ RanksStartAtOne
    <2>1. Members = {}
      BY DEF Init, Members
    <2>2. Cardinality(Members) = 0
      BY <2>1, FS_EmptySet
    <2>3. 1 .. nextRank - 1 = {} /\ nextRank - 1 = 0
      BY DEF Init
    <2> QED BY <2>1, <2>2, <2>3 DEF Init, RanksAreGapFree, RankIsHeld, RanksStartAtOne, Idle
  <1>4. CodeWithinLimits /\ CodeIsReal /\ CodeIsHeld /\ IsFiniteSet(Redemptions)
    <2>1. \A u \in User : DOMAIN redeemed[u] = {}
      BY DEF Init
    <2>2. Redemptions = {}
      BY <2>1 DEF Redemptions
    <2> QED BY <2>2, FS_EmptySet
            DEF Init, CodeWithinLimits, CodeIsReal, CodeIsHeld, Idle, NoCode
  <1>5. RecordsMatchLedger /\ NothingToPay
    BY DEF Init, RecordsMatchLedger, Matched, NothingToPay, NoCredit, NoMember, Idle
  <1> QED BY <1>2, <1>3, <1>4, <1>5 DEF IInv

\* Consent, the opening of a transaction and its end without a commit.
LEMMA OpeningInvariant ==
  ASSUME IInv, NEW u \in User,
         AcceptPolicies(u) \/ Complete(u) \/ Redeem(u) \/ Rollback(u)
  PROVE  IInv'
  <1>1. /\ UNCHANGED <<foundingVars, codeVars, comebackVars, credit>>
        /\ state' \in {state, [state EXCEPT ![u] = "TERMS_ACCEPTED"]}
        /\ state' # state => state[u] = "NEW"
        /\ \/ UNCHANGED tx
           \/ tx' = [tx EXCEPT ![u] = Idle]
           \/ tx' = [tx EXCEPT ![u] = [Open("complete") EXCEPT !.saw = state[u]]]
           \/ tx' = [tx EXCEPT ![u] = [Open("redeem") EXCEPT !.saw = window]]
    BY DEF AcceptPolicies, Complete, Redeem, Rollback, Continue
  <1>2. TypeOK'
    <2>1. state' \in [User -> States]
      BY <1>1 DEF IInv, TypeOK, States
    <2>2. tx' \in [User -> Tx]
      <3>1. state[u] \in States \cup Windows /\ window \in States \cup Windows
        BY DEF IInv, TypeOK
      <3> QED BY <1>1, <3>1, TxFacts DEF IInv, TypeOK
    <2> QED BY <1>1, <2>1, <2>2 DEF IInv, TypeOK, foundingVars, codeVars, comebackVars
  <1>3. \A v \in User :
          /\ state[v] = "PROFILE_COMPLETE" <=> state'[v] = "PROFILE_COMPLETE"
          /\ tx'[v].op \in {"ranked", "held"} => tx'[v] = tx[v]
          /\ tx'[v].op = "complete" => tx'[v] = tx[v] \/ tx'[v].coins = 0
    <2>1. state[u] \in States \cup Windows /\ window \in States \cup Windows
      BY DEF IInv, TypeOK
    <2> QED BY <1>1, <2>1, TxFacts DEF IInv, TypeOK
  <1>4. Founding'
    BY <1>1, <1>3, FoundingUntouched DEF IInv, Founding, foundingVars
  <1>5. Codes'
    BY <1>1, <1>3, CodesUntouched DEF IInv, Codes, CodeIsReal, codeVars
  <1>6. RecordsMatchLedger'
    BY <1>1, <1>3, RecordsUntouched DEF IInv, foundingVars, codeVars, comebackVars
  <1>7. NothingToPay'
    BY <1>3 DEF IInv, NothingToPay
  <1> QED BY <1>2, <1>4, <1>5, <1>6, <1>7 DEF IInv, Founding, Codes

\* The tier table in force gives a rank its coins.
LEMMA TierIsPrice ==
  ASSUME IInv, NEW r
  PROVE  TierFor(r) \in Nat
  BY CampaignAssumption DEF IInv, TypeOK, TierFor

\* award: the row of the campaign is locked for the rank it gives.
LEMMA AwardInvariant ==
  ASSUME IInv, NEW u \in User, Award(u)
  PROVE  IInv'
  <1>1. /\ tx[u].op = "complete" /\ member[u] = NoMember /\ nextRank <= MaxRank
        /\ \A v \in User : tx[v].op # "ranked"
        /\ tx' = [tx EXCEPT ![u] = [tx[u] EXCEPT !.op = "ranked", !.rank = nextRank,
                                                 !.coins = TierFor(nextRank)]]
        /\ UNCHANGED <<state, foundingVars, codeVars, comebackVars, credit>>
    BY DEF Award, CampaignFree, Continue
  <1>2. nextRank \in 0 .. MaxRank
    BY <1>1, CampaignAssumption DEF IInv, TypeOK
  <1>3. TypeOK'
    BY <1>1, <1>2, TierIsPrice DEF IInv, TypeOK, Tx, foundingVars, codeVars, comebackVars
  <1>4. RankIsHeld'
    BY <1>1 DEF IInv, TypeOK, RankIsHeld, foundingVars
  <1>5. RanksAreGapFree' /\ RanksStartAtOne'
    <2>1. Members' = Members
      BY <1>1 DEF Members, foundingVars
    <2> QED BY <1>1, <2>1 DEF IInv, RanksAreGapFree, RanksStartAtOne, Members, foundingVars
  <1>6. \A v \in User :
          /\ tx'[v].op = "held" => tx'[v] = tx[v]
          /\ tx'[v].op = "complete" => tx'[v] = tx[v]
    BY <1>1 DEF IInv, TypeOK
  <1>7. Codes'
    BY <1>1, <1>6, CodesUntouched DEF IInv, Codes, CodeIsReal, codeVars
  <1>8. RecordsMatchLedger' /\ NothingToPay'
    BY <1>1, <1>6, RecordsUntouched
       DEF IInv, NothingToPay, foundingVars, codeVars, comebackVars
  <1> QED BY <1>3, <1>4, <1>5, <1>7, <1>8 DEF IInv, Codes

\* A rank is committed: the next one is one higher, and its holder is new.
LEMMA RankCommitted ==
  ASSUME IInv, NEW u \in User, tx[u].op = "ranked",
         nextRank' = tx[u].rank + 1,
         member' = [member EXCEPT ![u] = [rank |-> tx[u].rank, coins |-> tx[u].coins]],
         state' = [state EXCEPT ![u] = "PROFILE_COMPLETE"]
  PROVE  RanksAreGapFree' /\ RanksStartAtOne'
  <1>1. /\ tx[u].rank = nextRank /\ member[u] = NoMember
        /\ nextRank \in Nat /\ nextRank >= 1 /\ nextRank' = nextRank + 1
    BY DEF IInv, RankIsHeld, TypeOK
  <1>2. /\ \A v \in User : v # u => member'[v] = member[v]
        /\ member'[u].rank = nextRank /\ member'[u] # NoMember
    BY <1>1 DEF IInv, TypeOK, NoMember
  <1>3. u \notin Members /\ Members' = Members \cup {u}
    BY <1>1, <1>2 DEF Members
  <1>4. IsFiniteSet(Members) /\ Cardinality(Members) = nextRank - 1
    BY PeopleAssumption, FS_Subset DEF Members, IInv, RanksAreGapFree
  <1>5. Cardinality(Members') = nextRank' - 1
    <2>1. Cardinality(Members \cup {u}) = Cardinality(Members) + 1
      BY <1>3, <1>4, FS_AddElement
    <2> HIDE DEF Members
    <2> QED BY <1>1, <1>3, <1>4, <2>1
  <1>6. {member'[v].rank : v \in Members'} = 1 .. nextRank' - 1
    <2>1. {member'[v].rank : v \in Members'} = {member[v].rank : v \in Members} \cup {nextRank}
      BY <1>2, <1>3 DEF Members
    <2>2. {member[v].rank : v \in Members} = 1 .. nextRank - 1
      BY DEF IInv, RanksAreGapFree
    <2>3. (1 .. nextRank - 1) \cup {nextRank} = 1 .. nextRank' - 1
      BY <1>1
    <2> QED BY <2>1, <2>2, <2>3
  <1>7. \A v \in Members' : state'[v] = "PROFILE_COMPLETE"
    BY <1>3 DEF IInv, TypeOK, RanksAreGapFree, Members
  <1>8. RanksStartAtOne'
    BY <1>1, <1>2, <1>3 DEF IInv, RanksStartAtOne, Members
  <1> QED BY <1>5, <1>6, <1>7, <1>8 DEF RanksAreGapFree

\* The commit of a completed profile, with its rank or without one.
LEMMA CommitProfileInvariant ==
  ASSUME IInv, NEW u \in User, CommitProfile(u)
  PROVE  IInv'
  <1> DEFINE bonus == IF state[u] = "PROFILE_COMPLETE" THEN 0 ELSE OnboardingCoins
  <1>1. /\ tx[u].op \in {"complete", "ranked"}
        /\ state' = [state EXCEPT ![u] = "PROFILE_COMPLETE"]
        /\ credit' = [credit EXCEPT ![u] =
             [profile |-> @.profile + bonus, rank |-> @.rank + tx[u].coins,
              comeback |-> @.comeback, gifts |-> @.gifts]]
        /\ tx' = [tx EXCEPT ![u] = Idle]
        /\ UNCHANGED <<tiers, codeVars, comebackVars>>
    BY DEF CommitProfile, Continue
  <1>2. /\ tx[u].op = "ranked" =>
             /\ nextRank' = tx[u].rank + 1
             /\ member' = [member EXCEPT ![u] = [rank |-> tx[u].rank, coins |-> tx[u].coins]]
        /\ tx[u].op = "complete" => UNCHANGED <<nextRank, member>>
    BY DEF CommitProfile
  <1>3. tx[u].coins \in Nat /\ tx[u].rank \in 0 .. MaxRank /\ bonus \in Nat
    BY RewardAssumption DEF IInv, TypeOK, Tx
  <1>4. TypeOK'
    <2>1. state' \in [User -> States]
      BY <1>1 DEF IInv, TypeOK, States
    <2>2. credit' \in [User -> Credit]
      <3>1. credit[u] \in Credit
        BY DEF IInv, TypeOK
      <3>2. [profile |-> credit[u].profile + bonus, rank |-> credit[u].rank + tx[u].coins,
             comeback |-> credit[u].comeback, gifts |-> credit[u].gifts] \in Credit
        BY <1>3, <3>1 DEF Credit
      <3> QED BY <1>1, <3>2 DEF IInv, TypeOK
    <2>3. nextRank' \in 1 .. MaxRank + 1
      <3>1. CASE tx[u].op = "ranked"
        <4>1. nextRank' = tx[u].rank + 1 /\ tx[u].rank \in 0 .. MaxRank
          BY <1>2, <1>3, <3>1
        <4> QED BY <4>1, CampaignAssumption
      <3>2. CASE tx[u].op = "complete"
        BY <1>2, <3>2 DEF IInv, TypeOK
      <3> QED BY <1>1, <3>1, <3>2
    <2>4. member' \in [User -> [rank : 0 .. MaxRank, coins : Nat]]
      <3>1. [rank |-> tx[u].rank, coins |-> tx[u].coins] \in [rank : 0 .. MaxRank, coins : Nat]
        BY <1>3
      <3> QED BY <1>1, <1>2, <3>1 DEF IInv, TypeOK
    <2>5. tx' \in [User -> Tx]
      BY <1>1, TxFacts DEF IInv, TypeOK
    <2> QED BY <1>1, <2>1, <2>2, <2>3, <2>4, <2>5 DEF IInv, TypeOK, codeVars, comebackVars
  <1>5. \A v \in User :
          /\ tx'[v].op # "idle" => tx'[v] = tx[v] /\ v # u
          /\ state[v] = "PROFILE_COMPLETE" => state'[v] = "PROFILE_COMPLETE"
    BY <1>1 DEF IInv, TypeOK, Idle
  <1>6. Founding'
    <2>1. CASE tx[u].op = "ranked"
      <3>1. RankIsHeld'
        BY <2>1, <1>5 DEF IInv, RankIsHeld
      <3> QED BY <2>1, <1>1, <1>2, <3>1, RankCommitted DEF Founding
    <2>2. CASE tx[u].op = "complete"
      BY <2>2, <1>2, <1>5, FoundingUntouched DEF IInv, Founding
    <2> QED BY <1>1, <2>1, <2>2
  <1>7. Codes'
    BY <1>1, <1>5, CodesUntouched DEF IInv, Codes, CodeIsReal, codeVars
  <1>8. RecordsMatchLedger'
    <2> SUFFICES ASSUME NEW v \in User
                 PROVE  Matched(v)'
      BY DEF RecordsMatchLedger
    <2>1. Matched(v)
      BY DEF IInv, RecordsMatchLedger
    <2>2. redeemed' = redeemed /\ comeback' = comeback
      BY <1>1 DEF codeVars, comebackVars
    <2>3. CASE v # u
      <3>1. credit'[v] = credit[v] /\ state'[v] = state[v] /\ member'[v] = member[v]
        BY <2>3, <1>1, <1>2 DEF IInv, TypeOK
      <3> QED BY <2>1, <2>2, <3>1 DEF Matched
    <2>4. CASE v = u
      <3>1. member[u].coins + tx[u].coins = member'[u].coins
        <4>1. CASE tx[u].op = "ranked"
          <5>1. member[u] = NoMember /\ member'[u].coins = tx[u].coins
            BY <4>1, <1>2 DEF IInv, TypeOK, RankIsHeld
          <5> QED BY <5>1, <1>3 DEF NoMember
        <4>2. CASE tx[u].op = "complete"
          <5>1. tx[u].coins = 0 /\ member'[u].coins = member[u].coins
            BY <4>2, <1>2 DEF IInv, NothingToPay
          <5>2. member[u].coins \in Nat
            BY DEF IInv, TypeOK
          <5> QED BY <5>1, <5>2
        <4> QED BY <1>1, <4>1, <4>2
      <3>2. credit'[u] = [profile |-> credit[u].profile + bonus,
                          rank |-> credit[u].rank + tx[u].coins,
                          comeback |-> credit[u].comeback, gifts |-> credit[u].gifts]
        BY <1>1 DEF IInv, TypeOK
      <3>3. state'[u] = "PROFILE_COMPLETE"
        BY <1>1 DEF IInv, TypeOK
      <3>4. (IF state[u] = "PROFILE_COMPLETE" THEN OnboardingCoins ELSE 0) + bonus
              = OnboardingCoins
        BY RewardAssumption
      <3> QED BY <2>1, <2>2, <2>4, <3>1, <3>2, <3>3, <3>4 DEF Matched
    <2> QED BY <2>3, <2>4
  <1>9. NothingToPay'
    BY <1>5 DEF IInv, NothingToPay
  <1> QED BY <1>4, <1>6, <1>7, <1>8, <1>9 DEF IInv, Founding, Codes

\* The clock, the tiers and an operator who reads the code touch no row of anybody.
LEMMA OperatorInvariant ==
  ASSUME IInv,
         \/ Tick
         \/ \E t \in TierTables : Retune(t)
         \/ \E t \in Terms : ReadForUpdate(t)
  PROVE  IInv'
  <1>1. UNCHANGED <<state, nextRank, member, code, redeemed, comeback, listed, credit, tx>>
    BY DEF Tick, Retune, ReadForUpdate, foundingVars, codeVars, comebackVars
  <1>2. /\ tiers' \in TierTables /\ window' \in Windows
        /\ edit' \in Terms \cup {NoEdit}
    BY DEF Tick, Retune, ReadForUpdate, foundingVars, codeVars, IInv, TypeOK, Windows
  <1>3. TypeOK'
    BY <1>1, <1>2 DEF IInv, TypeOK
  <1>4. edit' # NoEdit => code # NoCode
    BY DEF Tick, Retune, ReadForUpdate, codeVars, IInv, CodeIsReal
  <1>5. Founding' /\ Codes'
    BY <1>1, <1>4, FoundingUntouched, CodesUntouched DEF IInv, Founding, Codes
  <1>6. RecordsMatchLedger' /\ NothingToPay'
    BY <1>1, RecordsUntouched DEF IInv, NothingToPay
  <1> QED BY <1>3, <1>5, <1>6 DEF IInv, Founding, Codes

\* create, setActive and update write the row of the code while nobody holds it.
LEMMA TermsInvariant ==
  ASSUME IInv, SetActive \/ UpdateCode \/ \E t \in Terms : CreateCode(t)
  PROVE  IInv'
  <1>1. /\ UNCHANGED <<state, foundingVars, window, redeemed, comebackVars, credit, tx>>
        /\ edit' \in Terms \cup {NoEdit}
    BY DEF SetActive, UpdateCode, CreateCode, IInv, TypeOK
  <1>2. \A u \in User : tx[u].op # "held"
    BY DEF SetActive, UpdateCode, CreateCode, CodeFree, IInv, CodeIsHeld
  <1>3. \A t \in Terms : /\ t.coins \in CodeCoins /\ t.coins \in Nat
                         /\ t.max \in Nat
                         /\ t.perUser \in CodePerUser /\ t.perUser \in Nat
    BY CodeAssumption DEF Terms
  <1>4. /\ code' \in CodeRow
        /\ code'.coins \in CodeCoins /\ code'.perUser \in CodePerUser
        /\ code'.count = code.count
        /\ code'.max = 0 \/ code'.count <= code'.max
    <2>1. CASE SetActive
      BY <2>1 DEF SetActive, IInv, TypeOK, CodeIsReal, CodeWithinLimits, CodeRow
    <2>2. CASE UpdateCode
      <3>1. edit \in Terms
        BY <2>2 DEF UpdateCode, IInv, TypeOK
      <3>2. code # NoCode
        BY <2>2 DEF UpdateCode, IInv, CodeIsReal
      <3> QED BY <2>2, <1>3, <3>1, <3>2
              DEF UpdateCode, Allowed, IInv, TypeOK, CodeIsReal, CodeWithinLimits, CodeRow
    <2>3. ASSUME NEW t \in Terms, CreateCode(t)
          PROVE  /\ code' \in CodeRow
                 /\ code'.coins \in CodeCoins /\ code'.perUser \in CodePerUser
                 /\ code'.count = code.count
                 /\ code'.max = 0 \/ code'.count <= code'.max
      BY <2>3, <1>3 DEF CreateCode, NoCode, CodeRow
    <2> QED BY <2>1, <2>2, <2>3
  <1>5. TypeOK'
    BY <1>1, <1>4 DEF IInv, TypeOK, foundingVars, comebackVars
  <1>6. Founding'
    BY <1>1, FoundingUntouched DEF IInv, Founding, foundingVars
  <1>7. Codes'
    <2>1. Redemptions' = Redemptions
      BY <1>1 DEF Redemptions
    <2>2. code' # NoCode
      BY <1>4, CodeOfTerms
    <2> QED BY <1>1, <1>2, <1>4, <2>1, <2>2
            DEF IInv, Codes, CodeWithinLimits, CodeIsReal, CodeIsHeld
  <1>8. RecordsMatchLedger' /\ NothingToPay'
    BY <1>1, RecordsUntouched DEF IInv, NothingToPay, foundingVars, comebackVars
  <1> QED BY <1>5, <1>6, <1>7, <1>8 DEF IInv, Founding, Codes

\* A redeemer locks the row of the code and passes the checks.
LEMMA HoldInvariant ==
  ASSUME IInv, NEW u \in User, HoldCode(u)
  PROVE  IInv'
  <1>1. /\ tx[u].op = "redeem" /\ Redeemable(u)
        /\ \A v \in User : tx[v].op # "held"
        /\ tx' = [tx EXCEPT ![u] = [tx[u] EXCEPT !.op = "held", !.coins = code.coins]]
        /\ UNCHANGED <<state, foundingVars, codeVars, comebackVars, credit>>
    BY DEF HoldCode, CodeFree, Continue
  <1>2. TypeOK'
    <2>1. tx \in [User -> Tx] /\ tx[u] \in Tx /\ code.coins \in Nat
      BY DEF IInv, TypeOK, CodeRow
    <2>2. [tx[u] EXCEPT !.op = "held", !.coins = code.coins] \in Tx
      BY <2>1 DEF Tx
    <2>3. tx' \in [User -> Tx]
      BY <1>1, <2>1, <2>2
    <2> QED BY <1>1, <2>3 DEF IInv, TypeOK, foundingVars, codeVars, comebackVars
  <1>3. \A v \in User :
          /\ tx'[v].op \in {"ranked", "complete"} => tx'[v] = tx[v]
          /\ tx'[v].op = "held" => v = u /\ tx'[v].coins = code.coins
    BY <1>1 DEF IInv, TypeOK
  <1>4. code # NoCode
    BY <1>1 DEF Redeemable, NoCode
  <1>5. Codes'
    <2>1. Redemptions' = Redemptions
      BY <1>1 DEF Redemptions, codeVars
    <2> QED BY <1>1, <1>3, <1>4, <2>1
            DEF IInv, Codes, CodeWithinLimits, CodeIsReal, CodeIsHeld, Redeemable, codeVars
  <1>6. Founding'
    BY <1>1, <1>3, FoundingUntouched DEF IInv, Founding, foundingVars
  <1>7. RecordsMatchLedger' /\ NothingToPay'
    BY <1>1, <1>3, RecordsUntouched
       DEF IInv, NothingToPay, foundingVars, codeVars, comebackVars
  <1> QED BY <1>2, <1>5, <1>6, <1>7 DEF IInv, Founding, Codes

\* One more redemption is one more row.
LEMMA OneMoreRedemption ==
  ASSUME IInv, NEW u \in User, NEW c \in CodeCoins,
         redeemed' = [redeemed EXCEPT ![u] = Append(@, c)]
  PROVE  /\ IsFiniteSet(Redemptions')
         /\ Cardinality(Redemptions') = Cardinality(Redemptions) + 1
  <1> DEFINE n == Len(redeemed[u])
  <1>1. redeemed[u] \in Seq(CodeCoins) /\ n \in Nat
    BY DEF IInv, TypeOK
  <1>2. DOMAIN redeemed[u] = 1 .. n /\ DOMAIN redeemed'[u] = 1 .. n + 1
    BY <1>1 DEF IInv, TypeOK
  <1>3. <<u, n + 1>> \notin Redemptions
    BY <1>1, <1>2 DEF Redemptions
  <1>4. Redemptions' = Redemptions \cup {<<u, n + 1>>}
    <2>1. \A v \in User : v # u => redeemed'[v] = redeemed[v]
      BY DEF IInv, TypeOK
    <2>2. {u} \X (1 .. n + 1) = ({u} \X (1 .. n)) \cup {<<u, n + 1>>}
      BY <1>1
    <2>3. \A v \in User : {v} \X DOMAIN redeemed'[v] =
            IF v = u THEN ({v} \X DOMAIN redeemed[v]) \cup {<<u, n + 1>>}
                     ELSE {v} \X DOMAIN redeemed[v]
      BY <1>2, <2>1, <2>2
    <2> QED BY <2>3 DEF Redemptions
  <1>5. IsFiniteSet(Redemptions)
    BY DEF IInv
  <1> QED BY <1>3, <1>4, <1>5, FS_AddElement

\* A redemption commits: the movement, its row and the count.
LEMMA RedemptionInvariant ==
  ASSUME IInv, NEW u \in User, CommitRedemption(u)
  PROVE  IInv'
  <1> DEFINE c == tx[u].coins
  <1>1. /\ tx[u].op = "held"
        /\ credit' = [credit EXCEPT ![u].gifts = Append(@, c)]
        /\ redeemed' = [redeemed EXCEPT ![u] = Append(@, c)]
        /\ code' = [code EXCEPT !.count = @ + 1]
        /\ tx' = [tx EXCEPT ![u] = Idle]
        /\ UNCHANGED <<state, foundingVars, window, edit, comebackVars>>
    BY DEF CommitRedemption, Continue
  <1>2. /\ c \in CodeCoins /\ code # NoCode /\ code.perUser \in CodePerUser
        /\ code.max = 0 \/ code.count < code.max
        /\ \A v \in User : tx[v].op = "held" => v = u
    BY <1>1 DEF IInv, CodeIsHeld, CodeIsReal, CodeWithinLimits
  <1>3. TypeOK'
    <2>1. redeemed' \in [User -> Seq(CodeCoins)]
      BY <1>1, <1>2 DEF IInv, TypeOK
    <2>2. credit' \in [User -> Credit]
      <3>1. [credit[u] EXCEPT !.gifts = Append(@, c)] \in Credit
        BY <1>2, CreditFacts DEF IInv, TypeOK
      <3> QED BY <1>1, <3>1 DEF IInv, TypeOK
    <2>3. code' \in CodeRow
      <3>1. code.count + 1 \in Nat
        BY DEF IInv, TypeOK, CodeRow
      <3> QED BY <1>1, <3>1 DEF IInv, TypeOK, CodeRow
    <2>4. tx' \in [User -> Tx]
      BY <1>1, TxFacts DEF IInv, TypeOK
    <2> QED BY <1>1, <2>1, <2>2, <2>3, <2>4 DEF IInv, TypeOK, foundingVars, comebackVars
  <1>4. \A v \in User : /\ tx'[v].op # "idle" => tx'[v] = tx[v] /\ v # u
                        /\ tx'[v].op # "held"
    BY <1>1, <1>2 DEF IInv, TypeOK, Idle
  <1>5. Founding'
    BY <1>1, <1>4, FoundingUntouched DEF IInv, Founding, foundingVars
  <1>6. Codes'
    <2>1. /\ IsFiniteSet(Redemptions')
          /\ Cardinality(Redemptions') = Cardinality(Redemptions) + 1
      BY <1>1, <1>2, OneMoreRedemption
    <2>2. /\ code'.count = code.count + 1 /\ code'.max = code.max
          /\ code'.coins = code.coins /\ code'.perUser = code.perUser
          /\ code.count \in Nat /\ code.max \in Nat
      BY <1>1 DEF IInv, TypeOK, CodeRow
    <2>3. code'.max = 0 \/ code'.count <= code'.max
      BY <1>2, <2>2 DEF IInv, TypeOK
    <2>4. code.coins \in CodeCoins
      BY <1>2 DEF IInv, CodeIsReal
    <2>5. code' # NoCode
      BY <1>3, <2>2, <2>4, CodeOfTerms DEF TypeOK
    <2> QED BY <1>2, <1>4, <2>1, <2>2, <2>3, <2>4, <2>5
            DEF IInv, Codes, CodeWithinLimits, CodeIsReal, CodeIsHeld
  <1>7. RecordsMatchLedger'
    <2> SUFFICES ASSUME NEW v \in User
                 PROVE  Matched(v)'
      BY DEF RecordsMatchLedger
    <2>1. Matched(v)
      BY DEF IInv, RecordsMatchLedger
    <2>2. state' = state /\ member' = member /\ comeback' = comeback
      BY <1>1 DEF foundingVars, comebackVars
    <2>3. CASE v # u
      <3>1. credit'[v] = credit[v] /\ redeemed'[v] = redeemed[v]
        BY <2>3, <1>1 DEF IInv, TypeOK
      <3> QED BY <2>1, <2>2, <3>1 DEF Matched
    <2>4. CASE v = u
      <3>1. /\ credit'[u].profile = credit[u].profile /\ credit'[u].rank = credit[u].rank
            /\ credit'[u].comeback = credit[u].comeback
            /\ credit'[u].gifts = Append(credit[u].gifts, c)
            /\ redeemed'[u] = Append(redeemed[u], c)
        BY <1>1 DEF IInv, TypeOK, Credit
      <3> QED BY <2>1, <2>2, <2>4, <3>1 DEF Matched
    <2> QED BY <2>3, <2>4
  <1>8. NothingToPay'
    BY <1>4 DEF IInv, NothingToPay
  <1> QED BY <1>3, <1>5, <1>6, <1>7, <1>8 DEF IInv, Founding, Codes

\* The comeback sweeps: a list that may be stale, and a key that is not.
LEMMA ComebackInvariant ==
  ASSUME IInv, Candidates \/ \E u \in User : Grant(u)
  PROVE  IInv'
  <1>1. UNCHANGED <<state, foundingVars, codeVars, tx>>
    BY DEF Candidates, Grant
  <1>2. Founding' /\ Codes' /\ NothingToPay'
    BY <1>1, FoundingUntouched, CodesUntouched
       DEF IInv, Founding, Codes, CodeIsReal, NothingToPay, foundingVars, codeVars
  <1>3. CASE Candidates
    <2>1. TypeOK'
      BY <1>1, <1>3 DEF IInv, TypeOK, Candidates, foundingVars, codeVars
    <2>2. RecordsMatchLedger'
      BY <1>1, <1>3, RecordsUntouched DEF IInv, Candidates, foundingVars, codeVars
    <2> QED BY <1>2, <2>1, <2>2 DEF IInv, Founding, Codes
  <1>4. ASSUME NEW u \in User, Grant(u)
        PROVE  IInv'
    <2> DEFINE grant == IF comeback[u] THEN 0 ELSE ComebackCoins
    <2>1. /\ credit' = [credit EXCEPT ![u].comeback = @ + grant]
          /\ comeback' = [comeback EXCEPT ![u] = TRUE]
          /\ listed' \subseteq User
      BY <1>4 DEF Grant, KeyFree, IInv, TypeOK
    <2>2. grant \in Nat
      BY RewardAssumption
    <2>3. TypeOK'
      <3>1. [credit[u] EXCEPT !.comeback = @ + grant] \in Credit
        <4>1. credit[u] \in Credit
          BY DEF IInv, TypeOK
        <4>2. credit[u].comeback + grant \in Nat
          BY <2>2, <4>1 DEF Credit
        <4> QED BY <4>1, <4>2 DEF Credit
      <3>2. credit' \in [User -> Credit] /\ comeback' \in [User -> BOOLEAN]
        BY <2>1, <3>1 DEF IInv, TypeOK
      <3> QED BY <1>1, <2>1, <3>2 DEF IInv, TypeOK, foundingVars, codeVars
    <2>4. RecordsMatchLedger'
      <3> SUFFICES ASSUME NEW v \in User
                   PROVE  Matched(v)'
        BY DEF RecordsMatchLedger
      <3>1. Matched(v)
        BY DEF IInv, RecordsMatchLedger
      <3>2. state' = state /\ member' = member /\ redeemed' = redeemed
        BY <1>1 DEF foundingVars, codeVars
      <3>3. CASE v = u
        <4>1. (IF comeback[u] THEN ComebackCoins ELSE 0) + grant = ComebackCoins
          BY RewardAssumption
        <4>2. /\ credit'[u].profile = credit[u].profile /\ credit'[u].rank = credit[u].rank
              /\ credit'[u].comeback = credit[u].comeback + grant
              /\ credit'[u].gifts = credit[u].gifts
          BY <2>1 DEF IInv, TypeOK, Credit
        <4>3. comeback'[u] = TRUE
          BY <2>1 DEF IInv, TypeOK
        <4> QED BY <3>1, <3>2, <3>3, <4>1, <4>2, <4>3 DEF Matched
      <3>4. CASE v # u
        <4>1. credit'[v] = credit[v] /\ comeback'[v] = comeback[v]
          BY <3>4, <2>1 DEF IInv, TypeOK
        <4> QED BY <3>1, <3>2, <4>1 DEF Matched
      <3> QED BY <3>3, <3>4
    <2> QED BY <1>2, <2>3, <2>4 DEF IInv, Founding, Codes
  <1> QED BY <1>3, <1>4

\* Every step keeps the invariant.
LEMMA StepInvariant == IInv /\ [Next]_vars => IInv'
  <1> SUFFICES ASSUME IInv, [Next]_vars
               PROVE  IInv'
    OBVIOUS
  <1>1. CASE \/ Tick
             \/ \E t \in TierTables : Retune(t)
             \/ \E t \in Terms : ReadForUpdate(t)
    BY <1>1, OperatorInvariant
  <1>2. CASE SetActive \/ UpdateCode \/ \E t \in Terms : CreateCode(t)
    BY <1>2, TermsInvariant
  <1>3. CASE Candidates \/ \E u \in User : Grant(u)
    BY <1>3, ComebackInvariant
  <1>4. ASSUME NEW u \in User,
               AcceptPolicies(u) \/ Complete(u) \/ Redeem(u) \/ Rollback(u)
        PROVE  IInv'
    BY <1>4, OpeningInvariant
  <1>5. ASSUME NEW u \in User, Award(u) \/ CommitProfile(u)
        PROVE  IInv'
    BY <1>5, AwardInvariant, CommitProfileInvariant
  <1>6. ASSUME NEW u \in User, HoldCode(u) \/ CommitRedemption(u)
        PROVE  IInv'
    BY <1>6, HoldInvariant, RedemptionInvariant
  <1>7. CASE UNCHANGED vars
    <2>1. TypeOK'
      BY <1>7 DEF IInv, TypeOK, vars
    <2>2. Founding' /\ Codes' /\ RecordsMatchLedger' /\ NothingToPay'
      BY <1>7, FoundingUntouched, CodesUntouched, RecordsUntouched
         DEF IInv, Founding, Codes, CodeIsReal, NothingToPay, vars
    <2> QED BY <2>1, <2>2 DEF IInv, Founding, Codes
  <1> QED BY <1>1, <1>2, <1>3, <1>4, <1>5, <1>6, <1>7 DEF Next

\* The inductive invariant holds of every behaviour.
THEOREM Invariant == Spec => []IInv
  BY InitInvariant, StepInvariant, PTL DEF Spec

\* Every row and every transaction stays in a state the tables and the code allow.
THEOREM TypeCorrect == Spec => []TypeOK
  <1>1. IInv => TypeOK
    BY DEF IInv
  <1> QED BY <1>1, Invariant, PTL

\* The founding ranks are 1, 2, 3 ... without a gap or a twin: FoundingService's
\* conditional UPDATE holds the campaign's row until the member is committed.
THEOREM GapFree == Spec => []RanksAreGapFree
  <1>1. IInv => RanksAreGapFree
    BY DEF IInv
  <1> QED BY <1>1, Invariant, PTL

\* The count of a code is the number of its redemptions and within the maximum in
\* force, and a redeemer who has passed the checks is never refused afterwards.
THEOREM LimitsHold == Spec => []CodeWithinLimits
  <1>1. IInv => CodeWithinLimits
    BY DEF IInv
  <1> QED BY <1>1, Invariant, PTL

\* The ledger credits each person with what the tables say was granted, key by key:
\* one onboarding reward, one rank, one comeback, every redemption at its price.
THEOREM LedgerMatchesRecords == Spec => []RecordsMatchLedger
  <1>1. IInv => RecordsMatchLedger
    BY DEF IInv
  <1> QED BY <1>1, Invariant, PTL
====
