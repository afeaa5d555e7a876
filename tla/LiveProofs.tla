------------------------------ MODULE LiveProofs ------------------------------
(***************************************************************************)
(* Theorems about LiveControl and about the daily runs of LiveExecutor,    *)
(* for every set of deployments, runs and assets, all closes, every cost   *)
(* model and every number of activations, with crashes and lost rows.      *)
(*                                                                         *)
(* The executor replays and executes by folds over sequences of rows; each *)
(* of its folds is an instance of FoldTheorems.                            *)
(***************************************************************************)
EXTENDS LiveExecutor, SequenceTheorems, FiniteSetTheorems, TLAPS

LiveInv == LiveTypeOK /\ SwitchConsistent

\* The type invariant and the agreement of the two variables are inductive.
LEMMA LiveInvInit == LiveInit => LiveInv
  <1> SUFFICES ASSUME LiveInit
               PROVE  LiveInv
    OBVIOUS
  <1>1. NoRow \in LiveRow /\ 0 \in 0 .. MaxKills
    BY LiveAssumption DEF NoRow, LiveRow, LiveStatus
  <1>2. live \in [LiveIds -> LiveRow]
    BY <1>1 DEF LiveInit
  <1>3. SwitchConsistent
    BY DEF LiveInit, SwitchConsistent
  <1> QED
    BY <1>1, <1>2, <1>3 DEF LiveInit, LiveInv, LiveTypeOK

\* An UPDATE of any set of rows keeps the table well typed.
LEMMA UpdateType ==
    ASSUME LiveTypeOK, NEW S, NEW new_status \in LiveStatus,
           NEW time \in 0 .. MaxKills,
           live' = [l \in LiveIds |->
               IF l \in S THEN Updated(live[l], new_status, time) ELSE live[l]]
    PROVE  live' \in [LiveIds -> LiveRow]
  BY DEF LiveTypeOK, LiveRow, Updated

\* Every handler keeps the table and the switch well typed.
LEMMA LiveTypeStep ==
    ASSUME LiveTypeOK, [LiveNext]_liveVars
    PROVE  LiveTypeOK'
  <1> USE LiveAssumption DEF LiveTypeOK
  <1>1. ASSUME NEW l \in LiveIds, NEW r \in Runs, Deploy(l, r)
        PROVE  LiveTypeOK'
    BY <1>1 DEF Deploy, LiveRow, LiveStatus
  <1>2. ASSUME NEW l \in LiveIds, Stop(l)
        PROVE  LiveTypeOK'
    BY <1>2 DEF Stop, Updated, LiveRow, LiveStatus
  <1>3. CASE KillSwitch
    <2>1. activations + 1 \in 0 .. MaxKills
      BY <1>3 DEF KillSwitch, SwitchOn
    <2>2. live' \in [LiveIds -> LiveRow]
      BY <1>3, <2>1, UpdateType DEF KillSwitch, LiveStatus
    <2> QED
      BY <1>3, <2>1, <2>2 DEF KillSwitch, SwitchOn
  <1>4. CASE KillSwitchFails
    BY <1>4 DEF KillSwitchFails, SwitchOn
  <1>5. CASE Resume \/ ResumeFails
    <2>1. 0 \in 0 .. MaxKills
      OBVIOUS
    <2>2. live' = [l \in LiveIds |->
              IF l \in Restored THEN Updated(live[l], "active", 0) ELSE live[l]]
      BY <1>5 DEF Resume, ResumeFails, Restore
    <2>3. live' \in [LiveIds -> LiveRow]
      BY <2>1, <2>2, UpdateType DEF LiveStatus
    <2>4. kill_active' \in BOOLEAN
      BY <1>5 DEF Resume, ResumeFails
    <2> QED
      BY <1>5, <2>1, <2>3, <2>4 DEF Resume, ResumeFails
  <1>6. CASE RestartServer
    <2>1. 0 \in 0 .. MaxKills
      OBVIOUS
    <2>2. kill_active' \in BOOLEAN
      BY <1>6 DEF RestartServer
    <2> QED
      BY <1>6, <2>1, <2>2 DEF RestartServer
  <1>7. CASE UNCHANGED liveVars
    BY <1>7 DEF liveVars
  <1> QED
    BY <1>1, <1>2, <1>3, <1>4, <1>5, <1>6, <1>7 DEF LiveNext

\* The flag and its time are set and cleared together.
LEMMA LiveInvStep ==
    ASSUME LiveInv, [LiveNext]_liveVars
    PROVE  LiveInv'
  <1> SUFFICES SwitchConsistent'
    BY LiveTypeStep DEF LiveInv
  <1>1. CASE KillSwitch \/ KillSwitchFails
    <2>1. activated_at' = activations' /\ activations' > 0 /\ kill_active'
      BY <1>1 DEF KillSwitch, KillSwitchFails, SwitchOn, LiveInv, LiveTypeOK
    <2> QED
      BY <2>1 DEF SwitchConsistent
  <1>2. CASE Resume \/ RestartServer
    <2>1. activated_at' = 0 /\ ~kill_active'
      BY <1>2 DEF Resume, RestartServer
    <2> QED
      BY <2>1 DEF SwitchConsistent
  <1>3. CASE UNCHANGED <<kill_active, activated_at, activations>>
    BY <1>3 DEF LiveInv, SwitchConsistent
  <1> QED
    BY <1>1, <1>2, <1>3 DEF LiveNext, Deploy, Stop, ResumeFails, liveVars

\* SwitchConsistent: a remembered activation is always the latest one.
THEOREM LiveConsistent == LiveSpec => [](LiveTypeOK /\ SwitchConsistent)
  <1>1. LiveInit => LiveInv
    BY LiveInvInit
  <1>2. LiveInv /\ [LiveNext]_liveVars => LiveInv'
    BY LiveInvStep
  <1>3. LiveInv => LiveTypeOK /\ SwitchConsistent
    BY DEF LiveInv
  <1> QED
    BY <1>1, <1>2, <1>3, PTL DEF LiveSpec

\* StoppedStaysStopped: no kill, resume or restart touches a stopped row.
THEOREM LiveStoppedStays == LiveSpec => StoppedStaysStopped
  <1>1. LiveInv /\ [LiveNext]_liveVars =>
          [\A l \in LiveIds : live[l].status = "stopped" => live'[l] = live[l]]_liveVars
    <2> SUFFICES ASSUME LiveInv, [LiveNext]_liveVars, NEW l \in LiveIds,
                        live[l].status = "stopped"
                 PROVE  live'[l] = live[l]
      BY DEF liveVars
    <2> USE DEF LiveInv, LiveTypeOK
    <2>1. ASSUME NEW m \in LiveIds, NEW r \in Runs, Deploy(m, r)
          PROVE  live'[l] = live[l]
      BY <2>1 DEF Deploy
    <2>2. ASSUME NEW m \in LiveIds, Stop(m)
          PROVE  live'[l] = live[l]
      BY <2>2 DEF Stop
    <2>3. CASE KillSwitch \/ KillSwitchFails
      BY <2>3 DEF KillSwitch, KillSwitchFails, Active
    <2>4. CASE Resume \/ ResumeFails
      BY <2>4 DEF Resume, ResumeFails, Restore, Restored, Killed
    <2>5. CASE RestartServer \/ UNCHANGED liveVars
      BY <2>5 DEF RestartServer, liveVars
    <2> QED
      BY <2>1, <2>2, <2>3, <2>4, <2>5 DEF LiveNext
  <1> QED
    BY <1>1, LiveInvInit, LiveInvStep, PTL DEF LiveSpec, StoppedStaysStopped

\* IdleResumeRestoresAll: with the flag off, /resume selects all that is killed.
THEOREM LiveIdleResume == LiveSpec => []IdleResumeRestoresAll
  <1>1. LiveInv => IdleResumeRestoresAll
    BY DEF LiveInv, SwitchConsistent, IdleResumeRestoresAll, Restored, Killed
  <1>2. LiveInit => LiveInv
    BY LiveInvInit
  <1>3. LiveInv /\ [LiveNext]_liveVars => LiveInv'
    BY LiveInvStep
  <1> QED
    BY <1>1, <1>2, <1>3, PTL DEF LiveSpec

\* KillHoldsUntilResume, failures included: while the switch is on and its
\* latest request has succeeded, only deployments made after the activation
\* are active.
THEOREM LiveKillHolds == LiveSpec => []KillHoldsUntilResume
  <1> DEFINE Inv == LiveInv /\ KillHoldsUntilResume
  <1>1. LiveInit => Inv
    BY LiveInvInit DEF LiveInit, KillHoldsUntilResume
  <1>2. Inv /\ [LiveNext]_liveVars => Inv'
    <2> SUFFICES ASSUME Inv, [LiveNext]_liveVars
                 PROVE  KillHoldsUntilResume'
      BY LiveInvStep
    <2> SUFFICES ASSUME kill_active', ~torn', NEW l \in LiveIds,
                        live'[l].status = "active"
                 PROVE  live'[l].deployed_at >= activated_at'
      BY DEF KillHoldsUntilResume, Active
    <2> USE DEF LiveInv, LiveTypeOK
    <2>1. ASSUME NEW m \in LiveIds, NEW r \in Runs, Deploy(m, r)
          PROVE  live'[l].deployed_at >= activated_at'
      <3>1. CASE l = m
        BY <2>1, <3>1 DEF Deploy, SwitchConsistent
      <3>2. CASE l # m
        BY <2>1, <3>2 DEF Deploy, KillHoldsUntilResume, Active
      <3> QED
        BY <3>1, <3>2
    <2>2. ASSUME NEW m \in LiveIds, Stop(m)
          PROVE  live'[l].deployed_at >= activated_at'
      BY <2>2 DEF Stop, Updated, KillHoldsUntilResume, Active
    <2>3. CASE KillSwitch
      BY <2>3 DEF KillSwitch, Updated, Active
    <2>4. CASE Resume \/ RestartServer
      BY <2>4 DEF Resume, RestartServer
    <2>6. CASE KillSwitchFails \/ ResumeFails
      BY <2>6 DEF KillSwitchFails, ResumeFails
    <2>5. CASE UNCHANGED liveVars
      BY <2>5 DEF liveVars, KillHoldsUntilResume, Active
    <2> QED
      BY <2>1, <2>2, <2>3, <2>4, <2>5, <2>6 DEF LiveNext
  <1> QED
    BY <1>1, <1>2, PTL DEF LiveSpec

-----------------------------------------------------------------------------
IsSequence(s) == \E S : s \in Seq(S)

\* What a run still has to do concerns deployments that were active when it
\* began and, since the routes wait for its end, still are.
RunIsOfActive ==
    /\ todo \subseteq Active
    /\ current # "none" => current \in Active
    /\ DOMAIN rows = LiveIds
    /\ \A l \in LiveIds : IsSequence(rows[l])

\* A row is added at the end of a sequence.
LEMMA AppendIsPrefix ==
    ASSUME NEW s, IsSequence(s), NEW r
    PROVE  IsSequence(Append(s, r)) /\ IsPrefix(s, Append(s, r))
  <1>1. PICK S : s \in Seq(S)
    BY DEF IsSequence
  <1> DEFINE T == S \cup {r}
  <1>2. s \in Seq(T) /\ r \in T
    BY <1>1
  <1> HIDE DEF T
  <1>3. /\ Append(s, r) \in Seq(T)
        /\ Len(Append(s, r)) = Len(s) + 1 /\ Len(s) \in Nat
        /\ \A i \in 1 .. Len(s) : Append(s, r)[i] = s[i]
    BY <1>2, AppendProperties
  <1>4. SubSeq(s, 1, Len(s)) = SubSeq(Append(s, r), 1, Len(s))
    BY <1>2, <1>3
  <1> QED
    BY <1>3, <1>4 DEF IsSequence, IsPrefix

\* Before the first run there is nothing to do and nothing stored.
LEMMA RunInit == ExecInit => RunIsOfActive
  <1>1. \A S : <<>> \in Seq(S)
    OBVIOUS
  <1> QED
    BY <1>1 DEF ExecInit, RunIsOfActive, IsSequence

\* A run only touches what was active, and only adds rows.
LEMMA RunStep ==
    ASSUME RunIsOfActive, [ExecNext]_vars
    PROVE  /\ RunIsOfActive'
           /\ \A l \in LiveIds : rows'[l] # rows[l] => l \in Active /\ IsPrefix(rows[l], rows'[l])
  <1> USE DEF RunIsOfActive, execVars, liveVars, Active
  <1>1. CASE Control
    BY <1>1 DEF Control, Quiet
  <1>2. CASE StartRun
    BY <1>2 DEF StartRun, Loaded, Quiet
  <1>3. ASSUME NEW l \in LiveIds, ExecuteStrategy(l)
        PROVE  /\ RunIsOfActive'
               /\ UNCHANGED rows
    <2>1. /\ todo' = todo \ {l} /\ l \in todo
          /\ current' \in {"none", l}
          /\ UNCHANGED <<liveVars, rows>>
      BY <1>3 DEF ExecuteStrategy
    <2> QED
      BY <2>1
  <1>4. ASSUME NEW l \in LiveIds, StrategyFails(l)
        PROVE  RunIsOfActive' /\ UNCHANGED rows
    BY <1>4 DEF StrategyFails
  <1>5. CASE PersistOrder
    <2>1. /\ current \in Active /\ current \in LiveIds
          /\ rows' = [rows EXCEPT ![current] = Append(rows[current], Head(results))]
          /\ current' \in {"none", current}
          /\ UNCHANGED <<liveVars, todo>>
      BY <1>5 DEF PersistOrder
    <2>2. /\ IsSequence(rows'[current])
          /\ IsPrefix(rows[current], rows'[current])
      BY <2>1, AppendIsPrefix
    <2>3. DOMAIN rows' = LiveIds /\ \A l \in LiveIds \ {current} : rows'[l] = rows[l]
      BY <2>1
    <2> QED
      BY <2>1, <2>2, <2>3
  <1>6. CASE PersistFails \/ CrashExecutor
    BY <1>6 DEF PersistFails, CrashExecutor
  <1>7. CASE UNCHANGED vars
    BY <1>7 DEF vars
  <1> QED
    BY <1>1, <1>2, <1>3, <1>4, <1>5, <1>6, <1>7 DEF ExecNext

\* OnlyActiveTrade: whatever crashes, fails or is stopped and killed between
\* two runs, rows are only added, and only to a deployment that is active.
THEOREM OnlyActiveDeploymentsTrade == ExecSpec => OnlyActiveTrade
  <1>1. ExecInit => RunIsOfActive
    BY RunInit
  <1>2. RunIsOfActive /\ [ExecNext]_vars => RunIsOfActive'
    BY RunStep
  <1>3. RunIsOfActive /\ [ExecNext]_vars =>
          [\A l \in LiveIds : rows'[l] # rows[l] =>
              l \in Active /\ IsPrefix(rows[l], rows'[l])]_vars
    BY RunStep
  <1> QED
    BY <1>1, <1>2, <1>3, PTL DEF ExecSpec, OnlyActiveTrade

-----------------------------------------------------------------------------
\* The folds of the executor, as instances of the theory of folds.
CashFold == INSTANCE FoldTheorems WITH Op <- CashAfter
PositionFold == INSTANCE FoldTheorems WITH Op <- PositionsAfter
NetFold == INSTANCE FoldTheorems WITH Op <- NetAfter
BrokerFold == INSTANCE FoldTheorems WITH Op <- Submit
SpentFold == INSTANCE FoldTheorems WITH Op <- SpentAfter

\* The folds written with the library's operator are those of the theory.
LEMMA CashFoldIs ==
    ASSUME NEW base, NEW s
    PROVE  FoldLeft(CashAfter, base, s) = CashFold!Fold(base, s)
  BY DEF CashFold!Fold, CashFold!FoldLeft, FoldLeft, CashFold!MapThenFoldSet,
         MapThenFoldSet, CashFold!Max, Max

\* The same for the replay of positions.
LEMMA PositionFoldIs ==
    ASSUME NEW base, NEW s
    PROVE  FoldLeft(PositionsAfter, base, s) = PositionFold!Fold(base, s)
  BY DEF PositionFold!Fold, PositionFold!FoldLeft, FoldLeft,
         PositionFold!MapThenFoldSet, MapThenFoldSet, PositionFold!Max, Max

\* The same for the shares bought.
LEMMA NetFoldIs ==
    ASSUME NEW base, NEW s
    PROVE  FoldLeft(NetAfter, base, s) = NetFold!Fold(base, s)
  BY DEF NetFold!Fold, NetFold!FoldLeft, FoldLeft, NetFold!MapThenFoldSet,
         MapThenFoldSet, NetFold!Max, Max

\* The same for the orders of a batch.
LEMMA BrokerFoldIs ==
    ASSUME NEW base, NEW s
    PROVE  FoldLeft(Submit, base, s) = BrokerFold!Fold(base, s)
  BY DEF BrokerFold!Fold, BrokerFold!FoldLeft, FoldLeft,
         BrokerFold!MapThenFoldSet, MapThenFoldSet, BrokerFold!Max, Max

\* The same for the costs of a batch.
LEMMA SpentFoldIs ==
    ASSUME NEW base, NEW s
    PROVE  FoldLeft(SpentAfter, base, s) = SpentFold!Fold(base, s)
  BY DEF SpentFold!Fold, SpentFold!FoldLeft, FoldLeft, SpentFold!MapThenFoldSet,
         MapThenFoldSet, SpentFold!Max, Max

-----------------------------------------------------------------------------
\* The fresh broker only fills purchases.
BuyRow == {r \in Execution : r.status = "filled" => r.side = "buy"}

\* One more row, for the three quantities replayed from rows.
LEMMA CashAppend ==
    ASSUME NEW s \in Seq(BuyRow), NEW r \in BuyRow, NEW base
    PROVE  FoldLeft(CashAfter, base, Append(s, r)) =
               CashAfter(FoldLeft(CashAfter, base, s), r)
  <1>1. CashFold!Fold(base, Append(s, r)) = CashAfter(CashFold!Fold(base, s), r)
    BY CashFold!FoldAppend
  <1>2. FoldLeft(CashAfter, base, s) = CashFold!Fold(base, s)
    BY CashFoldIs
  <1>3. FoldLeft(CashAfter, base, Append(s, r)) = CashFold!Fold(base, Append(s, r))
    BY CashFoldIs
  <1> QED
    BY <1>1, <1>2, <1>3

\* One more row adds to the shares bought.
LEMMA NetAppend ==
    ASSUME NEW s \in Seq(BuyRow), NEW r \in BuyRow, NEW base
    PROVE  FoldLeft(NetAfter, base, Append(s, r)) =
               NetAfter(FoldLeft(NetAfter, base, s), r)
  <1>1. NetFold!Fold(base, Append(s, r)) = NetAfter(NetFold!Fold(base, s), r)
    BY NetFold!FoldAppend
  <1>2. FoldLeft(NetAfter, base, s) = NetFold!Fold(base, s)
    BY NetFoldIs
  <1>3. FoldLeft(NetAfter, base, Append(s, r)) = NetFold!Fold(base, Append(s, r))
    BY NetFoldIs
  <1> QED
    BY <1>1, <1>2, <1>3

\* What a batch spends, in the theory of folds.
LEMMA SpentIs ==
    ASSUME NEW s
    PROVE  Spent(s) = SpentFold!Fold(0, s)
  BY SpentFoldIs DEF Spent

\* One more row adds to what is spent.
LEMMA SpentAppend ==
    ASSUME NEW s \in Seq(BuyRow), NEW r \in BuyRow
    PROVE  Spent(Append(s, r)) = SpentAfter(Spent(s), r)
  <1>1. SpentFold!Fold(0, Append(s, r)) = SpentAfter(SpentFold!Fold(0, s), r)
    BY SpentFold!FoldAppend
  <1> QED
    BY <1>1, SpentIs

\* An empty batch spends nothing.
LEMMA SpentEmpty == Spent(<<>>) = 0
  BY SpentIs, SpentFold!FoldEmpty

\* A row spends an amount, whatever was spent before it.
LEMMA SpentStep ==
    ASSUME NEW n \in Nat, NEW r \in BuyRow
    PROVE  SpentAfter(n, r) \in Nat /\ n <= SpentAfter(n, r)
           /\ \A m \in Nat : SpentAfter(m + n, r) = m + SpentAfter(n, r)
  <1>1. r.qty \in Nat /\ r.price \in Nat /\ r.cost \in Nat
    BY DEF BuyRow, Execution
  <1>2. PICK x : x = r.qty * r.price /\ x \in Nat
    BY <1>1
  <1> QED
    BY <1>1, <1>2 DEF SpentAfter

\* A batch spends an amount.
LEMMA SpentType ==
    ASSUME NEW s \in Seq(BuyRow)
    PROVE  Spent(s) \in Nat
  <1>1. \A n \in Nat, r \in BuyRow : SpentAfter(n, r) \in Nat
    BY SpentStep
  <1>2. SpentFold!Fold(0, s) \in Nat
    BY <1>1, SpentFold!FoldKeeps
  <1> QED
    BY <1>2, SpentIs

\* What the first row of a batch takes from the cash the others leave there.
LEMMA SpentTail ==
    ASSUME NEW s \in Seq(BuyRow), s # <<>>
    PROVE  Spent(s) = SpentAfter(0, Head(s)) + Spent(Tail(s))
  <1>0. Tail(s) \in Seq(BuyRow)
    OBVIOUS
  <1>1. PICK t : t = Tail(s) /\ t \in Seq(BuyRow)
    BY <1>0
  <1>2. Head(s) \in BuyRow
    OBVIOUS
  <1>3. PICK b : b = SpentAfter(0, Head(s)) /\ b \in Nat
    BY <1>2, SpentStep
  <1>4. Spent(s) = SpentFold!Fold(b, t)
    <2>1. SpentFold!Fold(0, s) = SpentFold!Fold(SpentAfter(0, Head(s)), Tail(s))
      BY SpentFold!FoldTail
    <2> QED
      BY <1>1, <1>3, <2>1, SpentIs
  <1> DEFINE A == [k \in 0 .. Len(t) |-> {b + Spent(SubSeq(t, 1, k))}]
  <1>5. \A k \in 0 .. Len(t) : SubSeq(t, 1, k) \in Seq(BuyRow)
    BY <1>1
  <1>6. b \in A[0]
    <2>1. 0 \in 0 .. Len(t) /\ SubSeq(t, 1, 0) = <<>>
      BY <1>1
    <2>2. b + Spent(SubSeq(t, 1, 0)) = b
      <3>1. Spent(SubSeq(t, 1, 0)) = Spent(<<>>)
        BY <2>1
      <3>2. Spent(<<>>) = 0
        BY SpentEmpty
      <3>3. Spent(SubSeq(t, 1, 0)) = 0
        BY <3>1, <3>2
      <3> QED
        BY <1>3, <3>3
    <2>3. A[0] = {b + Spent(SubSeq(t, 1, 0))}
      BY <2>1
    <2> QED
      BY <2>2, <2>3
  <1>7. ASSUME NEW k \in 1 .. Len(t), NEW a \in A[k - 1]
        PROVE  SpentAfter(a, t[k]) \in A[k]
    <2>1. PICK j : j = k - 1
      OBVIOUS
    <2>2. j \in 0 .. Len(t) /\ k \in 0 .. Len(t) /\ t[k] \in BuyRow
      BY <1>1, <2>1
    <2>3. a = b + Spent(SubSeq(t, 1, j)) /\ Spent(SubSeq(t, 1, j)) \in Nat
      BY <1>5, <1>7, <2>1, <2>2, SpentType
    <2>4. Spent(SubSeq(t, 1, k)) = SpentAfter(Spent(SubSeq(t, 1, j)), t[k])
      <3>1. SpentFold!Fold(0, SubSeq(t, 1, k)) =
                SpentAfter(SpentFold!Fold(0, SubSeq(t, 1, k - 1)), t[k])
        BY <1>1, SpentFold!FoldPrefix
      <3> QED
        BY <2>1, <3>1, SpentIs
    <2>5. SpentAfter(a, t[k]) = b + SpentAfter(Spent(SubSeq(t, 1, j)), t[k])
      BY <1>3, <2>2, <2>3, SpentStep
    <2> QED
      BY <2>2, <2>4, <2>5
  <1> HIDE DEF A
  <1>8. SpentFold!Fold(b, t) \in A[Len(t)]
    BY <1>1, <1>6, <1>7, SpentFold!FoldInduction
  <1>9. A[Len(t)] = {b + Spent(t)}
    <2>1. Len(t) \in 0 .. Len(t) /\ SubSeq(t, 1, Len(t)) = t
      BY <1>1
    <2> QED
      BY <2>1 DEF A
  <1> QED
    BY <1>1, <1>3, <1>4, <1>8, <1>9

-----------------------------------------------------------------------------
\* Where only purchases fill, the replay and the shares bought agree.
LEMMA PositionStep ==
    ASSUME NEW p \in [Assets -> Nat], NEW r \in BuyRow
    PROVE  PositionsAfter(p, r) = NetAfter(p, r) /\ NetAfter(p, r) \in [Assets -> Nat]
  <1>1. r.asset \in Assets /\ r.qty \in Nat /\ (r.status = "filled" => r.side = "buy")
    BY DEF BuyRow, Execution
  <1>2. CASE r.status = "filled"
    <2>1. PositionsAfter(p, r) = [p EXCEPT ![r.asset] = p[r.asset] + r.qty]
      BY <1>1, <1>2 DEF PositionsAfter, IsFilled, Moved
    <2>2. NetAfter(p, r) = [p EXCEPT ![r.asset] = p[r.asset] + r.qty]
      BY <1>1, <1>2 DEF NetAfter, IsFilled
    <2>3. p[r.asset] + r.qty \in Nat
      BY <1>1
    <2>4. [p EXCEPT ![r.asset] = p[r.asset] + r.qty] \in [Assets -> Nat]
      BY <2>3
    <2> QED
      BY <2>1, <2>2, <2>4
  <1>3. CASE r.status # "filled"
    BY <1>3 DEF PositionsAfter, NetAfter, IsFilled
  <1> QED
    BY <1>2, <1>3

\* Shares bought are never negative when only purchases fill.
LEMMA NetType ==
    ASSUME NEW s \in Seq(BuyRow)
    PROVE  FoldLeft(NetAfter, Nothing, s) \in [Assets -> Nat]
  <1>1. \A p \in [Assets -> Nat], r \in BuyRow : NetAfter(p, r) \in [Assets -> Nat]
    BY PositionStep
  <1>2. Nothing \in [Assets -> Nat]
    BY DEF Nothing
  <1>3. NetFold!Fold(Nothing, s) \in [Assets -> Nat]
    BY <1>1, <1>2, NetFold!FoldKeeps
  <1> QED
    BY <1>3, NetFoldIs

\* The positions that load_portfolio_state replays are the shares bought.
LEMMA ReplayedIsBought ==
    ASSUME NEW s \in Seq(BuyRow)
    PROVE  FoldLeft(PositionsAfter, Nothing, s) = FoldLeft(NetAfter, Nothing, s)
  <1> DEFINE N(k) == FoldLeft(NetAfter, Nothing, SubSeq(s, 1, k))
             A == [k \in 0 .. Len(s) |-> {N(k)}]
  <1>1. \A k \in 0 .. Len(s) : N(k) \in [Assets -> Nat]
    <2>1. \A k \in 0 .. Len(s) : SubSeq(s, 1, k) \in Seq(BuyRow)
      OBVIOUS
    <2> QED
      BY <2>1, NetType
  <1>2. Nothing \in A[0]
    <2>1. 0 \in 0 .. Len(s) /\ SubSeq(s, 1, 0) = <<>>
      OBVIOUS
    <2>2. N(0) = Nothing
      <3>1. NetFold!Fold(Nothing, <<>>) = Nothing
        BY NetFold!FoldEmpty
      <3> QED
        BY <2>1, <3>1, NetFoldIs
    <2> QED
      BY <2>1, <2>2
  <1>3. ASSUME NEW k \in 1 .. Len(s), NEW a \in A[k - 1]
        PROVE  PositionsAfter(a, s[k]) \in A[k]
    <2>1. PICK j : j = k - 1
      OBVIOUS
    <2>2. j \in 0 .. Len(s) /\ k \in 0 .. Len(s) /\ s[k] \in BuyRow
      BY <2>1
    <2>3. a = N(j)
      BY <1>3, <2>1, <2>2
    <2>4. N(k) = NetAfter(N(j), s[k])
      <3>1. NetFold!Fold(Nothing, SubSeq(s, 1, k)) =
                NetAfter(NetFold!Fold(Nothing, SubSeq(s, 1, k - 1)), s[k])
        BY NetFold!FoldPrefix
      <3> QED
        BY <2>1, <3>1, NetFoldIs
    <2>5. PositionsAfter(N(j), s[k]) = NetAfter(N(j), s[k])
      BY <1>1, <2>2, PositionStep
    <2> QED
      BY <2>2, <2>3, <2>4, <2>5
  <1> HIDE DEF A
  <1>4. PositionFold!Fold(Nothing, s) \in A[Len(s)]
    BY <1>2, <1>3, PositionFold!FoldInduction
  <1>5. A[Len(s)] = {FoldLeft(NetAfter, Nothing, s)}
    <2>1. Len(s) \in 0 .. Len(s) /\ SubSeq(s, 1, Len(s)) = s
      OBVIOUS
    <2> QED
      BY <2>1 DEF A
  <1> QED
    BY <1>4, <1>5, PositionFoldIs

-----------------------------------------------------------------------------
\* What one position may cost, at some close.
Covered(q) == \E p \in Prices \ {0} : q * p <= InitialCash \div MaxPositionDiv

\* The costs of an order are an amount.
LEMMA CostType ==
    ASSUME NEW n \in Nat, NEW side
    PROVE  TotalCost(n, side) \in Nat
  <1>1. ASSUME NEW d \in Nat \ {0}
        PROVE  Rounded(n, d) \in Nat
    BY DEF Rounded
  <1> QED
    BY <1>1, CostAssumption DEF TotalCost, Commission, StampDuty, Slippage

\* Rounding to lots rounds down.
LEMMA RoundDown ==
    ASSUME NEW q \in Nat
    PROVE  RoundToLot(q) \in Nat /\ RoundToLot(q) <= q
  <1>1. PICK d : d = q \div LotSize
    OBVIOUS
  <1>2. LotSize \in Nat \ {0}
    BY ExecutorAssumption
  <1>3. d \in Nat /\ d * LotSize <= q
    BY <1>1, <1>2
  <1> QED
    BY <1>1, <1>2, <1>3 DEF RoundToLot

\* A target, at the close it was sized with, is within the cap.
LEMMA TargetCovered ==
    ASSUME NEW a \in Assets, NEW longs \in SUBSET Assets,
           NEW nav \in 0 .. InitialCash, NEW price \in [Assets -> Prices],
           price[a] > 0
    PROVE  /\ Target(a, longs, nav, price) \in Nat
           /\ Target(a, longs, nav, price) * price[a] <= InitialCash \div MaxPositionDiv
  <1>0. price[a] \in Prices /\ price[a] \in Nat /\ price[a] # 0
    <2>1. price[a] \in Prices
      OBVIOUS
    <2>2. price[a] \in Nat
      BY <2>1, ExecutorAssumption
    <2> QED
      BY <2>1, <2>2
  <1>1. PICK p : p = price[a] /\ p \in Nat \ {0}
    BY <1>0
  <1>2. InitialCash \in Nat /\ MaxPositionDiv \in Nat \ {0}
    BY ExecutorAssumption
  <1>3. Cardinality(longs) \in Nat
    BY ExecutorAssumption, FS_Subset, FS_CardinalityType
  <1>4. PICK n : n = IF Cardinality(longs) > MaxPositionDiv THEN Cardinality(longs)
                     ELSE MaxPositionDiv
    OBVIOUS
  <1>5. n \in Nat /\ n >= MaxPositionDiv
    BY <1>2, <1>3, <1>4
  <1>6. PICK x : x = n * p /\ x \in Nat \ {0}
    BY <1>1, <1>2, <1>5
  <1>7. PICK q : q = nav \div x
    OBVIOUS
  <1>8. q \in Nat /\ q * x <= nav
    BY <1>6, <1>7
  <1>9. PICK t : t = Target(a, longs, nav, price)
    OBVIOUS
  <1>10. t \in Nat /\ t <= q
    <2>1. t = IF a \in longs /\ p > 0 THEN RoundToLot(q) ELSE 0
      BY <1>1, <1>4, <1>6, <1>7, <1>9 DEF Target
    <2> QED
      BY <1>8, <2>1, RoundDown
  <1>11. PICK v : v = t * p /\ v \in Nat
    BY <1>1, <1>10
  <1>12. v * MaxPositionDiv <= InitialCash
    <2>1. v <= q * p
      BY <1>1, <1>8, <1>10, <1>11
    <2>2. PICK w : w = q * p /\ w \in Nat
      BY <1>1, <1>8
    <2>3. w * n = q * x
      BY <1>1, <1>5, <1>6, <1>8, <2>2
    <2>4. w * MaxPositionDiv <= w * n
      BY <1>2, <1>5, <2>2
    <2>5. v * MaxPositionDiv <= w * MaxPositionDiv
      BY <1>2, <1>11, <2>1, <2>2
    <2>6. /\ v * MaxPositionDiv \in Nat /\ w * MaxPositionDiv \in Nat
          /\ w * n \in Nat /\ q * x \in Nat
      BY <1>2, <1>5, <1>6, <1>8, <1>11, <2>2
    <2> QED
      BY <1>2, <1>8, <2>3, <2>4, <2>5, <2>6
  <1>13. v <= InitialCash \div MaxPositionDiv
    BY <1>2, <1>11, <1>12
  <1> QED
    BY <1>1, <1>9, <1>10, <1>11, <1>13

\* The orders of a conversion: one per asset, and no purchase beyond the cap.
LEMMA ConvertOrders ==
    ASSUME NEW held \in [Assets -> Nat], NEW longs \in SUBSET Assets,
           NEW nav \in 0 .. InitialCash, NEW price \in [Assets -> Prices],
           NEW o \in Convert(held, longs, nav, price)
    PROVE  /\ o = OrderFor(held, o.asset, longs, nav, price)
           /\ o.asset \in Assets /\ o.qty \in Nat /\ o.side \in {"buy", "sell"}
           /\ o.side = "buy" => Covered(held[o.asset] + o.qty)
  <1>1. PICK a \in Assets : /\ price[a] > 0
                            /\ o = OrderFor(held, a, longs, nav, price)
    BY DEF Convert
  <1>2. PICK t : t = Target(a, longs, nav, price)
    OBVIOUS
  <1>3. t \in Nat /\ t * price[a] <= InitialCash \div MaxPositionDiv
    BY <1>1, <1>2, TargetCovered
  <1>4. PICK d : d = t - held[a] /\ d \in Int
    BY <1>3
  <1>5. o = [asset |-> a, side |-> IF d > 0 THEN "buy" ELSE "sell",
             qty |-> RoundToLot(IF d > 0 THEN d ELSE -d)]
    BY <1>1, <1>2, <1>4 DEF OrderFor, Delta
  <1>6. PICK e : e = (IF d > 0 THEN d ELSE -d) /\ e \in Nat
    BY <1>4
  <1>7. o.asset = a /\ o.qty = RoundToLot(e) /\ o.side = IF d > 0 THEN "buy" ELSE "sell"
    BY <1>5, <1>6
  <1>8. o.qty \in Nat /\ o.qty <= e
    BY <1>6, <1>7, RoundDown
  <1>9. ASSUME o.side = "buy"
        PROVE  Covered(held[a] + o.qty)
    <2>1. d > 0 /\ e = d
      BY <1>4, <1>6, <1>7, <1>9
    <2>2. PICK h : h = held[a] + o.qty /\ h \in Nat /\ h <= t
      BY <1>3, <1>4, <1>8, <2>1
    <2>0. price[a] \in Prices /\ price[a] \in Nat /\ price[a] # 0
      <3>1. price[a] \in Prices
        OBVIOUS
      <3>2. price[a] \in Nat
        BY <3>1, ExecutorAssumption
      <3> QED
        BY <1>1, <3>1, <3>2
    <2>3. PICK p : p = price[a] /\ p \in Prices \ {0} /\ p \in Nat
      BY <2>0
    <2>4. h * p <= t * p /\ h * p \in Nat /\ t * p \in Nat
      BY <1>3, <2>2, <2>3
    <2>5. InitialCash \div MaxPositionDiv \in Nat
      BY ExecutorAssumption
    <2>6. h * p <= InitialCash \div MaxPositionDiv
      BY <1>3, <2>3, <2>4, <2>5
    <2> QED
      BY <2>2, <2>3, <2>6 DEF Covered
  <1> QED
    BY <1>1, <1>7, <1>8, <1>9

\* The rows of one batch: an asset occurs once.
OneRowEach(s) == \A i, j \in 1 .. Len(s) : i # j => s[i].asset # s[j].asset

\* A purchase on top of what is held stays within the cap.
RowsCovered(s, held) ==
    \A i \in 1 .. Len(s) :
        s[i].status = "filled" => Covered(held[s[i].asset] + s[i].qty)

\* The orders of a batch are finitely many; one order of execution has each.
LEMMA BatchOrder ==
    ASSUME NEW held \in [Assets -> Nat], NEW longs \in SUBSET Assets,
           NEW cash \in 0 .. InitialCash, NEW price \in [Assets -> Prices],
           NEW batch \in SUBSET Convert(held, longs, cash, price),
           NEW order \in SetToSeqs(batch)
    PROVE  /\ order \in Seq(batch) /\ (order = <<>> <=> batch = {})
           /\ OneRowEach(order)
  <1> DEFINE B == {b \in Assets :
                      /\ price[b] > 0
                      /\ \/ Delta(held, b, longs, cash, price) >= LotSize
                         \/ -Delta(held, b, longs, cash, price) >= LotSize}
  <1>1. IsFiniteSet(B)
    BY ExecutorAssumption, FS_Subset
  <1>2. Convert(held, longs, cash, price) =
            {OrderFor(held, a, longs, cash, price) : a \in B}
    BY DEF Convert
  <1> HIDE DEF B
  <1>3. IsFiniteSet(Convert(held, longs, cash, price))
    <2> DEFINE C == Convert(held, longs, cash, price)
               f == [a \in B |-> OrderFor(held, a, longs, cash, price)]
    <2>1. f \in [B -> C] /\ \A o \in C : \E a \in B : f[a] = o
      BY <1>2
    <2> HIDE DEF C, f
    <2>2. f \in Surjection(B, C)
      BY <2>1 DEF Surjection
    <2>3. IsFiniteSet(C)
      BY <1>1, <2>2, FS_Surjection
    <2> QED
      BY <2>3 DEF C
  <1>4. PICK n : n = Cardinality(batch) /\ n \in Nat /\ (n = 0 <=> batch = {})
    <2>1. IsFiniteSet(batch)
      BY <1>3, FS_Subset
    <2> QED
      BY <2>1, FS_CardinalityType, FS_EmptySet
  <1>5. order \in [1 .. n -> batch] /\ \A i, j \in 1 .. n : i # j => order[i] # order[j]
    BY <1>4 DEF SetToSeqs
  <1>6. order \in Seq(batch) /\ Len(order) = n
    BY <1>4, <1>5
  <1>7. \A o \in batch : o = OrderFor(held, o.asset, longs, cash, price)
    BY ConvertOrders
  <1>8. ASSUME NEW i \in 1 .. n, NEW j \in 1 .. n, order[i].asset = order[j].asset
        PROVE  i = j
    <2>1. order[i] \in batch /\ order[j] \in batch
      BY <1>5
    <2>2. order[i] = order[j]
      BY <1>7, <1>8, <2>1
    <2> QED
      BY <1>5, <2>2
  <1> QED
    BY <1>4, <1>6, <1>8 DEF OneRowEach

\* The answer of the fresh broker to one order of a batch.
LEMMA SubmitAnswer ==
    ASSUME NEW b, NEW o, b.cash \in Nat, b.done \in Seq(BuyRow),
           b.price[o.asset] \in Nat,
           o.asset \in Assets, o.qty \in Nat, o.side \in {"buy", "sell"}
    PROVE  \E row \in BuyRow, c \in Nat :
               /\ Submit(b, o) = [cash |-> c, price |-> b.price, done |-> Append(b.done, row)]
               /\ row.asset = o.asset
               /\ row.status = "filled" => row.qty = o.qty /\ o.side = "buy"
               /\ c + SpentAfter(0, row) = b.cash
  <1>1. PICK p : p = b.price[o.asset] /\ p \in Nat
    OBVIOUS
  <1>2. PICK n : n = o.qty * p /\ n \in Nat
    BY <1>1
  <1>3. PICK cost : cost = TotalCost(n, "buy") /\ cost \in Nat
    BY <1>2, CostType
  <1>4. CASE o.side = "buy" /\ n + cost <= b.cash
    <2> DEFINE row == [asset |-> o.asset, side |-> o.side, qty |-> o.qty, price |-> p,
                       cost |-> cost, status |-> "filled"]
    <2>1. row \in BuyRow
      BY <1>1, <1>3, <1>4 DEF BuyRow, Execution
    <2>2. b.cash - n - cost \in Nat
      BY <1>2, <1>3, <1>4
    <2>3. Submit(b, o) = [cash |-> b.cash - n - cost, price |-> b.price,
                          done |-> Append(b.done, row)]
      BY <1>1, <1>2, <1>3, <1>4 DEF Submit
    <2>4. SpentAfter(0, row) = n + cost
      BY <1>1, <1>2, <1>3, <1>4 DEF SpentAfter
    <2>5. b.cash - n - cost + SpentAfter(0, row) = b.cash
      BY <1>2, <1>3, <2>4
    <2> QED
      BY <1>4, <2>1, <2>2, <2>3, <2>5
  <1>5. CASE ~ (o.side = "buy" /\ n + cost <= b.cash)
    <2> DEFINE row == [asset |-> o.asset, side |-> o.side, qty |-> 0, price |-> 0,
                       cost |-> 0, status |-> "rejected"]
    <2>1. row \in BuyRow
      BY DEF BuyRow, Execution
    <2>2. Submit(b, o) = [cash |-> b.cash, price |-> b.price, done |-> Append(b.done, row)]
      BY <1>1, <1>2, <1>3, <1>5 DEF Submit
    <2>3. SpentAfter(0, row) = 0
      BY DEF SpentAfter
    <2>4. b.cash + SpentAfter(0, row) = b.cash
      BY <2>3
    <2> QED
      BY <2>1, <2>2, <2>4
  <1> QED
    BY <1>4, <1>5

\* A batch: what it spends is covered by its cash, an asset is traded once,
\* and every purchase is within the cap.
LEMMA BatchExecuted ==
    ASSUME NEW held \in [Assets -> Nat], NEW longs \in SUBSET Assets,
           NEW cash \in 0 .. InitialCash, NEW price \in [Assets -> Prices],
           NEW batch \in SUBSET Convert(held, longs, cash, price),
           NEW order \in SetToSeqs(batch)
    PROVE  /\ Execute(order, cash, price) \in Seq(BuyRow)
           /\ Execute(order, cash, price) = <<>> <=> batch = {}
           /\ Spent(Execute(order, cash, price)) <= cash
           /\ OneRowEach(Execute(order, cash, price))
           /\ RowsCovered(Execute(order, cash, price), held)
  <1> DEFINE Answers(d, k) ==
                 \A i \in 1 .. k :
                     /\ d[i].asset = order[i].asset
                     /\ d[i].status = "filled" =>
                            d[i].qty = order[i].qty /\ order[i].side = "buy"
             Brokers == [cash : Nat, price : {price}, done : Seq(BuyRow)]
             A == [k \in 0 .. Len(order) |->
                      {b \in Brokers : /\ Len(b.done) = k
                                       /\ b.cash + Spent(b.done) = cash
                                       /\ Answers(b.done, k)}]
  <1>1. order \in Seq(batch) /\ (order = <<>> <=> batch = {}) /\ OneRowEach(order)
    BY BatchOrder
  <1>2. FreshBroker(cash, price) \in A[0]
    <2>1. 0 \in 0 .. Len(order) /\ <<>> \in Seq(BuyRow) /\ Len(<<>>) = 0 /\ cash \in Nat
      BY <1>1, ExecutorAssumption
    <2>2. cash + Spent(<<>>) = cash
      BY <2>1, SpentEmpty
    <2>3. FreshBroker(cash, price) \in Brokers /\ FreshBroker(cash, price).cash = cash
          /\ FreshBroker(cash, price).done = <<>>
      BY <2>1 DEF FreshBroker
    <2>4. Answers(<<>>, 0)
      OBVIOUS
    <2>5. A[0] = {b \in Brokers : /\ Len(b.done) = 0
                                  /\ b.cash + Spent(b.done) = cash
                                  /\ Answers(b.done, 0)}
      BY <2>1
    <2> HIDE DEF A, Answers, Brokers
    <2> QED
      BY <2>1, <2>2, <2>3, <2>4, <2>5
  <1>3. ASSUME NEW k \in 1 .. Len(order), NEW b \in A[k - 1]
        PROVE  Submit(b, order[k]) \in A[k]
    <2>1. PICK j : j = k - 1 /\ j \in 0 .. Len(order) /\ k = j + 1 /\ k \in 0 .. Len(order)
      BY <1>1
    <2>2. /\ b \in Brokers /\ Len(b.done) = j
          /\ b.cash + Spent(b.done) = cash /\ Answers(b.done, j)
      <3>1. A[j] = {c \in Brokers : /\ Len(c.done) = j
                                    /\ c.cash + Spent(c.done) = cash
                                    /\ Answers(c.done, j)}
        BY <2>1
      <3> HIDE DEF A, Answers, Brokers
      <3> QED
        BY <1>3, <2>1, <3>1
    <2>3. b.cash \in Nat /\ b.price = price /\ b.done \in Seq(BuyRow)
      BY <2>2
    <2>4. PICK o : o = order[k] /\ o \in batch
      BY <1>1
    <2>5. o.asset \in Assets /\ o.qty \in Nat /\ o.side \in {"buy", "sell"}
      BY <2>4, ConvertOrders
    <2>6. b.price[o.asset] \in Nat
      <3>1. price[o.asset] \in Prices
        BY <2>5
      <3> QED
        BY <2>3, <3>1, ExecutorAssumption
    <2>7. PICK row \in BuyRow, c \in Nat :
              /\ Submit(b, o) = [cash |-> c, price |-> b.price, done |-> Append(b.done, row)]
              /\ row.asset = o.asset
              /\ row.status = "filled" => row.qty = o.qty /\ o.side = "buy"
              /\ c + SpentAfter(0, row) = b.cash
      BY <2>3, <2>5, <2>6, SubmitAnswer
    <2>8. PICK d : d = Append(b.done, row)
      OBVIOUS
    <2>9. /\ d \in Seq(BuyRow) /\ Len(d) = k /\ d[k] = row
          /\ \A i \in 1 .. j : d[i] = b.done[i]
      BY <2>1, <2>2, <2>3, <2>8
    <2>10. c + Spent(d) = cash
      <3>1. Spent(d) = SpentAfter(Spent(b.done), row)
        BY <2>3, <2>8, SpentAppend
      <3>2. PICK n : n = Spent(b.done) /\ n \in Nat
        BY <2>3, SpentType
      <3>3. SpentAfter(n + 0, row) = n + SpentAfter(0, row) /\ SpentAfter(0, row) \in Nat
        BY <3>2, SpentStep
      <3>4. Spent(d) = n + SpentAfter(0, row)
        BY <3>1, <3>2, <3>3
      <3> QED
        BY <2>2, <2>3, <2>7, <3>2, <3>3, <3>4
    <2>11. Answers(d, k)
      <3>1. \A i \in 1 .. j : /\ d[i].asset = order[i].asset
                              /\ d[i].status = "filled" =>
                                     d[i].qty = order[i].qty /\ order[i].side = "buy"
        BY <2>2, <2>9
      <3>2. \A i \in 1 .. k : i \in 1 .. j \/ i = k
        BY <2>1
      <3> QED
        BY <2>4, <2>7, <2>9, <3>1, <3>2
    <2>12. /\ Submit(b, o) \in Brokers /\ Submit(b, o).done = d /\ Submit(b, o).cash = c
      BY <2>3, <2>7, <2>8, <2>9
    <2>13. A[k] = {e \in Brokers : /\ Len(e.done) = k
                                   /\ e.cash + Spent(e.done) = cash
                                   /\ Answers(e.done, k)}
      BY <2>1
    <2> HIDE DEF A, Answers, Brokers
    <2> QED
      BY <2>4, <2>9, <2>10, <2>11, <2>12, <2>13
  <1>4. PICK b : b = FoldLeft(Submit, FreshBroker(cash, price), order)
    OBVIOUS
  <1>5. b \in A[Len(order)]
    <2> HIDE DEF A
    <2>1. BrokerFold!Fold(FreshBroker(cash, price), order) \in A[Len(order)]
      BY <1>1, <1>2, <1>3, BrokerFold!FoldInduction
    <2> QED
      BY <1>4, <2>1, BrokerFoldIs
  <1>6. PICK d : d = b.done /\ d = Execute(order, cash, price)
    BY <1>4 DEF Execute
  <1>7. /\ b \in Brokers /\ Len(d) = Len(order)
        /\ b.cash + Spent(d) = cash /\ Answers(d, Len(order))
    <2>1. Len(order) \in 0 .. Len(order)
      BY <1>1
    <2>2. A[Len(order)] = {e \in Brokers : /\ Len(e.done) = Len(order)
                                           /\ e.cash + Spent(e.done) = cash
                                           /\ Answers(e.done, Len(order))}
      BY <2>1
    <2> HIDE DEF A, Answers, Brokers
    <2> QED
      BY <1>5, <1>6, <2>2
  <1>8. d \in Seq(BuyRow) /\ b.cash \in Nat
    BY <1>6, <1>7
  <1>9. d = <<>> <=> batch = {}
    BY <1>1, <1>7, <1>8
  <1>10. Spent(d) <= cash
    BY <1>7, <1>8, SpentType
  <1>11. OneRowEach(d)
    <2>1. \A i \in 1 .. Len(d) : d[i].asset = order[i].asset
      BY <1>7
    <2> QED
      BY <1>1, <1>7, <2>1 DEF OneRowEach
  <1>12. RowsCovered(d, held)
    <2> SUFFICES ASSUME NEW i \in 1 .. Len(d), d[i].status = "filled"
                 PROVE  Covered(held[d[i].asset] + d[i].qty)
      BY DEF RowsCovered
    <2>1. PICK o : o = order[i] /\ o \in batch
      BY <1>1, <1>7
    <2>2. d[i].asset = o.asset /\ d[i].qty = o.qty /\ o.side = "buy"
      BY <1>7, <2>1
    <2>3. Covered(held[o.asset] + o.qty)
      BY <2>1, <2>2, ConvertOrders
    <2> QED
      BY <2>2, <2>3
  <1> QED
    BY <1>6, <1>8, <1>9, <1>10, <1>11, <1>12

-----------------------------------------------------------------------------
\* What a deployment bought, as its rows tell.
Bought(l) == FoldLeft(NetAfter, Nothing, rows[l])

RowsAreTyped ==
    /\ rows \in [LiveIds -> Seq(BuyRow)]
    /\ results \in Seq(BuyRow)
    /\ todo \subseteq LiveIds
    /\ current \in LiveIds \cup {"none"}
    /\ current = "none" <=> results = <<>>

\* Fees never exceed the cash.
CashLeft == \A l \in LiveIds : ReplayCash(l) \in 0 .. InitialCash

\* The rows still to be stored fit what is stored: they are affordable
\* together, and each keeps its asset within the cap.
BatchFits ==
    current # "none" =>
        /\ OneRowEach(results)
        /\ RowsCovered(results, Bought(current))
        /\ Spent(results) <= ReplayCash(current)

WithinCap == \A l \in LiveIds, a \in Assets : Covered(Bought(l)[a])

ExecInv == LiveInv /\ RowsAreTyped /\ CashLeft /\ WithinCap /\ BatchFits

\* The conjunct of the invariant is the property that the run checks.
LEMMA CapIs == WithinCap => ConcentrationCap
  BY DEF ConcentrationCap, WithinCap, Covered, NetBought, Bought

\* Rows of purchases are rows.
LEMMA RowsType == RowsAreTyped /\ LiveTypeOK => ExecTypeOK
  <1>1. BuyRow \subseteq Execution
    BY DEF BuyRow
  <1>2. \A s \in Seq(BuyRow) : s \in Seq(Execution)
    BY <1>1
  <1> QED
    BY <1>2 DEF RowsAreTyped, ExecTypeOK

\* Nothing is stored and nothing is bought at first.
LEMMA ExecInvInit == ExecInit => ExecInv
  <1> SUFFICES ASSUME ExecInit
               PROVE  ExecInv
    OBVIOUS
  <1>1. /\ rows = [l \in LiveIds |-> <<>>] /\ todo = {} /\ current = "none"
        /\ results = <<>>
    BY DEF ExecInit
  <1>2. LiveInv
    BY LiveInvInit DEF ExecInit
  <1>3. <<>> \in Seq(BuyRow)
    OBVIOUS
  <1>4. RowsAreTyped
    BY <1>1, <1>3 DEF RowsAreTyped
  <1>5. CashLeft
    <2> SUFFICES ASSUME NEW l \in LiveIds
                 PROVE  ReplayCash(l) \in 0 .. InitialCash
      BY DEF CashLeft
    <2>1. ReplayCash(l) = FoldLeft(CashAfter, InitialCash, <<>>)
      BY <1>1 DEF ReplayCash
    <2>2. FoldLeft(CashAfter, InitialCash, <<>>) = CashFold!Fold(InitialCash, <<>>)
      BY CashFoldIs
    <2>3. CashFold!Fold(InitialCash, <<>>) = InitialCash
      BY CashFold!FoldEmpty
    <2> QED
      BY <2>1, <2>2, <2>3, ExecutorAssumption
  <1>6. WithinCap
    <2> SUFFICES ASSUME NEW l \in LiveIds, NEW a \in Assets
                 PROVE  Covered(Bought(l)[a])
      BY DEF WithinCap
    <2>1. Bought(l) = FoldLeft(NetAfter, Nothing, <<>>)
      BY <1>1 DEF Bought
    <2>2. FoldLeft(NetAfter, Nothing, <<>>) = NetFold!Fold(Nothing, <<>>)
      BY NetFoldIs
    <2>3. NetFold!Fold(Nothing, <<>>) = Nothing
      BY NetFold!FoldEmpty
    <2>4. Bought(l)[a] = 0
      BY <2>1, <2>2, <2>3 DEF Nothing
    <2>5. PICK p \in Prices : p # 0 /\ p \in Nat
      BY ExecutorAssumption
    <2>6. InitialCash \div MaxPositionDiv \in Nat
      BY ExecutorAssumption
    <2>7. 0 * p <= InitialCash \div MaxPositionDiv
      BY <2>5, <2>6
    <2> QED
      BY <2>4, <2>5, <2>7 DEF Covered
  <1>7. BatchFits
    BY <1>1 DEF BatchFits
  <1> QED
    BY <1>2, <1>4, <1>5, <1>6, <1>7 DEF ExecInv

\* A batch as ExecuteStrategy draws it.
LEMMA ExecuteStep ==
    ASSUME ExecInv, NEW l \in LiveIds, ExecuteStrategy(l)
    PROVE  /\ results' \in Seq(BuyRow)
           /\ current' = IF results' = <<>> THEN "none" ELSE l
           /\ Spent(results') <= ReplayCash(l)
           /\ OneRowEach(results')
           /\ RowsCovered(results', Bought(l))
  <1>1. PICK price \in [Assets -> Prices], strong \in SUBSET Assets :
            \E longs \in SUBSET strong :
               LET cash == ReplayCash(l)
                   batch == IF strong = {} THEN {}
                            ELSE Convert(ReplayPositions(l), longs, cash, price)
               IN  \E order \in SetToSeqs(batch) :
                      /\ results' = Execute(order, cash, price)
                      /\ current' = IF batch = {} THEN "none" ELSE l
    BY DEF ExecuteStrategy
  <1>2. PICK longs \in SUBSET strong :
               LET cash == ReplayCash(l)
                   batch == IF strong = {} THEN {}
                            ELSE Convert(ReplayPositions(l), longs, cash, price)
               IN  \E order \in SetToSeqs(batch) :
                      /\ results' = Execute(order, cash, price)
                      /\ current' = IF batch = {} THEN "none" ELSE l
    BY <1>1
  <1>3. PICK cash : cash = ReplayCash(l) /\ cash \in 0 .. InitialCash
    BY DEF ExecInv, CashLeft
  <1>4. PICK held : held = Bought(l) /\ held = ReplayPositions(l) /\ held \in [Assets -> Nat]
    <2>1. rows[l] \in Seq(BuyRow)
      BY DEF ExecInv, RowsAreTyped
    <2>2. Bought(l) = ReplayPositions(l)
      BY <2>1, ReplayedIsBought DEF Bought, ReplayPositions
    <2>3. Bought(l) \in [Assets -> Nat]
      BY <2>1, NetType DEF Bought
    <2> QED
      BY <2>2, <2>3
  <1>5. PICK batch : batch = IF strong = {} THEN {} ELSE Convert(held, longs, cash, price)
    OBVIOUS
  <1>6. PICK order \in SetToSeqs(batch) :
            /\ results' = Execute(order, cash, price)
            /\ current' = IF batch = {} THEN "none" ELSE l
    BY <1>2, <1>3, <1>4, <1>5
  <1>7. batch \in SUBSET Convert(held, longs, cash, price) /\ longs \in SUBSET Assets
    BY <1>5
  <1>8. /\ Execute(order, cash, price) \in Seq(BuyRow)
        /\ Execute(order, cash, price) = <<>> <=> batch = {}
        /\ Spent(Execute(order, cash, price)) <= cash
        /\ OneRowEach(Execute(order, cash, price))
        /\ RowsCovered(Execute(order, cash, price), held)
    <2>1. batch \in SUBSET Convert(held, longs, cash, price)
      BY <1>7
    <2>2. longs \in SUBSET Assets /\ cash \in 0 .. InitialCash /\ held \in [Assets -> Nat]
      BY <1>3, <1>4, <1>7
    <2>3. order \in SetToSeqs(batch) /\ price \in [Assets -> Prices]
      OBVIOUS
    <2> QED
      BY <2>1, <2>2, <2>3, BatchExecuted
  <1> QED
    BY <1>3, <1>4, <1>6, <1>8

\* Storing one row: what the rest of the batch needs is still there.
LEMMA PersistStep ==
    ASSUME ExecInv, PersistOrder
    PROVE  (RowsAreTyped /\ CashLeft /\ WithinCap /\ BatchFits)'
  <1>1. PICK l : l = current /\ l \in LiveIds /\ results # <<>> /\ l # "none"
    BY DEF PersistOrder, ExecInv, RowsAreTyped
  <1>2. PICK s, r, t : s = rows[l] /\ r = Head(results) /\ t = Tail(results)
    OBVIOUS
  <1>3. results \in Seq(BuyRow) /\ rows \in [LiveIds -> Seq(BuyRow)]
    BY DEF ExecInv, RowsAreTyped
  <1>4. /\ s \in Seq(BuyRow) /\ r \in BuyRow /\ t \in Seq(BuyRow)
        /\ r = results[1] /\ Len(results) = Len(t) + 1
        /\ \A i \in 1 .. Len(t) : t[i] = results[i + 1]
    <2>1. Tail(results) \in Seq(BuyRow) /\ Head(results) \in BuyRow
      BY <1>1, <1>3
    <2>2. /\ Head(results) = results[1] /\ Len(results) = Len(Tail(results)) + 1
          /\ \A i \in 1 .. Len(Tail(results)) : Tail(results)[i] = results[i + 1]
      BY <1>1, <1>3
    <2>3. rows[l] \in Seq(BuyRow)
      BY <1>1, <1>3
    <2> QED
      BY <1>2, <2>1, <2>2, <2>3
  <1>5. /\ rows' = [rows EXCEPT ![l] = Append(s, r)]
        /\ results' = t /\ todo' = todo
        /\ current' = IF t = <<>> THEN "none" ELSE l
    <2>1. Len(results) = 1 <=> t = <<>>
      BY <1>3, <1>4
    <2> QED
      BY <1>1, <1>2, <2>1 DEF PersistOrder
  <1>6. rows' \in [LiveIds -> Seq(BuyRow)] /\ rows'[l] = Append(s, r)
        /\ \A m \in LiveIds \ {l} : rows'[m] = rows[m]
    <2>1. Append(s, r) \in Seq(BuyRow)
      BY <1>4
    <2> QED
      BY <1>1, <1>3, <1>5, <2>1
  <1>7. RowsAreTyped'
    BY <1>1, <1>4, <1>5, <1>6 DEF ExecInv, RowsAreTyped
  <1>8. PICK c : c = ReplayCash(l) /\ c \in 0 .. InitialCash
    BY <1>1 DEF ExecInv, CashLeft
  <1>9. PICK held : held = Bought(l) /\ held \in [Assets -> Nat]
    BY <1>2, <1>4, NetType DEF Bought
  <1>10. ReplayCash(l)' = CashAfter(c, r)
    <2>1. ReplayCash(l)' = FoldLeft(CashAfter, InitialCash, Append(s, r))
      BY <1>6 DEF ReplayCash
    <2>2. c = FoldLeft(CashAfter, InitialCash, s)
      BY <1>2, <1>8 DEF ReplayCash
    <2>3. FoldLeft(CashAfter, InitialCash, Append(s, r)) =
              CashAfter(FoldLeft(CashAfter, InitialCash, s), r)
      BY <1>4, CashAppend
    <2> QED
      BY <2>1, <2>2, <2>3
  <1>11. Bought(l)' = NetAfter(held, r)
    <2>1. Bought(l)' = FoldLeft(NetAfter, Nothing, Append(s, r))
      BY <1>6 DEF Bought
    <2>2. held = FoldLeft(NetAfter, Nothing, s)
      BY <1>2, <1>9 DEF Bought
    <2>3. FoldLeft(NetAfter, Nothing, Append(s, r)) =
              NetAfter(FoldLeft(NetAfter, Nothing, s), r)
      BY <1>4, NetAppend
    <2> QED
      BY <2>1, <2>2, <2>3
  <1>12. /\ OneRowEach(results) /\ RowsCovered(results, held) /\ Spent(results) <= c
    BY <1>1, <1>8, <1>9 DEF ExecInv, BatchFits
  <1>13. PICK n : n = Spent(t) /\ n \in Nat
    BY <1>4, SpentType
  <1>14. CashAfter(c, r) \in 0 .. InitialCash /\ n <= CashAfter(c, r)
    <2>1. Spent(results) = SpentAfter(0, r) + n
      BY <1>1, <1>2, <1>3, <1>13, SpentTail
    <2>2. r.qty \in Nat /\ r.price \in Nat /\ r.cost \in Nat
          /\ (r.status = "filled" => r.side = "buy")
      BY <1>4 DEF BuyRow, Execution
    <2>3. PICK x : x = r.qty * r.price /\ x \in Nat
      BY <2>2
    <2>4. SpentAfter(0, r) \in Nat /\ (r.side = "buy" => SpentAfter(0, r) = x + r.cost)
      BY <1>4, <2>2, <2>3, SpentStep DEF SpentAfter
    <2>5. SpentAfter(0, r) + n <= c /\ c <= InitialCash /\ c \in Nat /\ InitialCash \in Nat
      BY <1>8, <1>12, <2>1, ExecutorAssumption
    <2>6. CASE r.status = "filled"
      <3>1. CashAfter(c, r) = c - r.cost
        BY <2>2, <2>6 DEF CashAfter, IsFilled
      <3> QED
        BY <1>13, <2>2, <2>3, <2>4, <2>5, <2>6, <3>1
    <2>7. CASE r.status # "filled"
      <3>1. CashAfter(c, r) = c
        BY <2>7 DEF CashAfter, IsFilled
      <3> QED
        BY <1>13, <2>4, <2>5, <3>1
    <2> QED
      BY <2>6, <2>7
  <1>15. CashLeft'
    <2>1. \A m \in LiveIds \ {l} : ReplayCash(m)' = ReplayCash(m)
      BY <1>6 DEF ReplayCash
    <2> QED
      BY <1>10, <1>14, <2>1 DEF ExecInv, CashLeft
  <1>16. r.asset \in Assets /\ r.qty \in Nat /\ (r.status = "filled" => r.side = "buy")
    BY <1>4 DEF BuyRow, Execution
  <1>17. /\ \A a \in Assets \ {r.asset} : NetAfter(held, r)[a] = held[a]
         /\ NetAfter(held, r)[r.asset] =
                IF r.status = "filled" THEN held[r.asset] + r.qty ELSE held[r.asset]
    BY <1>9, <1>16 DEF NetAfter, IsFilled
  <1>18. WithinCap'
    <2>1. ASSUME NEW m \in LiveIds, NEW a \in Assets
          PROVE  Covered(Bought(m)'[a])
      <3>1. \A b \in Assets : Covered(Bought(m)[b])
        BY DEF ExecInv, WithinCap
      <3>2. CASE m # l
        <4>1. Bought(m)' = Bought(m)
          BY <1>6, <3>2 DEF Bought
        <4> QED
          BY <3>1, <4>1
      <3>3. CASE m = l /\ a = r.asset /\ r.status = "filled"
        <4>1. 1 \in 1 .. Len(results)
          BY <1>4
        <4>2. Covered(held[results[1].asset] + results[1].qty)
          BY <1>4, <1>12, <3>3, <4>1 DEF RowsCovered
        <4> QED
          BY <1>4, <1>11, <1>17, <3>3, <4>2
      <3>4. CASE m = l /\ ~ (a = r.asset /\ r.status = "filled")
        <4>1. Bought(m)'[a] = held[a]
          BY <1>11, <1>16, <1>17, <3>4
        <4> QED
          BY <1>9, <3>1, <3>4, <4>1
      <3> QED
        BY <3>2, <3>3, <3>4
    <2> QED
      BY <2>1 DEF WithinCap
  <1>19. OneRowEach(t)
    <2> SUFFICES ASSUME NEW i \in 1 .. Len(t), NEW j \in 1 .. Len(t), i # j
                 PROVE  t[i].asset # t[j].asset
      BY DEF OneRowEach
    <2>1. PICK u, v : u = i + 1 /\ v = j + 1
      OBVIOUS
    <2>2. u \in 1 .. Len(results) /\ v \in 1 .. Len(results) /\ u # v
      BY <1>4, <2>1
    <2>3. results[u].asset # results[v].asset
      BY <1>12, <2>2 DEF OneRowEach
    <2> QED
      BY <1>4, <2>1, <2>3
  <1>20. RowsCovered(t, NetAfter(held, r))
    <2> SUFFICES ASSUME NEW i \in 1 .. Len(t), t[i].status = "filled"
                 PROVE  Covered(NetAfter(held, r)[t[i].asset] + t[i].qty)
      BY DEF RowsCovered
    <2>1. PICK u : u = i + 1
      OBVIOUS
    <2>2. u \in 1 .. Len(results) /\ 1 \in 1 .. Len(results) /\ u # 1 /\ t[i] = results[u]
      BY <1>4, <2>1
    <2>3. results[u].asset # r.asset /\ results[u].asset \in Assets
      <3>1. results[u] \in BuyRow
        BY <1>3, <2>2
      <3>2. results[u].asset # results[1].asset
        BY <1>12, <2>2 DEF OneRowEach
      <3> QED
        BY <1>4, <3>1, <3>2 DEF BuyRow, Execution
    <2>4. Covered(held[results[u].asset] + results[u].qty)
      BY <1>12, <2>2 DEF RowsCovered
    <2> QED
      BY <1>17, <2>2, <2>3, <2>4
  <1>21. BatchFits'
    <2>1. /\ current' # "none" => current' = l
          /\ results' = t
      BY <1>5
    <2>2. current' # "none" => Bought(current)' = NetAfter(held, r)
                               /\ ReplayCash(current)' = CashAfter(c, r)
      BY <1>10, <1>11, <2>1 DEF Bought, ReplayCash
    <2> QED
      BY <1>13, <1>14, <1>19, <1>20, <2>1, <2>2 DEF BatchFits
  <1> QED
    BY <1>7, <1>15, <1>18, <1>21

-----------------------------------------------------------------------------
\* What only depends on the rows stays while they do.
LEMMA RowsKept ==
    ASSUME ExecInv, UNCHANGED rows
    PROVE  /\ CashLeft' /\ WithinCap'
           /\ \A l \in LiveIds : Bought(l)' = Bought(l) /\ ReplayCash(l)' = ReplayCash(l)
  <1>1. \A l \in LiveIds : Bought(l)' = Bought(l) /\ ReplayCash(l)' = ReplayCash(l)
    BY DEF Bought, ReplayCash
  <1> QED
    BY <1>1 DEF ExecInv, CashLeft, WithinCap

\* A step of the executor leaves the deployments alone, or is one of theirs.
LEMMA ControlStep ==
    ASSUME [ExecNext]_vars
    PROVE  [LiveNext]_liveVars
  BY DEF ExecNext, Control, StartRun, ExecuteStrategy, StrategyFails, PersistOrder,
         PersistFails, CrashExecutor, vars

\* Every step of the executor keeps the invariant.
LEMMA ExecInvStep ==
    ASSUME ExecInv, [ExecNext]_vars
    PROVE  ExecInv'
  <1>1. LiveInv'
    BY ControlStep, LiveInvStep DEF ExecInv
  <1>2. ASSUME UNCHANGED rows, results' = <<>>, current' = "none", todo' \subseteq LiveIds
        PROVE  ExecInv'
    <2>1. RowsAreTyped'
      BY <1>2 DEF ExecInv, RowsAreTyped
    <2>2. BatchFits'
      BY <1>2 DEF BatchFits
    <2> QED
      BY <1>1, <1>2, <2>1, <2>2, RowsKept DEF ExecInv
  <1>3. ASSUME UNCHANGED <<rows, results, current>>, todo' \subseteq LiveIds
        PROVE  ExecInv'
    <2>1. RowsAreTyped'
      BY <1>3 DEF ExecInv, RowsAreTyped
    <2>2. BatchFits'
      <3>1. ASSUME current # "none"
            PROVE  /\ OneRowEach(results) /\ RowsCovered(results, Bought(current))
                   /\ Spent(results) <= ReplayCash(current)
                   /\ Bought(current)' = Bought(current)
                   /\ ReplayCash(current)' = ReplayCash(current)
        BY <1>3, <3>1 DEF ExecInv, BatchFits, Bought, ReplayCash
      <3> QED
        BY <1>3, <3>1 DEF BatchFits
    <2> QED
      BY <1>1, <1>3, <2>1, <2>2, RowsKept DEF ExecInv
  <1>4. CASE Control
    BY <1>3, <1>4 DEF Control, execVars, ExecInv, RowsAreTyped
  <1>5. CASE StartRun
    <2>1. todo' \subseteq LiveIds
      BY <1>5 DEF StartRun, Loaded, Active
    <2> QED
      BY <1>3, <1>5, <2>1 DEF StartRun
  <1>6. ASSUME NEW l \in LiveIds, ExecuteStrategy(l)
        PROVE  ExecInv'
    <2>1. /\ results' \in Seq(BuyRow)
          /\ current' = IF results' = <<>> THEN "none" ELSE l
          /\ Spent(results') <= ReplayCash(l)
          /\ OneRowEach(results')
          /\ RowsCovered(results', Bought(l))
      BY <1>6, ExecuteStep
    <2>2. UNCHANGED rows /\ todo' \subseteq LiveIds
      BY <1>6 DEF ExecuteStrategy, ExecInv, RowsAreTyped
    <2>3. RowsAreTyped'
      BY <2>1, <2>2, ExecutorAssumption DEF ExecInv, RowsAreTyped
    <2>4. BatchFits'
      <3>1. current' # "none" => /\ Bought(current)' = Bought(l)
                                 /\ ReplayCash(current)' = ReplayCash(l)
        BY <2>1, <2>2 DEF Bought, ReplayCash
      <3> QED
        BY <2>1, <3>1 DEF BatchFits
    <2> QED
      BY <1>1, <2>2, <2>3, <2>4, RowsKept DEF ExecInv
  <1>7. ASSUME NEW l \in LiveIds, StrategyFails(l)
        PROVE  ExecInv'
    BY <1>3, <1>7 DEF StrategyFails, ExecInv, RowsAreTyped
  <1>8. CASE PersistOrder
    BY <1>1, <1>8, PersistStep DEF ExecInv
  <1>9. CASE PersistFails \/ CrashExecutor
    BY <1>2, <1>9 DEF PersistFails, CrashExecutor, ExecInv, RowsAreTyped
  <1>10. CASE UNCHANGED vars
    BY <1>3, <1>10 DEF vars, execVars, ExecInv, RowsAreTyped
  <1> QED
    BY <1>4, <1>5, <1>6, <1>7, <1>8, <1>9, <1>10 DEF ExecNext

\* The invariant holds in every state.
LEMMA ExecInvAlways == ExecSpec => []ExecInv
  BY ExecInvInit, ExecInvStep, PTL DEF ExecSpec

\* The tables of the executor are well typed, and a result waits to be stored
\* exactly while a deployment is current.
THEOREM ExecTypeCorrect == ExecSpec => []ExecTypeOK
  <1>1. ExecInv => ExecTypeOK
    BY RowsType DEF ExecInv, LiveInv
  <1> QED
    BY <1>1, ExecInvAlways, PTL

\* ConcentrationCap: no crash, lost row or repeated run makes a deployment buy
\* an asset beyond the cap on one position.
THEOREM ExecConcentration == ExecSpec => []ConcentrationCap
  <1>1. ExecInv => ConcentrationCap
    BY CapIs DEF ExecInv
  <1> QED
    BY <1>1, ExecInvAlways, PTL

\* BatchIsAffordable: the purchases of a batch are covered together.
THEOREM ExecBatchAffordable == ExecSpec => BatchIsAffordable
  <1>1. ExecInv /\ [ExecNext]_vars =>
            [\A l \in LiveIds : ExecuteStrategy(l) => Spent(results') <= ReplayCash(l)]_vars
    BY ExecuteStep
  <1> QED
    BY <1>1, ExecInvAlways, PTL DEF ExecSpec, BatchIsAffordable

\* The daily runs with the routes between them implement the routes: what
\* LiveSpec guarantees of the deployments holds while the executor runs.
THEOREM ExecImplementsLive == ExecSpec => LiveSpec
  <1>1. ExecInit => LiveInit
    BY DEF ExecInit
  <1>2. [ExecNext]_vars => [LiveNext]_liveVars
    BY ControlStep
  <1> QED
    BY <1>1, <1>2, PTL DEF ExecSpec, LiveSpec

\* What is proved of the routes holds with the executor running.
THEOREM ExecKeepsControl ==
    ExecSpec => /\ [](SwitchConsistent /\ IdleResumeRestoresAll /\ KillHoldsUntilResume)
                /\ StoppedStaysStopped
  BY ExecImplementsLive, LiveConsistent, LiveIdleResume, LiveKillHolds,
     LiveStoppedStays, PTL
=============================================================================
