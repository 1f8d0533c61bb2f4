---------------------- MODULE PortfolioReconcileProofs ----------------------
(***************************************************************************)
(* The margin reconciliation and its alerts, for any positions, margins,   *)
(* threshold and cooldown.  The heart is TimeInv: as many units have       *)
(* passed since the key of the mismatch alert was stamped as refreshes     *)
(* have counted the mismatch, so that the cooldown is over when the        *)
(* threshold is reached.                                                   *)
(***************************************************************************)
EXTENDS PortfolioReconcile, FiniteSetTheorems, TLAPS

\* Units that have begun since the last comparison and are not counted yet.
Waited == (IF pc = "idle" THEN 0 ELSE 1) + (IF due THEN 1 ELSE 0)

\* The tracker counts what the refreshes have met.
SeenInv ==
    /\ seen = fingerprint
    /\ repeats = 0 <=> fingerprint = NoMismatch
    /\ told = "handed" => escalated

TimeInv ==
    /\ pc # "idle" /\ due => age[MismatchKey] = Cooldown \/ age[MismatchKey] >= 1
    /\ told = "no" /\ repeats > 0 =>
          \/ age[MismatchKey] = Cooldown
          \/ age[MismatchKey] + 1 >= repeats + Waited

ReconcileInv ==
    TypeOK /\ SeenInv /\ TimeInv /\ EscalationIsTold /\ CollateralNeverAlarms

\* What the assumptions say, as plain facts on numbers.
LEMMA Constants ==
    /\ Cooldown \in Nat /\ EscalateAfter \in Nat /\ MaxFaults \in Nat
    /\ EscalateAfter > 0 /\ Cooldown < EscalateAfter
    /\ MismatchKey \in Key
  BY ReconcileAssumption, NotifierAssumption

\* The margin of the open rows is a number.
LEMMA MarginIsNat ==
    ASSUME NEW rows
    PROVE  DbMargin(rows) \in Nat
<1> DEFINE open == {p \in Position : rows[p] = "Open"}
<1>1. IsFiniteSet(open)
  BY ReconcileAssumption, FS_Subset
<1>2. Cardinality(open) \in Nat
  BY <1>1, FS_CardinalityType
<1>3. Unit \in Nat
  BY ReconcileAssumption
<1>4. Unit * Cardinality(open) \in Nat
  BY <1>2, <1>3
<1> QED
  BY <1>4 DEF DbMargin

\* So are the margins Deribit can report.
LEMMA ApiMarginsAreNat ==
    ASSUME TypeOK, NEW a \in ApiMargins
    PROVE  a \in Nat
<1>1. IsFiniteSet(held)
  BY ReconcileAssumption, FS_Subset DEF TypeOK, NotifierTypeOK, BookTypeOK,
     TrackerTypeOK
<1>2. Cardinality(held) \in Nat
  BY <1>1, FS_CardinalityType
<1>3. Unit \in Nat /\ Collateral \in Nat /\ Drift \subseteq Nat
  BY ReconcileAssumption
<1>4. Unit * Cardinality(held) \in Nat
  BY <1>2, <1>3
<1> QED
  BY <1>3, <1>4 DEF ApiMargins

\* A pair of positions and margin is a mismatch, and no mismatch is none.
LEMMA EvidenceFact ==
    ASSUME NEW desc \in SUBSET Position, NEW n \in Nat
    PROVE  <<desc, n>> \in Evidence /\ <<desc, n>> # NoMismatch
  BY EvidenceAssumption DEF Evidence

\* A refresh may also meet nothing.
LEMMA NoMismatchIsEvidence == NoMismatch \in Evidence
  BY DEF Evidence

\* A comparison, however it ends, keeps the invariant: the one place where the
\* count, the flag and the stamp of the alert meet.
LEMMA ComparisonKeeps ==
    ASSUME ReconcileInv,
           pc = "reconcile", pc' = "idle",
           UNCHANGED <<bookVars, due, usedMargin, apiMargin>>,
           faults' \in 0..MaxFaults,
           NEW desc \in SUBSET Position,
           Agrees(desc) \/ CountOnly(desc) \/ Escalate(desc) \/ EscalationFails(desc)
    PROVE  ReconcileInv'
<1> USE Constants DEF TypeOK, NotifierTypeOK, BookTypeOK, TrackerTypeOK
<1> DEFINE e == <<desc, usedMargin>>
<1>1. e \in Evidence /\ e # NoMismatch
  BY EvidenceFact DEF ReconcileInv
<1>2. Repeats(desc) \in 1..EscalateAfter
  BY DEF ReconcileInv, Repeats
<1>3. CASE Agrees(desc)
  <2>1. /\ fingerprint' = NoMismatch /\ seen' = NoMismatch
        /\ repeats' = 0 /\ told' = "no" /\ UNCHANGED notifierVars
    BY <1>3 DEF Agrees, ResetEscalation
  <2>2. ~escalated' /\ escalated' \in BOOLEAN
    BY <1>3 DEF Agrees, ResetEscalation
  <2>3. TypeOK'
    BY <2>1, <2>2, NoMismatchIsEvidence DEF ReconcileInv, notifierVars,
       bookVars
  <2> QED
    BY <2>1, <2>2, <2>3 DEF ReconcileInv, SeenInv, TimeInv, EscalationIsTold,
       CollateralNeverAlarms
<1>4. ASSUME Counted(desc)
      PROVE  /\ fingerprint' = e /\ seen' = e /\ e # <<{}, 0>>
             /\ repeats' \in 1..EscalateAfter
             /\ seen = e => repeats' >= 1 /\ repeats' <= repeats + 1
             /\ seen # e => repeats' = 1
             /\ repeats' = Repeats(desc)
  <2>1. fingerprint' = e /\ seen' = e /\ repeats' = Repeats(desc)
    BY <1>4 DEF Counted, Fingerprint
  <2>2. e # <<{}, 0>>
    BY <1>4 DEF Counted, Mismatch, CollateralOnly
  <2>3. seen = fingerprint /\ repeats \in 0..EscalateAfter
    BY DEF ReconcileInv, SeenInv
  <2>4. seen = e => Repeats(desc) <= repeats + 1
    BY <2>3 DEF Repeats, Fingerprint
  <2>5. seen # e => Repeats(desc) = 1
    BY <2>3 DEF Repeats, Fingerprint
  <2> QED
    BY <2>1, <2>2, <2>4, <2>5, <1>2
\* What TimeInv says of the moment of the comparison.
<1>5. ASSUME Counted(desc), ToldBefore(desc) = "no"
      PROVE  \/ age[MismatchKey] = Cooldown
             \/ age[MismatchKey] + 1 >= repeats' + (IF due THEN 1 ELSE 0)
  <2>1. age[MismatchKey] \in 0..Cooldown /\ repeats \in 0..EscalateAfter
    BY DEF ReconcileInv
  <2>2. CASE seen = e
    <3>1. told = "no" /\ repeats > 0
      BY <1>5, <2>2, <1>1, <2>1 DEF ToldBefore, ReconcileInv, SeenInv
    <3>2. \/ age[MismatchKey] = Cooldown
          \/ age[MismatchKey] + 1 >= repeats + (1 + (IF due THEN 1 ELSE 0))
      BY <3>1 DEF ReconcileInv, TimeInv, Waited
    <3>3. repeats' <= repeats + 1 /\ repeats' \in 1..EscalateAfter
      BY <1>4, <1>5, <2>2
    <3> QED
      BY <3>2, <3>3, <2>1
  <2>3. CASE seen # e
    <3>1. repeats' = 1
      BY <1>4, <1>5, <2>3
    <3> QED
      BY <3>1, <2>1 DEF ReconcileInv, TimeInv
  <2> QED
    BY <2>2, <2>3
<1>6. CASE CountOnly(desc)
  <2>1. Counted(desc) /\ UNCHANGED notifierVars /\ told' = ToldBefore(desc)
        /\ escalated' = AlreadyEscalated(desc)
    BY <1>6 DEF CountOnly
  <2>2. TypeOK'
    BY <2>1, <1>1, <1>4 DEF ReconcileInv, notifierVars, bookVars, ToldBefore,
       AlreadyEscalated
  <2>3. SeenInv'
    BY <2>1, <1>1, <1>4 DEF ReconcileInv, SeenInv, ToldBefore,
       AlreadyEscalated, Fingerprint
  <2>4. TimeInv'
    BY <2>1, <1>5 DEF TimeInv, Waited, notifierVars
  <2>5. EscalationIsTold' /\ CollateralNeverAlarms'
    BY <2>1, <1>1, <1>4 DEF ReconcileInv, EscalationIsTold,
       CollateralNeverAlarms, SeenInv, ToldBefore, AlreadyEscalated,
       Fingerprint
  <2> QED
    BY <2>2, <2>3, <2>4, <2>5 DEF ReconcileInv
<1>7. CASE Escalate(desc)
  <2>1. Counted(desc) /\ escalated' = TRUE /\ repeats' = EscalateAfter
    BY <1>7, <1>4 DEF Escalate, EscalationDue
  <2>2. told' # "no" /\ told' \in {"failed", "handed"}
    <3>1. CASE Dispatch(MismatchKey) /\ told' = "handed"
      BY <3>1
    <3>2. CASE Suppress(MismatchKey) /\ told' = ToldBefore(desc)
      <4>1. age[MismatchKey] < Cooldown
        BY <3>2 DEF Suppress, Suppressed
      <4>2. ToldBefore(desc) # "no"
        BY <4>1, <2>1, <1>5 DEF ReconcileInv
      <4> QED
        BY <4>2, <3>2 DEF ReconcileInv, ToldBefore
    <3> QED
      BY <1>7, <3>1, <3>2 DEF Escalate
  <2>3. age' \in [Key -> 0..Cooldown] /\ post' \in [Key -> {"none", "first", "second"}]
    BY <1>7 DEF Escalate, Dispatch, Stamp, Suppress, notifierVars,
       ReconcileInv
  <2>4. TypeOK'
    BY <2>1, <2>2, <2>3, <1>1, <1>4 DEF ReconcileInv, bookVars
  <2>5. SeenInv' /\ TimeInv' /\ EscalationIsTold' /\ CollateralNeverAlarms'
    BY <2>1, <2>2, <1>1, <1>4 DEF SeenInv, TimeInv, EscalationIsTold,
       CollateralNeverAlarms
  <2> QED
    BY <2>4, <2>5 DEF ReconcileInv
<1>8. CASE EscalationFails(desc)
  <2>1. Counted(desc) /\ ~escalated' /\ escalated' \in BOOLEAN /\ told' = "failed"
    BY <1>8 DEF EscalationFails
  <2>2. age' \in [Key -> 0..Cooldown] /\ UNCHANGED post
    BY <1>8 DEF EscalationFails, DispatchRaises, Stamp, ReconcileInv
  <2>3. TypeOK'
    BY <2>1, <2>2, <1>1, <1>4 DEF ReconcileInv, bookVars
  <2>4. SeenInv' /\ TimeInv' /\ EscalationIsTold' /\ CollateralNeverAlarms'
    BY <2>1, <1>1, <1>4 DEF SeenInv, TimeInv, EscalationIsTold,
       CollateralNeverAlarms
  <2> QED
    BY <2>3, <2>4 DEF ReconcileInv
<1> QED
  BY <1>3, <1>6, <1>7, <1>8

\* The process starts with nothing counted and nothing stamped.
LEMMA ReconcileInit == Init => ReconcileInv
<1> SUFFICES ASSUME Init
             PROVE  ReconcileInv
  OBVIOUS
<1>1. due \in BOOLEAN /\ escalated \in BOOLEAN /\ ~escalated
  BY DEF Init
<1>2. TypeOK
  BY <1>1, Constants, NoMismatchIsEvidence DEF Init, NotifierInit, TypeOK,
     NotifierTypeOK, BookTypeOK, TrackerTypeOK
<1> QED
  BY <1>1, <1>2 DEF Init, ReconcileInv, SeenInv, TimeInv, EscalationIsTold,
     CollateralNeverAlarms

\* Every step of the refresh, of the notifier and of the trading keeps it.
LEMMA ReconcileStep == ReconcileInv /\ [Next]_vars => ReconcileInv'
<1> SUFFICES ASSUME ReconcileInv, [Next]_vars
             PROVE  ReconcileInv'
  OBVIOUS
<1> USE Constants DEF TypeOK, NotifierTypeOK, BookTypeOK, TrackerTypeOK
<1>1. CASE RefreshDb
  <2>1. DbMargin(row) \in Nat
    BY MarginIsNat
  <2>2. ~due' /\ due' \in BOOLEAN
    BY <1>1 DEF RefreshDb
  <2> QED
    BY <1>1, <2>1, <2>2 DEF RefreshDb, ReconcileInv, SeenInv, TimeInv, Waited,
       EscalationIsTold, CollateralNeverAlarms, notifierVars, bookVars,
       historyVars
<1>2. CASE SyncStuck
  <2> DEFINE settled == stuck \ held
             rows == [p \in Position |-> IF p \in settled THEN "none" ELSE row[p]]
  <2>1. DbMargin(rows) \in Nat
    BY MarginIsNat
  <2>2. usedMargin' \in Nat
    BY <1>2, <2>1 DEF SyncStuck, ReconcileInv
  <2>3. /\ row' \in [Position -> {"none", "Open", "Rolled"}]
        /\ stuck' \subseteq Position /\ \A q \in stuck' : row'[q] # "none"
    BY <1>2 DEF SyncStuck, StillStuck, ReconcileInv
  <2>4. TypeOK'
    BY <1>2, <2>2, <2>3 DEF SyncStuck, ReconcileInv, notifierVars, historyVars
  <2> QED
    BY <1>2, <2>4 DEF SyncStuck, ReconcileInv, SeenInv, TimeInv, Waited,
       EscalationIsTold, CollateralNeverAlarms, notifierVars, historyVars
<1>3. CASE SyncFails
  BY <1>3 DEF SyncFails, Fault, ReconcileInv, SeenInv, TimeInv, Waited,
     EscalationIsTold, CollateralNeverAlarms, notifierVars, bookVars,
     historyVars
<1>4. CASE FetchSummary \/ SummaryFails
  <2>1. apiMargin' \in Nat /\ faults' \in 0..MaxFaults
    BY <1>4, ApiMarginsAreNat DEF FetchSummary, SummaryFails, Fault,
       ReconcileInv
  <2>2. AfterSummary /\ pc = "summary"
    BY <1>4 DEF FetchSummary, SummaryFails
  <2> QED
    BY <2>1, <2>2 DEF AfterSummary, ReconcileInv, SeenInv, TimeInv, Waited,
       EscalationIsTold, CollateralNeverAlarms, notifierVars, bookVars,
       historyVars
<1>5. CASE Reconcile
  <2>1. held \in SUBSET Position /\ faults' \in 0..MaxFaults
    BY <1>5 DEF Reconcile, Fault, ReconcileInv
  <2> QED
    BY <1>5, <2>1, ComparisonKeeps DEF Reconcile
<1>6. CASE ReconcileBlind
  <2>1. faults' \in 0..MaxFaults
    BY <1>6 DEF ReconcileBlind, Fault, ReconcileInv
  <2>2. PICK desc \in SUBSET held : Agrees(desc) \/ CountOnly(desc) \/ Escalate(desc)
    BY <1>6 DEF ReconcileBlind
  <2>3. desc \in SUBSET Position
    BY <2>2 DEF ReconcileInv
  <2> QED
    BY <1>6, <2>1, <2>2, <2>3, ComparisonKeeps DEF ReconcileBlind
<1>7. CASE Tick
  <2>1. age' \in [Key -> 0..Cooldown]
    BY <1>7 DEF Tick, Older, ReconcileInv
  <2>2. age'[MismatchKey] = IF age[MismatchKey] < Cooldown
                            THEN age[MismatchKey] + 1 ELSE Cooldown
    BY <1>7 DEF Tick, Older
  <2>3. TypeOK'
    BY <1>7, <2>1 DEF Tick, Older, ReconcileInv, bookVars, historyVars
  <2>4. TimeInv'
    <3>1. age[MismatchKey] \in 0..Cooldown /\ repeats \in Nat
      BY DEF ReconcileInv
    <3>2. UNCHANGED <<pc, told, repeats>> /\ due' = TRUE
      BY <1>7 DEF Tick, historyVars
    <3>3. Waited' <= Waited + 1 /\ Waited \in Nat /\ Waited' \in Nat
      BY <3>2 DEF Waited
    <3> QED
      BY <2>2, <3>1, <3>2, <3>3 DEF ReconcileInv, TimeInv
  <2> QED
    BY <1>7, <2>3, <2>4 DEF Tick, ReconcileInv, SeenInv, EscalationIsTold,
       CollateralNeverAlarms, historyVars
<1>8. ASSUME NEW k \in Key, OtherAlert(k) \/ Post(k)
      PROVE  ReconcileInv'
  <2>1. /\ age' \in [Key -> 0..Cooldown]
        /\ post' \in [Key -> {"none", "first", "second"}]
        /\ age'[MismatchKey] = age[MismatchKey]
    BY <1>8 DEF OtherAlert, Post, Dispatch, Stamp, Suppress, Delivered,
       AttemptFails, notifierVars, ReconcileInv
  <2>2. UNCHANGED <<bookVars, trackerVars, historyVars, faults>>
    BY <1>8 DEF OtherAlert, Post
  <2> QED
    BY <2>1, <2>2 DEF ReconcileInv, SeenInv, TimeInv, Waited,
       EscalationIsTold, CollateralNeverAlarms, bookVars, trackerVars,
       historyVars
<1>9. ASSUME NEW p \in Position,
             BotEnters(p) \/ BotRolls(p) \/ BotCloses(p) \/ BotGivesUp(p)
             \/ CloseManually(p) \/ OperatorTrades(p)
      PROVE  ReconcileInv'
  <2>1. UNCHANGED <<notifierVars, trackerVars, historyVars, faults>>
    BY <1>9 DEF BotEnters, BotRolls, BotCloses, BotGivesUp, CloseManually,
       OperatorTrades, Trade
  <2>2. /\ row' \in [Position -> {"none", "Open", "Rolled"}]
        /\ stuck' \subseteq Position /\ \A q \in stuck' : row'[q] # "none"
        /\ held' \subseteq Position
    BY <1>9 DEF BotEnters, BotRolls, BotCloses, BotGivesUp, CloseManually,
       OperatorTrades, Trade, ReconcileInv
  <2> QED
    BY <2>1, <2>2 DEF ReconcileInv, SeenInv, TimeInv, Waited,
       EscalationIsTold, CollateralNeverAlarms, notifierVars, trackerVars,
       historyVars
<1>10. CASE Restart
  <2>1. due' \in BOOLEAN /\ escalated' \in BOOLEAN /\ ~escalated'
    BY <1>10 DEF Restart, ResetEscalation
  <2>2. TypeOK'
    BY <1>10, <2>1, NoMismatchIsEvidence DEF Restart, Fault, Forgotten,
       ResetEscalation, ReconcileInv, bookVars
  <2> QED
    BY <1>10, <2>1, <2>2 DEF Restart, ResetEscalation, ReconcileInv, SeenInv,
       TimeInv, EscalationIsTold, CollateralNeverAlarms
<1>11. CASE UNCHANGED vars
  BY <1>11 DEF vars, notifierVars, bookVars, trackerVars, historyVars,
     ReconcileInv, SeenInv, TimeInv, Waited, EscalationIsTold,
     CollateralNeverAlarms
<1> QED
  BY <1>1, <1>2, <1>3, <1>4, <1>5, <1>6, <1>7, <1>8, <1>9, <1>10, <1>11 DEF
     Next, Refresh

\* The invariant of the reconciliation: all of the above in every state.
LEMMA ReconcileAlways == Spec => []ReconcileInv
  BY ReconcileInit, ReconcileStep, PTL DEF Spec

\* For every cooldown shorter than the threshold: what counts as escalated was
\* put to the operator, or sending it failed.
THEOREM EscalationHolds == Spec => []EscalationIsTold
<1>1. ReconcileInv => EscalationIsTold
  BY DEF ReconcileInv
<1> QED
  BY <1>1, ReconcileAlways, PTL

\* Margin on the account balance alone is never escalated.
THEOREM CollateralHolds == Spec => []CollateralNeverAlarms
<1>1. ReconcileInv => CollateralNeverAlarms
  BY DEF ReconcileInv
<1> QED
  BY <1>1, ReconcileAlways, PTL

\* No second alert on a mismatch that the refreshes meet unchanged.
THEOREM OneAlertHolds == Spec => OneAlertPerMismatch
<1>1. ASSUME ReconcileInv, Reconcile \/ ReconcileBlind, post' # post
      PROVE  told # "handed" \/ seen' # seen
  <2>1. PICK desc : Agrees(desc) \/ CountOnly(desc) \/ Escalate(desc)
                    \/ EscalationFails(desc)
    BY <1>1 DEF Reconcile, ReconcileBlind
  <2>2. Counted(desc) /\ EscalationDue(desc)
    BY <1>1, <2>1 DEF Agrees, CountOnly, Escalate, EscalationFails,
       DispatchRaises, notifierVars
  <2>3. seen' = Fingerprint(desc)
    BY <2>2 DEF Counted, Fingerprint
  <2>4. Fingerprint(desc) # fingerprint \/ ~escalated
    BY <2>2 DEF EscalationDue, AlreadyEscalated
  <2> QED
    BY <1>1, <2>3, <2>4 DEF ReconcileInv, SeenInv
<1>2. ReconcileInv /\ [Next]_vars =>
        [/\ Reconcile \/ ReconcileBlind
         /\ post' # post
         => told # "handed" \/ seen' # seen]_vars
  BY <1>1
<1> QED
  BY <1>2, ReconcileAlways, PTL DEF Spec, OneAlertPerMismatch

=============================================================================
