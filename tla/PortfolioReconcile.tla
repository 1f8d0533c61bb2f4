------------------------- MODULE PortfolioReconcile -------------------------
(***************************************************************************)
(* PortfolioTracker (portfolio/tracker.py): once per scan, refresh()       *)
(* settles the stuck rows that Deribit no longer holds, fetches the margin *)
(* Deribit asks for and compares it with what the open rows of the book    *)
(* add up to.  A mismatch that comes back unchanged RECONCILE_ESCALATE_    *)
(* AFTER_CYCLES times is told to the operator, once, through the Notifier. *)
(* Meanwhile the bot trades and commands and the operator change the book  *)
(* and the positions.                                                      *)
(***************************************************************************)
EXTENDS Integers, FiniteSets, Notifier

CONSTANTS
    Position,         \* calendar spreads, on Deribit and as rows of the book
    Unit,             \* the margin of one, by its net debit and by Deribit
    Collateral,       \* what Deribit asks for with no position at all
    Drift,            \* what mark-to-market adds to Deribit's figure
    EscalateAfter,    \* RECONCILE_ESCALATE_AFTER_CYCLES
    MismatchKey,      \* the key of the mismatch alert
    NoMismatch,
    MaxFaults         \* bound on failed requests, failed sends and restarts

ASSUME ReconcileAssumption ==
    /\ Unit \in Nat /\ Collateral \in Nat /\ Drift \subseteq Nat
    /\ EscalateAfter \in Nat \ {0}
    /\ MismatchKey \in Key
    /\ Cooldown < EscalateAfter      \* 300 s against twelve scans of 300 s
    /\ IsFiniteSet(Position)
    /\ MaxFaults \in Nat

ASSUME EvidenceAssumption == NoMismatch \notin (SUBSET Position) \X Nat

\* What a refresh meets: positions and used margin, or that all is well.
Evidence == ((SUBSET Position) \X Nat) \cup {NoMismatch}

VARIABLES
    row,            \* position -> its row: "none", "Open" or, for the result
                    \* Near Leg Rolled, "Rolled"
    stuck,          \* the rows with close_status close_stuck
    held,           \* the positions that Deribit holds
    pc,             \* refresh(): "idle", "sync", "summary", "reconcile"
    due,            \* a scan interval has passed since the last refresh
    usedMargin,     \* _used_margin
    apiMargin,      \* _deribit_margin_usd
    fingerprint,    \* _reconcile_fingerprint
    repeats,        \* _reconcile_repeat_count, up to EscalateAfter
    escalated,      \* _reconcile_escalated
    seen,           \* history: the mismatch that the last refresh met
    told,           \* history: what became of the alert on it
    faults          \* the faults so far

bookVars == <<row, stuck, held>>
trackerVars ==
    <<pc, due, usedMargin, apiMargin, fingerprint, repeats, escalated>>
historyVars == <<seen, told>>
vars == <<notifierVars, bookVars, trackerVars, historyVars, faults>>

-----------------------------------------------------------------------------
Fault == faults < MaxFaults /\ faults' = faults + 1

\* _calc_used_margin, of the rows whose result is Open.
DbMargin(rows) == Unit * Cardinality({p \in Position : rows[p] = "Open"})

\* initial_margin, converted to dollars and summed or single-counted.
ApiMargins ==
    IF held = {} /\ Collateral = 0 THEN {0}
    ELSE {Unit * Cardinality(held) + Collateral + d : d \in Drift}

\* Above RECONCILE_THRESHOLD_PCT of the larger figure.
Diverge(a, b) ==
    LET larger == IF a > b THEN a ELSE b
        smaller == IF a > b THEN b ELSE a
    IN 10 * (larger - smaller) > larger

Init ==
    /\ NotifierInit
    /\ row = [p \in Position |-> "none"]
    /\ stuck = {}
    /\ held = {}
    /\ pc = "idle"
    /\ due = TRUE
    /\ usedMargin = 0
    /\ apiMargin = 0
    /\ fingerprint = NoMismatch
    /\ repeats = 0
    /\ escalated = FALSE
    /\ seen = NoMismatch
    /\ told = "no"
    /\ faults = 0

-----------------------------------------------------------------------------
(* refresh(), from request to request. *)

RefreshDb ==
    /\ pc = "idle"
    /\ due
    /\ pc' = "sync"
    /\ due' = FALSE
    /\ usedMargin' = DbMargin(row)
    /\ UNCHANGED <<notifierVars, bookVars, apiMargin, fingerprint, repeats,
                   escalated, historyVars, faults>>

StillStuck == stuck \cap held

\* sync_stuck_positions: the rows it settles leave the book, and the margin
\* is computed again if there was one.
SyncStuck ==
    LET settled == stuck \ held
        rows == [p \in Position |-> IF p \in settled THEN "none" ELSE row[p]]
    IN /\ pc = "sync"
       /\ pc' = "summary"
       /\ row' = rows
       /\ stuck' = StillStuck
       /\ usedMargin' = IF settled = {} THEN usedMargin ELSE DbMargin(rows)
       /\ UNCHANGED <<notifierVars, held, due, apiMargin, fingerprint, repeats,
                      escalated, historyVars, faults>>

SyncFails ==
    /\ pc = "sync"
    /\ stuck # {}
    /\ Fault
    /\ pc' = "summary"
    /\ UNCHANGED <<notifierVars, bookVars, due, usedMargin, apiMargin,
                   fingerprint, repeats, escalated, historyVars>>

\* The rest of refresh(): no comparison with a margin of zero.
AfterSummary ==
    /\ pc' = IF apiMargin' > 0 THEN "reconcile" ELSE "idle"
    /\ UNCHANGED <<notifierVars, bookVars, due, usedMargin, fingerprint, repeats,
                   escalated, historyVars>>

\* _refresh_from_api.
FetchSummary ==
    /\ pc = "summary"
    /\ apiMargin' \in ApiMargins
    /\ AfterSummary
    /\ UNCHANGED faults

\* The API is offline: the figures of the last refresh stay.
SummaryFails ==
    /\ pc = "summary"
    /\ Fault
    /\ UNCHANGED apiMargin
    /\ AfterSummary

\* What _reconcile makes of the two margins and the positions described to it.
CollateralOnly(desc) == usedMargin = 0 /\ desc = {}

Mismatch(desc) == Diverge(usedMargin, apiMargin) /\ ~CollateralOnly(desc)

\* Fault: the Deribit figure is part of it, as before Phase 28c.
FingerprintWithMargin(desc) == <<desc, usedMargin + apiMargin>>

\* The Deribit figure is not part of it.
Fingerprint(desc) == <<desc, usedMargin>>

ResetEscalation ==
    /\ fingerprint' = NoMismatch
    /\ repeats' = 0
    /\ escalated' = FALSE

Agrees(desc) ==
    /\ ~Mismatch(desc)
    /\ ResetEscalation
    /\ seen' = NoMismatch
    /\ told' = "no"
    /\ UNCHANGED notifierVars

\* Fault: another mismatch does not start its own count.
RepeatsOfAny(desc) ==
    IF fingerprint = NoMismatch THEN 1
    ELSE IF repeats < EscalateAfter THEN repeats + 1 ELSE EscalateAfter

Repeats(desc) ==
    IF Fingerprint(desc) # fingerprint THEN 1
    ELSE IF repeats < EscalateAfter THEN repeats + 1 ELSE EscalateAfter

AlreadyEscalated(desc) == Fingerprint(desc) = fingerprint /\ escalated

EscalationDue(desc) ==
    /\ Repeats(desc) = EscalateAfter
    /\ ~AlreadyEscalated(desc)

\* History: an alert on what was seen before is no alert on what is seen now.
ToldBefore(desc) == IF seen = <<desc, usedMargin>> THEN told ELSE "no"

Counted(desc) ==
    /\ Mismatch(desc)
    /\ fingerprint' = Fingerprint(desc)
    /\ repeats' = Repeats(desc)
    /\ seen' = <<desc, usedMargin>>

CountOnly(desc) ==
    /\ Counted(desc)
    /\ ~EscalationDue(desc)
    /\ escalated' = AlreadyEscalated(desc)
    /\ told' = ToldBefore(desc)
    /\ UNCHANGED notifierVars

\* notify_warning returns, whether the alert went out or not.
Escalate(desc) ==
    /\ Counted(desc)
    /\ EscalationDue(desc)
    /\ escalated' = TRUE
    /\ \/ /\ Dispatch(MismatchKey)
          /\ told' = "handed"
       \/ /\ Suppress(MismatchKey)
          /\ told' = ToldBefore(desc)

EscalationFails(desc) ==
    /\ Counted(desc)
    /\ EscalationDue(desc)
    /\ DispatchRaises(MismatchKey)
    /\ escalated' = FALSE
    /\ told' = "failed"

\* _reconcile, with all requests of _describe_deribit_positions answered.
Reconcile ==
    /\ pc = "reconcile"
    /\ pc' = "idle"
    /\ \/ /\ Agrees(held) \/ CountOnly(held) \/ Escalate(held)
          /\ UNCHANGED faults
       \/ EscalationFails(held) /\ Fault
    /\ UNCHANGED <<bookVars, due, usedMargin, apiMargin>>

\* A request that fails counts as an empty answer.
ReconcileBlind ==
    /\ pc = "reconcile"
    /\ pc' = "idle"
    /\ Fault
    /\ \E desc \in SUBSET held :
          /\ desc # held
          /\ Agrees(desc) \/ CountOnly(desc) \/ Escalate(desc)
    /\ UNCHANGED <<bookVars, due, usedMargin, apiMargin>>

-----------------------------------------------------------------------------
(* What goes on around it. *)

\* A scan follows the last one after a unit or more.
Tick ==
    /\ ~due \/ \E k \in Key : age[k] < Cooldown
    /\ Older
    /\ due' = TRUE
    /\ UNCHANGED <<bookVars, pc, usedMargin, apiMargin, fingerprint, repeats,
                   escalated, historyVars, faults>>

\* Another alert of the bot.
OtherAlert(k) ==
    /\ k # MismatchKey
    /\ Dispatch(k) \/ Suppress(k)
    /\ UNCHANGED <<bookVars, trackerVars, historyVars, faults>>

Post(k) ==
    /\ Delivered(k) \/ AttemptFails(k)
    /\ UNCHANGED <<bookVars, trackerVars, historyVars, faults>>

Trade(p, result, isHeld, isStuck) ==
    /\ row' = [row EXCEPT ![p] = result]
    /\ held' = IF isHeld THEN held \cup {p} ELSE held \ {p}
    /\ stuck' = IF isStuck THEN stuck \cup {p} ELSE stuck \ {p}
    /\ UNCHANGED <<notifierVars, trackerVars, historyVars, faults>>

\* create_calendar_trade after an entry; the tick that trades is not in refresh().
BotEnters(p) ==
    /\ pc = "idle"
    /\ row[p] = "none" /\ p \notin held
    /\ Trade(p, "Open", TRUE, FALSE)

\* update_near_leg.
BotRolls(p) ==
    /\ pc = "idle"
    /\ row[p] # "none" /\ p \in held \ stuck
    /\ Trade(p, "Rolled", TRUE, FALSE)

BotCloses(p) ==
    /\ pc = "idle"
    /\ row[p] # "none" /\ p \in held \ stuck
    /\ Trade(p, "none", FALSE, FALSE)

BotGivesUp(p) ==
    /\ pc = "idle"
    /\ row[p] # "none" /\ p \notin stuck
    /\ Trade(p, row[p], p \in held, TRUE)

\* /close_manually, also in the middle of refresh(): the row is closed, and
\* what Deribit holds stays.
CloseManually(p) ==
    /\ row[p] # "none"
    /\ Trade(p, "none", p \in held, FALSE)

\* By hand, on Deribit: the book learns nothing of it.
OperatorTrades(p) ==
    Trade(p, row[p], p \notin held, p \in stuck)

Restart ==
    /\ Fault
    /\ Forgotten
    /\ pc' = "idle"
    /\ due' = TRUE
    /\ usedMargin' = 0
    /\ apiMargin' = 0
    /\ ResetEscalation
    /\ seen' = NoMismatch
    /\ told' = "no"
    /\ UNCHANGED bookVars

Refresh ==
    \/ RefreshDb \/ SyncStuck \/ SyncFails \/ FetchSummary \/ SummaryFails
    \/ Reconcile \/ ReconcileBlind

Next ==
    \/ Refresh
    \/ Tick
    \/ \E k \in Key : OtherAlert(k) \/ Post(k)
    \/ \E p \in Position :
          \/ BotEnters(p) \/ BotRolls(p) \/ BotCloses(p) \/ BotGivesUp(p)
          \/ CloseManually(p) \/ OperatorTrades(p)
    \/ Restart

Spec == Init /\ [][Next]_vars

\* The scan job fires for ever and each of its requests is answered or times
\* out, a post ends, and time passes.
Fairness ==
    /\ WF_vars(Refresh)
    /\ WF_vars(Tick)
    /\ \A k \in Key : WF_vars(Post(k))

FairSpec == Spec /\ Fairness

-----------------------------------------------------------------------------
(* Properties. *)

\* Every variable keeps its type, and counts stay within their bounds.
NotifierTypeOK ==
    /\ age \in [Key -> 0..Cooldown]
    /\ post \in [Key -> {"none", "first", "second"}]

BookTypeOK ==
    /\ row \in [Position -> {"none", "Open", "Rolled"}]
    /\ stuck \subseteq Position
    /\ \A p \in stuck : row[p] # "none"
    /\ held \subseteq Position

TrackerTypeOK ==
    /\ pc \in {"idle", "sync", "summary", "reconcile"}
    /\ due \in BOOLEAN
    /\ usedMargin \in Nat
    /\ apiMargin \in Nat
    /\ repeats \in 0..EscalateAfter
    /\ escalated \in BOOLEAN
    /\ told \in {"no", "failed", "handed"}
    /\ faults \in 0..MaxFaults

TypeOK ==
    /\ NotifierTypeOK
    /\ BookTypeOK
    /\ TrackerTypeOK
    /\ fingerprint \in Evidence
    /\ seen \in Evidence

\* A mismatch that counts as escalated was put to the operator, or sending it
\* failed: the cooldown never swallows the alert on a new mismatch because of
\* the alert on another one (_reconcile sets _reconcile_escalated whenever
\* notify_warning returns, and send() returns also when it suppresses).
EscalationIsTold ==
    escalated => told # "no"

\* One mismatch is alerted once: while the refreshes meet the same positions
\* and the same book, no second alert on it goes out, however the Deribit
\* figure drifts (_reconcile_fingerprint and _reconcile_escalated).
OneAlertPerMismatch ==
    [][/\ Reconcile \/ ReconcileBlind
       /\ post' # post
       => told # "handed" \/ seen' # seen]_vars

\* Margin on the account balance alone never alarms: what is escalated has a
\* position on Deribit or an open row behind it (the collateral-only branch).
CollateralNeverAlarms ==
    escalated => fingerprint # NoMismatch /\ fingerprint # <<{}, 0>>

Mismatches == (SUBSET Position) \X {Unit * n : n \in 0..Cardinality(Position)}

\* A mismatch that every refresh meets again is put to the operator in the end,
\* whatever is alerted besides (_reconcile_repeat_count).
MismatchIsTold ==
    \A m \in Mismatches : seen = m ~> seen # m \/ told # "no"

=============================================================================
