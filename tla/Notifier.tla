------------------------------ MODULE Notifier ------------------------------
(***************************************************************************)
(* Notifier (alerts/notifier.py): every alert has a key, its event type    *)
(* and subject.  send() drops an alert whose key was stamped less than     *)
(* ALERT_COOLDOWN_SEC ago and hands the others to a thread that posts them *)
(* to Telegram in two attempts.  What becomes of a post is only logged:    *)
(* the caller is told nothing.  Time passes in units of Tick.              *)
(***************************************************************************)
EXTENDS Naturals

CONSTANTS
    Key,          \* event type and subject
    Cooldown      \* ALERT_COOLDOWN_SEC, in units of Tick

ASSUME NotifierAssumption == Cooldown \in Nat

VARIABLES
    age,      \* key -> time since it was stamped in _sent_at, Cooldown if it
              \* is longer ago or never was
    post      \* key -> its post: "none", "first" or "second" attempt

notifierVars == <<age, post>>

NotifierInit ==
    /\ age = [k \in Key |-> Cooldown]
    /\ post = [k \in Key |-> "none"]

\* Fault: one stamp serves all keys.
SuppressedByAny(k) == \E l \in Key : age[l] < Cooldown

Suppressed(k) == age[k] < Cooldown

\* Under _lock: the stamp is set before anything is sent.
Stamp(k) == age' = [age EXCEPT ![k] = 0]

Dispatch(k) ==
    /\ ~Suppressed(k)
    /\ Stamp(k)
    /\ post' = [post EXCEPT ![k] = "first"]

\* No thread can be started: send() raises, the stamp stays.
DispatchRaises(k) ==
    /\ ~Suppressed(k)
    /\ Stamp(k)
    /\ UNCHANGED post

Suppress(k) ==
    /\ Suppressed(k)
    /\ UNCHANGED notifierVars

-----------------------------------------------------------------------------
Delivered(k) ==
    /\ post[k] # "none"
    /\ post' = [post EXCEPT ![k] = "none"]
    /\ UNCHANGED age

\* A network error, a timeout or a refusal: one more attempt, then an error
\* in the log.
AttemptFails(k) ==
    /\ post[k] # "none"
    /\ post' = [post EXCEPT ![k] = IF @ = "first" THEN "second" ELSE "none"]
    /\ UNCHANGED age

\* Both attempts together are shorter than a unit, so a unit ends only
\* between two posts.
Older ==
    /\ \A k \in Key : post[k] = "none"
    /\ age' = [k \in Key |-> IF age[k] < Cooldown THEN age[k] + 1 ELSE Cooldown]
    /\ UNCHANGED post

\* _sent_at and the daemon threads die with the process.
Forgotten ==
    /\ age' = [k \in Key |-> Cooldown]
    /\ post' = [k \in Key |-> "none"]

=============================================================================
