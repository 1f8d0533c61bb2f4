----------------------------- MODULE MarketFeed -----------------------------
(***************************************************************************)
(* DeribitFeed (data/deribit_feed.py) and the ChainCache it fills          *)
(* (data/chain_cache.py): connecting, subscribing, streaming and the       *)
(* watchdog, against an exchange that drops the connection or, with the    *)
(* connection alive, pushes nothing any more.  Time passes in units of     *)
(* Clock; the wait between two attempts to connect is left open.           *)
(***************************************************************************)
EXTENDS Naturals

CONSTANTS
    Leg,               \* instruments
    Asset,
    AssetOf,           \* instrument -> asset
    TTL,               \* CHAIN_CACHE_TTL_SEC, in units of Clock
    WatchdogTimeout    \* FEED_WATCHDOG_TIMEOUT_SEC, in units of Clock

ASSUME FeedAssumption ==
    /\ AssetOf \in [Leg -> Asset]
    /\ TTL \in Nat
    /\ WatchdogTimeout \in Nat

VARIABLES
    conn,      \* "off", "fetching" and "extras" (_subscribe_all), "streaming",
               \* "closed"
    window,    \* the instruments that get_instruments and the day window let pass
    subs,      \* the instruments subscribed on this connection, _instruments
    mute,      \* the exchange pushes no ticker on this connection any more
    quote,     \* instrument -> age of its snapshot, TTL + 1 if older or none
    spot,      \* asset -> age of its spot price, TTL + 1 if older or none
    silence    \* age of _last_ticker_at, up to WatchdogTimeout + 1

feedVars == <<conn, window, subs, mute, quote, spot, silence>>

FeedInit ==
    /\ conn = "off"
    /\ window \in SUBSET Leg
    /\ subs = {}
    /\ mute = FALSE
    /\ quote = [l \in Leg |-> TTL + 1]
    /\ spot = [a \in Asset |-> TTL + 1]
    /\ silence = 0

\* ChainCache.get and get_chain: not _is_stale.
Fresh(l) == quote[l] <= TTL

\* Fault: only the instruments of the day window count for the spot price.
SpotsOfWindow(l) == {AssetOf[k] : k \in {l} \cap window}

\* The assets get_spot gives a new price for when a snapshot of l comes in.
SpotsOf(l) == {AssetOf[l]}

-----------------------------------------------------------------------------
Connect ==
    /\ conn = "off"
    /\ conn' = "fetching"
    /\ mute' = FALSE
    /\ UNCHANGED <<window, subs, quote, spot, silence>>

\* fetch_instruments for each asset, and the subscriptions to what it returns.
Fetch ==
    /\ conn = "fetching"
    /\ conn' = "extras"
    /\ subs' = window
    /\ UNCHANGED <<window, mute, quote, spot, silence>>

\* _open_position_extras, given the instruments that the provider names, the
\* subscriptions to them, and the start of the watchdog.
SubscribeExtras(names) ==
    /\ conn = "extras"
    /\ conn' = "streaming"
    /\ subs' = subs \cup names
    /\ silence' = 0
    /\ UNCHANGED <<window, mute, quote, spot>>

Disconnected(state) ==
    /\ conn' = state
    /\ subs' = {}
    /\ silence' = 0
    /\ UNCHANGED <<window, mute, quote, spot>>

\* The connection breaks, a request of the setup fails or is not answered in
\* time: start() tries again.
Lose ==
    /\ conn \in {"fetching", "extras", "streaming"}
    /\ Disconnected("off")

Mute ==
    /\ conn \in {"extras", "streaming"}
    /\ mute' = TRUE
    /\ UNCHANGED <<conn, window, subs, quote, spot, silence>>

\* A ticker of l: _handle_message, _parse_ticker, ChainCache.update.
Ticker(l) ==
    /\ conn \in {"extras", "streaming"}
    /\ l \in subs
    /\ ~mute
    /\ quote' = [quote EXCEPT ![l] = 0]
    /\ spot' = [a \in Asset |-> IF a \in SpotsOf(l) THEN 0 ELSE spot[a]]
    /\ silence' = 0
    /\ UNCHANGED <<conn, window, subs, mute>>

Older(age, limit) == IF age > limit THEN age ELSE age + 1

Clock ==
    /\ quote' = [l \in Leg |-> Older(quote[l], TTL)]
    /\ spot' = [a \in Asset |-> Older(spot[a], TTL)]
    /\ silence' = IF conn = "streaming" THEN Older(silence, WatchdogTimeout)
                  ELSE silence
    /\ UNCHANGED <<conn, window, subs, mute>>

\* As days go by an instrument comes too close to its expiry.
LeaveWindow(l) ==
    /\ l \in window
    /\ window' = window \ {l}
    /\ UNCHANGED <<conn, subs, mute, quote, spot, silence>>

\* Fault: the heartbeat of the socket counts as a sign of life.
SilentWithoutHeartbeat == silence > WatchdogTimeout /\ ~mute

SilentTooLong == silence > WatchdogTimeout

\* _watchdog closes the socket, which ends _pump without an error.
Watchdog ==
    /\ conn = "streaming"
    /\ SilentTooLong
    /\ Disconnected("off")

=============================================================================
