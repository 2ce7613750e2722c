---------------------------- MODULE MarketWatch ----------------------------
(***************************************************************************)
(* The quotes of one market and symbol, from the frames of the WebSocket   *)
(* to the current snapshot and the minute bars (broker/kiwoom_ws.py,       *)
(* watch.py, indicators.py).                                               *)
(*                                                                         *)
(* The exchange publishes trades, with a time in seconds and the volume of *)
(* the day so far, and orderbooks.  A frame may be delivered late, in any  *)
(* order, more than once or never.  It carries a time of day and no date:  *)
(* the adapter takes the date from its own clock.  An orderbook becomes a  *)
(* quote only together with the trade that was received last.  One worker  *)
(* ingests, and ingest_quote locks the stream, so ingestion is one step.   *)
(* Prices and the indicators computed from the bars are left out, and so   *)
(* are sequence numbers, which no adapter supplies.                        *)
(***************************************************************************)
EXTENDS Naturals, Sequences, FiniteSets, FiniteSetsExt

CONSTANTS
    Market,         \* "KRX" or "NXT"
    MaxTime,        \* seconds that are looked at
    PerMinute,      \* of them in a minute
    PerDay,         \* and in a day
    MaxTrades,      \* trades and orderbooks that are published
    MaxBooks,
    Skew,           \* how far the clock of the exchange may be ahead
    Leeway          \* the five minutes _event_time lets it be ahead

ASSUME WatchAssumption ==
    /\ {MaxTrades, MaxBooks, Skew, Leeway, MaxTime} \subseteq Nat
    /\ {PerMinute, PerDay} \subseteq Nat \ {0}
    /\ PerDay < MaxTime
    /\ Market \in {"KRX", "NXT"}

VARIABLES
    now,            \* clock of the server
    trades,         \* what the exchange has published
    books,
    trade_cache,    \* the trade received last on this connection, with the time it was given
    stored,         \* identities of frames in market_snapshots
    stream,         \* MarketStreamState
    bars,           \* volume of each MinuteBar
    verified,       \* InstrumentVenueState: time of the last NXT quote, 0 if none
    opening,        \* history: volume at the first quote of the day of the stream
    misdated        \* history: a trade was received that was given another time than its own

watchVars == <<now, trades, books, trade_cache, stored, stream, bars, verified, opening, misdated>>

Times == 1..(MaxTime + Skew)
Minute(t) == (t - 1) \div PerMinute
trading_date(t) == (t - 1) \div PerDay
Minutes == {Minute(t) : t \in Times}

\* event_at 0: there is no row.
Stream == [source : {"KIWOOM_WS", "KIWOOM_REST_KA10001"}, event_at : Nat, cumulative_volume : Nat,
           quality : {"NORMAL", "GAP_DETECTED"}]

NoTrade == [trade |-> 0, event_at |-> 0]

WatchTypeOK ==
    /\ now \in 1..MaxTime
    /\ trades \in Seq([at : Times, volume : Nat])
    /\ books \in 0..MaxBooks
    /\ trade_cache \in [trade : 0..Len(trades), event_at : Nat]
    /\ stream \in Stream
    /\ bars \in [Minutes -> Nat]
    /\ verified \in 0..MaxTime
    /\ opening \in Nat
    /\ misdated \in BOOLEAN

-----------------------------------------------------------------------------
(***************************************************************************)
(* The exchange.                                                           *)
(***************************************************************************)

Tick ==
    /\ now < MaxTime
    /\ now' = now + 1
    /\ UNCHANGED <<trades, books, trade_cache, stored, stream, bars, verified, opening, misdated>>

Last == trades[Len(trades)]

\* The volume starts again every day.
Trade(t) ==
    /\ Len(trades) < MaxTrades
    /\ t \in now..(now + Skew)
    /\ trades # <<>> => Last.at <= t
    /\ trades' = Append(trades, [at |-> t, volume |-> IF trades # <<>> /\ trading_date(Last.at) = trading_date(t)
                                                      THEN Last.volume + 1 ELSE 1])
    /\ UNCHANGED <<now, books, trade_cache, stored, stream, bars, verified, opening, misdated>>

\* What the volume of a day has been so far.
DayVolumes(day) == {0} \cup {trades[k].volume : k \in {k \in 1..Len(trades) : trading_date(trades[k].at) = day}}

Quote ==
    /\ books < MaxBooks
    /\ books' = books + 1
    /\ UNCHANGED <<now, trades, trade_cache, stored, stream, bars, verified, opening, misdated>>

-----------------------------------------------------------------------------
(***************************************************************************)
(* ingest_quote.                                                           *)
(***************************************************************************)

Known == stream.event_at > 0

late(e) == Known /\ e.event_at < stream.event_at

same_trading_date(e) == Known /\ trading_date(e.event_at) = trading_date(stream.event_at)

\* Mutant: only the time of a quote is compared.
volume_regression_ignored(e) == FALSE

volume_regression(e) == same_trading_date(e) /\ e.cumulative_volume < stream.cumulative_volume

source_changed(e) == Known /\ stream.source # e.source

\* A stream with a gap has it until a recovery snapshot arrives.
quality(e) ==
    IF e.recovery_snapshot THEN "NORMAL"
    ELSE IF late(e) THEN "LATE"
    ELSE IF (Known /\ stream.quality = "GAP_DETECTED") \/ volume_regression(e) \/ source_changed(e) THEN "GAP_DETECTED"
    ELSE "NORMAL"

\* Mutant: the first quote of a day adds the whole volume of the day.
update_market_analysis_first(e) ==
    bars' = IF e.updates_trade
            THEN [bars EXCEPT ![Minute(e.event_at)] =
                    @ + e.cumulative_volume - (IF same_trading_date(e) THEN stream.cumulative_volume ELSE 0)]
            ELSE bars

\* The volume since the previous quote goes to the minute of the event.
update_market_analysis(e) ==
    bars' = IF e.updates_trade /\ same_trading_date(e) /\ e.cumulative_volume > stream.cumulative_volume
            THEN [bars EXCEPT ![Minute(e.event_at)] = @ + e.cumulative_volume - stream.cumulative_volume]
            ELSE bars

\* Discarded: the time is in the future, or the identity is stored already,
\* as a duplicate or with another time of reception as a conflict.
Discards(e) == e.event_at > now \/ e.sequence_or_hash \in stored

ingest_quote(e) ==
    \/ /\ Discards(e)
       /\ UNCHANGED <<stored, stream, bars, verified, opening>>
    \/ /\ ~Discards(e)
       /\ stored' = IF e.recovery_snapshot THEN stored ELSE stored \cup {e.sequence_or_hash}
       /\ \/ /\ quality(e) = "LATE"
             /\ UNCHANGED <<stream, bars, verified, opening>>
          \/ /\ quality(e) = "GAP_DETECTED"
             /\ stream' = [stream EXCEPT !.quality = "GAP_DETECTED"]
             /\ UNCHANGED <<bars, verified, opening>>
          \/ /\ quality(e) = "NORMAL"
             /\ update_market_analysis(e)
             /\ stream' = [source |-> e.source, event_at |-> e.event_at,
                           cumulative_volume |-> e.cumulative_volume, quality |-> "NORMAL"]
             /\ verified' = IF Market = "NXT" THEN e.event_at ELSE verified
             /\ opening' = IF same_trading_date(e) THEN opening ELSE e.cumulative_volume

-----------------------------------------------------------------------------
(***************************************************************************)
(* The WebSocket.                                                          *)
(***************************************************************************)

\* The time of day in a frame, which has no date.
TimeOfDay(t) == (t - 1) % PerDay

\* The date is that of the reception, or of the day before when the time would
\* be too far ahead.
_event_time(timeOfDay, received) ==
    LET sameDay == trading_date(received) * PerDay + timeOfDay + 1
    IN  IF sameDay > received + Leeway THEN sameDay - PerDay ELSE sameDay

\* A cached trade as a quote, which follows the clock of the trade.
Event(cached, id, updates) ==
    [source |-> "KIWOOM_WS", sequence_or_hash |-> id, event_at |-> cached.event_at,
     cumulative_volume |-> trades[cached.trade].volume, recovery_snapshot |-> FALSE, updates_trade |-> updates]

\* A trade is dated and cached before the quote is validated or compared.
ReceiveTrade(k) ==
    LET cached == [trade |-> k, event_at |-> _event_time(TimeOfDay(trades[k].at), now)]
    IN  /\ trade_cache' = cached
        /\ misdated' = (misdated \/ cached.event_at # trades[k].at)
        /\ ingest_quote(Event(cached, <<"0B", k>>, TRUE))
        /\ UNCHANGED <<now, trades, books>>

ReceiveBook(b) ==
    /\ trade_cache # NoTrade
    /\ ingest_quote(Event(trade_cache, <<"0D", b>>, FALSE))
    /\ UNCHANGED <<now, trades, books, trade_cache, misdated>>

\* A new connection, or the item leaves the watchlist and returns.
Reopen ==
    /\ trade_cache # NoTrade
    /\ trade_cache' = NoTrade
    /\ UNCHANGED <<now, trades, books, stored, stream, bars, verified, opening, misdated>>

\* A quote over REST: it has the volume of today and the time of its reception,
\* also in its identity, which is therefore always new, and changes no bar.
normalize_basic_quote ==
    /\ \E volume \in DayVolumes(trading_date(now)) :
           /\ \A v \in DayVolumes(trading_date(now)) : v <= volume
           /\ ingest_quote([source |-> "KIWOOM_REST_KA10001", sequence_or_hash |-> <<"REST", now>>,
                            event_at |-> now, cumulative_volume |-> volume,
                            recovery_snapshot |-> TRUE, updates_trade |-> FALSE])
    /\ UNCHANGED <<now, trades, books, trade_cache, misdated>>

-----------------------------------------------------------------------------

\* The second day, so that there is a day before.
WatchInit ==
    /\ now = PerDay + 1
    /\ trades = <<>>
    /\ books = 0
    /\ trade_cache = NoTrade
    /\ stored = {}
    /\ stream = [source |-> "KIWOOM_WS", event_at |-> 0, cumulative_volume |-> 0, quality |-> "NORMAL"]
    /\ bars = [m \in Minutes |-> 0]
    /\ verified = 0
    /\ opening = 0
    /\ misdated = FALSE

WatchNext ==
    \/ Tick
    \/ \E t \in Times : Trade(t)
    \/ Quote
    \/ \E k \in 1..Len(trades) : ReceiveTrade(k)
    \/ \E b \in 1..books : ReceiveBook(b)
    \/ Reopen
    \/ normalize_basic_quote

WatchSpec == WatchInit /\ [][WatchNext]_watchVars

-----------------------------------------------------------------------------
(***************************************************************************)
(* Properties.                                                             *)
(***************************************************************************)

\* The current snapshot is never replaced by an older one, whatever order
\* the frames arrive in and whatever date they are given: not by an earlier
\* second, and within a second, which is as fine as the times of the exchange
\* are, not by a smaller volume of the same day (MKT-011).  A trade with a time
\* that is not its own may have the volume of another day.
SnapshotNeverGoesBack ==
    [][\/ stream'.event_at > stream.event_at
       \/ /\ stream'.event_at = stream.event_at
          /\ stream'.cumulative_volume >= stream.cumulative_volume \/ misdated]_watchVars

\* The bars of the day of the stream.
CountedToday == MapThenSumSet(LAMBDA m : bars[m],
                              {m \in Minutes : trading_date(m * PerMinute + 1) = trading_date(stream.event_at)})

BarsFitDay ==
    Known => \E volume \in DayVolumes(trading_date(stream.event_at)) : opening + CountedToday <= volume

\* The bars of a day count no share twice: as long as every trade was given its
\* own time, they have together at most the volume that was traded since the
\* first quote of the day, although frames are repeated, orderbooks carry the
\* volume of a trade again and recovery snapshots skip trades
\* (update_market_analysis).
VolumeIsNotCountedTwice == ~misdated => BarsFitDay

\* MKT-030: bars are built from the times of the exchange, not from those of the
\* reception, so the bars of a day have at most the volume of that day whenever
\* its frames arrive.  _event_time takes the date from the reception.
BarsFollowExchange ==
    Known => \E volume \in DayVolumes(trading_date(stream.event_at)) : CountedToday <= volume
=============================================================================
