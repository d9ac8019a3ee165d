---------------------------- MODULE MCReference ----------------------------
(* Bounded inputs that reach every branch of the computations.             *)
EXTENDS Reference

(* A terminal may repeat bars, swap them, or have none for a while.        *)
MCBatches ==
    [rates : UNION {[1..n -> {0, 1, 2, 3, 6}] : n \in 0..4}, until : {3, 7}, limit : {1, 2}]

MCPipeline == [ema_fast |-> 1, ema_mid |-> 2, ema_slow |-> 2, rsi |-> 2,
               macd_fast |-> 1, macd_slow |-> 2, macd_signal |-> 2, atr |-> 2,
               left_bars |-> 1, right_bars |-> 1, zone_percent |-> 10,
               doji_percent |-> 10, wick_ratio |-> 2]

Bar(o, h, l, c) == [open |-> o, high |-> h, low |-> l, close |-> c]
Shapes == {Bar(10, 12, 9, 11),      \* up, inside
           Bar(9, 14, 8, 13),       \* up, engulfing
           Bar(13, 13, 8, 9),       \* down
           Bar(12, 12, 7, 12)}      \* a hammer, without a body

At(time, symbol, bar) ==
    [symbol |-> symbol, is_closed |-> TRUE, open_time |-> time, close_time |-> time + 1,
     open |-> bar.open, high |-> bar.high, low |-> bar.low, close |-> bar.close]
MCHistories == {[i \in 1..6 |-> At(i, 1, bars[i])] : bars \in [1..6 -> Shapes]}

(* Two instruments that do not trade in every interval.                    *)
Trend(n) == CASE n % 4 = 0 -> Bar(10, 12, 9, 11)  [] n % 4 = 1 -> Bar(9, 14, 8, 13)
              [] n % 4 = 2 -> Bar(13, 13, 8, 9)   [] n % 4 = 3 -> Bar(9, 10, 8, 10)
Series(symbol, times) ==
    LET order == [i \in 1..Cardinality(times) |->
                     CHOOSE t \in times : Cardinality({u \in times : u < t}) = i - 1]
    IN  [i \in 1..Len(order) |-> At(order[i], symbol, Trend(order[i] + symbol))]
MCStudies ==
    [series : {{Series(1, 1..8 \ gap), Series(2, times)} :
                   gap \in {{}, {4}, {5, 6}, 3..8}, times \in {1..2, 1..8, {1, 2, 3, 5, 7, 8}, 4..9}},
     config : [training : {1, 3}, validation : {1, 2}, test : {1, 2}, step : {1, 2},
               expanding : BOOLEAN, purge : 0..1, embargo : 0..1]]

MCParameters == [s \in {"EURUSD", "USDJPY", "AUDCHF", "US500"} |->
                    [minimum_confidence |-> IF s = "USDJPY" THEN 700 ELSE 600, ttl_bars |-> 2]]
MCBase  == [EURUSD |-> "EUR", USDJPY |-> "USD", AUDCHF |-> "AUD"]
MCQuote == [EURUSD |-> "USD", USDJPY |-> "JPY", AUDCHF |-> "CHF"]
MCRates == [JPY |-> 500]

(* Two points are a tick.  Fractions are in thousandths: a trade may risk  *)
(* 10.5 percent, a stop is 2 to 6 ticks away, a reward pays 1.5 times.     *)
MCInstrument == [symbol |-> "EURUSD", asset_class |-> "forex", contract_size |-> 1,
                 point |-> 2, tick_size |-> 4, tick_value |-> 1,
                 volume_min |-> 2, volume_max |-> 9, volume_step |-> 2]
MCRiskPolicy == [risk_per_trade |-> 105, max_open_risk |-> 200, max_daily_loss |-> 200,
                 max_drawdown |-> 300, max_spread |-> 2, max_slippage |-> 2,
                 min_stop_ticks |-> 2000, max_stop_ticks |-> 6000, min_reward_risk |-> 1500,
                 max_positions |-> 3, max_losses |-> 2, cooldown |-> 3,
                 margin_buffer |-> 500, snapshot_max_age |-> 1]
MCLimits == [gross |-> 480, symbol |-> [EURUSD |-> 360], strategy |-> [trend |-> 400],
             asset |-> [forex |-> 440], currency |-> [EUR |-> 8, USD |-> 460]]

(* What is already open, at a price of 40; a contract on the yen is larger.*)
Open(symbol, action, volume, risk) ==
    [symbol |-> symbol, strategy |-> "trend", asset_class |-> "forex", action |-> action,
     volume |-> volume, contract_size |-> IF symbol = "USDJPY" THEN 2 ELSE 1,
     price |-> 40, monetary_risk |-> risk]
Account(equity, free, risk, losses, positions, reconciled) ==
    [equity |-> equity, free_margin |-> free, open_risk |-> risk, losses |-> losses,
     positions |-> positions, reconciled_at |-> reconciled, last_loss_at |-> 1,
     daily_peak |-> IF equity < 100 THEN 115 ELSE equity,
     peak |-> IF equity < 150 THEN 150 ELSE equity]

(* Reconciled accounts with what they hold: healthy ones, one without      *)
(* margin, one after two losses, one with old data and no free slot, one   *)
(* after a loss, and one whose open risk disagrees with its positions.     *)
Short == <<Open("EURUSD", "SELL", 1, 25)>>
Long  == <<Open("EURUSD", "BUY", 4, 5)>>
Yen   == <<Open("USDJPY", "BUY", 4, 5)>>
Cross == <<Open("EURUSD", "BUY", 4, 5), Open("AUDCHF", "BUY", 1, 1)>>
Portfolios == {<<Account(200, 60, 0, 0, 0, 3), <<>>>>, <<Account(450, 200, 0, 0, 0, 3), <<>>>>,
               <<Account(200, 60, 25, 0, 1, 3), Short>>, <<Account(200, 60, 5, 0, 1, 3), Long>>,
               <<Account(200, 60, 5, 0, 1, 3), Yen>>, <<Account(200, 60, 6, 0, 2, 3), Cross>>,
               <<Account(200, 12, 5, 0, 1, 3), Yen>>, <<Account(200, 60, 5, 2, 1, 3), Long>>,
               <<Account(200, 60, 5, 0, 3, 1), Yen>>, <<Account(90, 60, 0, 0, 0, 3), <<>>>>,
               <<Account(200, 60, 0, 0, 1, 3), Long>>}
Clocks == {<<2, 3, 3>>, <<3, 3, 4>>, <<4, 4, 5>>, <<2, 4, 5>>, <<5, 5, 5>>, <<2, 4, 3>>,
           <<2, 2, 4>>}
Levels == {<<28, 72, FALSE>>, <<28, 0, TRUE>>, <<28, 0, FALSE>>, <<28, 60, FALSE>>,
           <<32, 64, FALSE>>, <<20, 80, FALSE>>, <<36, 72, FALSE>>, <<12, 90, FALSE>>,
           <<23, 84, FALSE>>, <<22, 90, FALSE>>, <<52, 12, FALSE>>, <<48, 0, TRUE>>}
Conditions == {<<0, {}>>, <<3, {}>>, <<0, {"MARKET_CLOSED"}>>}
MCProposals ==
    {[proposed |-> proposed, confidence |-> confidence, symbol |-> symbol, strategy |-> "trend",
      observed_at |-> 1, evaluated_at |-> clock[1], assessed_at |-> clock[2],
      created_at |-> clock[3], entry |-> 40, stop |-> level[1], target |-> level[2],
      exit_policy |-> level[3], spread |-> condition[1], slippage |-> 1, commission |-> 1,
      swap |-> 1, account |-> portfolio[1], existing |-> portfolio[2],
      failing |-> condition[2], margin_per_lot |-> 3] :
        proposed \in {"BUY", "SELL", "HOLD"}, confidence \in {500, 650},
        symbol \in DOMAIN MCParameters, clock \in Clocks, level \in Levels,
        condition \in Conditions, portfolio \in Portfolios}
=============================================================================
