---------------------------- MODULE TemporalSafety ----------------------------
(***************************************************************************)
(* The timing rules of a swap: src/src/swapd/temporal_safety.rs.  Every    *)
(* decision of swapd that depends on a number of confirmations goes        *)
(* through one of these predicates.                                        *)
(***************************************************************************)
EXTENDS Integers

CONSTANTS
    cancel_timelock,   \* lock confirmations from which Cancel may be mined
    punish_timelock,   \* cancel confirmations from which Punish may be mined
    race_thr,          \* blocks that must remain before the next timelock
    btc_finality_thr,  \* confirmations that make a Bitcoin transaction final
    xmr_finality_thr,  \* the same for Monero
    sweep_monero_thr   \* SWEEP_MONERO_THRESHOLD

\* TemporalSafety::valid_params
valid_params ==
    /\ btc_finality_thr < cancel_timelock
    /\ cancel_timelock < punish_timelock
    /\ btc_finality_thr < race_thr
    /\ punish_timelock > race_thr
    /\ cancel_timelock > race_thr

(***************************************************************************)
(* The fields are unsigned, and swapd's run() stops before its first event *)
(* unless valid_params holds.  SwapProofs shows (NoWrap) that no u32       *)
(* subtraction below can wrap then.                                        *)
(***************************************************************************)
ASSUME TemporalSafetyAssumption ==
    /\ {cancel_timelock, punish_timelock, race_thr,
        btc_finality_thr, xmr_finality_thr, sweep_monero_thr} \subseteq Nat
    /\ valid_params

final_btc(confs) == confs >= btc_finality_thr
final_xmr(confs) == confs >= xmr_finality_thr

stop_funding_before_cancel(lock_confs) ==
    /\ final_btc(lock_confs)
    /\ lock_confs > (cancel_timelock - race_thr + 1)

valid_cancel(lock_confs) ==
    final_btc(lock_confs) /\ lock_confs >= cancel_timelock

\* Declared by the code, called nowhere in it: see NoRacingBuy in SwapProperties.
safe_buy(lock_confs) ==
    final_btc(lock_confs) /\ lock_confs <= cancel_timelock - race_thr

safe_refund(cancel_confs) ==
    final_btc(cancel_confs) /\ cancel_confs <= punish_timelock - race_thr

valid_punish(cancel_confs) ==
    final_btc(cancel_confs) /\ cancel_confs >= punish_timelock

\* The i64 countdowns of the state report.
blocks_until_stop_funding(lock_confs) ==
    cancel_timelock - (race_thr + 1 + lock_confs)
blocks_until_cancel(lock_confs) == cancel_timelock - lock_confs
blocks_until_punish_after_cancel(cancel_confs) == punish_timelock - cancel_confs

===============================================================================
