------------------------- MODULE TradeStateMachine --------------------------
(***************************************************************************)
(* The trade state machine of farcasterd                                   *)
(* (src/src/farcasterd/trade_state_machine.rs): a deal that is made, taken *)
(* or restored, the services its swap needs, and the swap while it runs.   *)
(* One operator per transition function and request; each takes the        *)
(* machine out of the runtime and pushes what becomes of it.               *)
(***************************************************************************)
EXTENDS FarcasterRuntime

---------------------------------------------------------------------------
(* Deals.                                                                   *)

\* StartMaker on MakeDeal.
make_deal(r, d, client) ==
  IF ~services_ready(r) \/ ~peer_keys_ready(r)
  THEN send(r, client, "Failure", None)
  ELSE LET told == send(send([r EXCEPT !.rt.listens = TRUE],
                             Database, "SetDealStatus", d), client, "MadeDeal", d)
       IN  IF told.ok THEN push([told EXCEPT !.rt.deals = @ \cup {d}],
                                Trade("MakeDeal", d, None))
           ELSE told

\* MakeDeal on RevokeDeal: the machine ends.
revoke_deal(r, t, client) == send(r, client, "Revoked", t.deal)

\* MakeDeal on TakerCommit.
taker_commit(r, t, p) ==
  push(send(send(r, Wallet, "CreateSwapKeys", t.deal), Database, "SetDealStatus", t.deal),
       [t EXCEPT !.st = "TakerCommit", !.peerd = p])

\* What follows a connection: the wallet is asked for keys, the client told.
take_over(r, d, p, client) ==
  LET told == send(send(r, Wallet, "CreateSwapKeys", d), client, "TookDeal", d)
  IN  IF told.ok THEN push([told EXCEPT !.rt.deals = @ \cup {d}], Trade("TakeDeal", d, p))
      ELSE told

\* StartTaker on TakeDeal.
take_deal(r, d, client) ==
  LET n == Counterparty[d]
  IN  IF d \in consumed_deals(r.rt) \cup r.rt.deals \/ ~services_ready(r) \/ ~peer_keys_ready(r)
      THEN send(r, client, "Failure", None)
      ELSE IF connected(r, n) THEN take_over(r, d, connection(r, n), client)
      ELSE push(connect_peer(r, n), [Trade("TakerConnect", d, None) EXCEPT !.client = client])

---------------------------------------------------------------------------
(* Starting a swap: TakerCommit and TakeDeal on SwapKeys, StartRestore on   *)
(* RestoreCheckpoint.                                                       *)

\* The syncers that are up already are not taken note of.
swapd_launched_Waits(r, t) ==
  push([syncers_up(r) EXCEPT !.launched = @ \cup {Swap(t.deal)}],
       [t EXCEPT !.st = "SwapdLaunched", !.up = {}])

swapd_launched(r, t) ==
  LET s == syncers_up(r)
  IN  push([s EXCEPT !.launched = @ \cup {Swap(t.deal)}],
           [t EXCEPT !.st = "SwapdLaunched", !.up = registered_chains(s)])

swap_keys(r, t) ==
  IF t.st \in {"TakerCommit", "TakeDeal"} THEN swapd_launched(r, t) ELSE push(r, t)

restore_checkpoint(r, d, expected, client) ==
  IF ~services_ready(r) \/ Swap(d) \in r.reach THEN send(r, client, "Failure", None)
  ELSE LET expect == d \notin MakerDeals /\ peer_keys_ready(r)
           dialed == IF expect THEN connect_peer(r, Counterparty[d]) ELSE r
           heard  == IF d \in MakerDeals /\ peer_keys_ready(r)
                     THEN [dialed EXCEPT !.rt.listens = TRUE] ELSE dialed
           s      == syncers_up(heard)
           told   == send([s EXCEPT !.launched = @ \cup {Swap(d)}], client, "Restoring", d)
       IN  push(told, [Trade("RestoringSwapd", d, None) EXCEPT
                         !.expect = expect, !.expected = expected,
                         !.up = registered_chains(s)])

---------------------------------------------------------------------------
(* SwapdLaunched on any request, Hello above all.  Of the connections with  *)
(* the address of its own it may meet another first.                        *)

hears(t, src) ==
  [t EXCEPT !.up = @ \cup {c \in Chains : src = Syncer(c)}
                     \cup {x \in {"swapd"} : src = Swap(t.deal)}]

follow(r, t, newest) ==
  LET same   == {s \in peers(r.rt.registered) : node_addr(s) = node_addr(t.peerd)}
      others == same \ {t.peerd}
  IN  IF same = {} \/ (t.peerd \in same /\ (~newest \/ others = {})) THEN t
      ELSE [t EXCEPT !.peerd = CHOOSE s \in others : TRUE, !.reconnected = TRUE]

launched_peerd_up(r, t) ==
  \E s \in peers(r.rt.registered) : node_addr(s) = node_addr(t.peerd)

init_swap(r, t) ==
  LET warned == IF t.reconnected THEN send(r, Swap(t.deal), "PeerdReconnected", t.peerd) ELSE r
      told   == send(warned, Swap(t.deal), "InitSwap", t.peerd)
  IN  push(told, [t EXCEPT !.st = "SwapdRunning", !.expected = {}, !.reconnected = FALSE])

launched_on(r, t, src, newest) ==
  LET u == follow(r, hears(t, src), newest)
  IN  IF u.up = Chains \cup {"swapd"} /\ launched_peerd_up(r, u)
      THEN init_swap(r, u) ELSE push(r, u)

---------------------------------------------------------------------------
(* RestoringSwapd on any request.                                           *)

restore_swap(r, t) ==
  LET linked_up == IF t.peerd # None
                   THEN send(r, Swap(t.deal), "PeerdReconnected", t.peerd) ELSE r
      told      == send(linked_up, Database, "RestoreCheckpoint", t.deal)
  IN  push(told, [t EXCEPT !.st = "SwapdRunning"])

restoring_goes_on(r, t) ==
  IF t.up = Chains \cup {"swapd"} /\ (t.expect => t.peerd # None)
  THEN restore_swap(r, t) ELSE push(r, t)

\* The maker's counterparty is recognised by its id at the listener's address.
restoring_hello(r, t, src) ==
  LET u == hears(t, src)
  IN  restoring_goes_on(r,
        IF /\ t.deal \in MakerDeals /\ src.kind = "peer"
           /\ src.side = "in" /\ src.node \in t.expected
        THEN [u EXCEPT !.peerd = src] ELSE u)

---------------------------------------------------------------------------
(* SwapdRunning on Hello: from a peerd with the address of its connection,  *)
(* or, without one, from whatever has the id of the expected counterparty;  *)
(* no id equals no id.  Its own connection stays what it was.               *)

reconnects(t, src) ==
  \/ src.kind = "peer" /\ t.peerd # None /\ node_addr(src) = node_addr(t.peerd)
  \/ t.peerd = None /\ t.expected = node_id(src)

running_hello(r, t, src) ==
  IF reconnects(t, src)
  THEN push(send(r, Swap(t.deal), "PeerdReconnected", src), t) ELSE push(r, t)

tsm_hello(r, t, src, newest) ==
  CASE t.st = "SwapdLaunched"  -> launched_on(r, t, src, newest)
    [] t.st = "RestoringSwapd" -> restoring_hello(r, t, src)
    [] t.st = "SwapdRunning"   -> running_hello(r, t, src)
    [] OTHER                   -> push(r, t)

---------------------------------------------------------------------------
(* ConnectSuccess and ConnectFailed, of a peerd whose address t awaits.     *)

tsm_connected(r, t, p) ==
  LET known == handle_new_connection(r, p)
  IN  CASE t.st = "TakerConnect"   -> take_over(known, t.deal, p, t.client)
        [] t.st = "RestoringSwapd" -> restoring_goes_on(known, [t EXCEPT !.peerd = p])
        [] t.st = "SwapdRunning"   -> push(known, [t EXCEPT !.peerd = p])

\* The machine goes on waiting.
tsm_not_connected_Waits(r, t, p) == push(handle_failed_connection(r, p), t)

tsm_not_connected(r, t, p) ==
  LET gone == handle_failed_connection(r, p)
  IN  CASE t.st = "TakerConnect"   -> send(gone, t.client, "Failure", None)
        [] t.st = "RestoringSwapd" -> restoring_goes_on(gone, [t EXCEPT !.expect = FALSE])
        [] t.st = "SwapdRunning"   -> push(gone, [t EXCEPT !.peerd = p])

---------------------------------------------------------------------------
(* SwapdRunning on the user's Connect, and on PeerdUnreachable and          *)
(* SwapOutcome of its swapd; the other states take them for any request.    *)

otherwise(r, t, newest) ==
  CASE t.st = "SwapdLaunched"  -> launched_on(r, t, None, newest)
    [] t.st = "RestoringSwapd" -> restoring_goes_on(r, t)

\* The address of a deal is its maker's: the maker of one dials itself.
connect(r, t, client) ==
  LET n == node_addr_from_deal(t.deal)
  IN  IF t.peerd # None \/ ~services_ready(r) \/ ~peer_keys_ready(r)
      THEN push(send(r, client, "Failure", None), t)
      ELSE LET dialed == connect_peer(r, n)
           IN  push(IF connected(r, n) THEN send(dialed, client, "ConnectSuccess", None)
                    ELSE dialed,
                    [t EXCEPT !.peerd = connection(r, n)])

peerd_unreachable(r, t, p) ==
  IF p \in r.rt.registered
  THEN push(send(handle_failed_connection(r, p), p, "Terminate", None), t)
  ELSE push(r, t)

swap_outcome(r, t) ==
  clean_up_after_swap(send(r, Database, "SetDealStatus", t.deal), t.deal)
=============================================================================
