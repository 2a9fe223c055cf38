------------------------------- MODULE PeerLink -------------------------------
(***************************************************************************)
(* Two peerd daemons, the connections between them, and the swap each one  *)
(* serves (peerd/runtime.rs).                                              *)
(*                                                                         *)
(* The taker's peerd is one process that connects again whenever its       *)
(* connection is lost. The maker's is forked from the listener once per    *)
(* connection and ends with it; farcasterd ends it and tells the maker's   *)
(* swapd of the next one. A peerd is two threads: the receiver reads the   *)
(* connection and puts what it reads on a bridge, the main loop serves the *)
(* bus and the bridge.                                                     *)
(*                                                                         *)
(* A message is its number among those its swapd sent; all are of          *)
(* different types, as the messages of one role in a swap are.             *)
(***************************************************************************)
EXTENDS Integers, Sequences, FiniteSets

CONSTANTS
    MaxConns,     \* connections that leave a trace at the same time
    Environments  \* what the swaps and the network may do, from the start on:
                  \*   msgs, replies   messages the two swapd send
                  \*   conns           connections in use, of MaxConns
                  \*   breaks          connections the network breaks
                  \*   write_fails     whether writing to a broken connection
                  \*                   may report an error; otherwise what is
                  \*                   written is lost until the reader notices

ASSUME PeerLinkAssumption ==
    /\ MaxConns \in Nat \ {0}
    /\ Environments \subseteq [msgs : Nat, replies : Nat, conns : 1..MaxConns,
                               breaks : Nat, write_fails : BOOLEAN]

Conn == 1..MaxConns

VARIABLES
    taker,   \* Runtime of the taker's peerd, its receiver thread and where it is
    maker,   \* maker[c]: Runtime of the peerd forked for c, and its receiver
    link,    \* link[c]: the connection c, with what is under way on it
    fd,      \* what the maker's farcasterd has to handle
    swap,    \* the maker's swapd: peer_service, pending_peer_request
    sent,    \* messages each swapd has given to its peerd
    handed,  \* what the maker's peerds handed to the bus
    got,     \* what each swapd accepted
    env      \* one of Environments, with the breaks that are left

vars == <<taker, maker, link, fd, swap, sent, handed, got, env>>

Msg(n) == [kind |-> "msg", n |-> n]
Receipt(n) == [kind |-> "receipt", n |-> n]
TakerCommit == 1    \* the first that the taker's swapd sends
PeerReceiverRuntimeShutdown == [kind |-> "down", n |-> 0]

Gone == [st |-> "gone", inbox |-> <<>>, cache |-> <<>>, bridge |-> <<>>, reads |-> FALSE]
run_from_listener == [Gone EXCEPT !.st = "starting", !.reads = TRUE]
Closed == [alive |-> FALSE, toM |-> <<>>, toT |-> <<>>]
Open == [alive |-> TRUE, toM |-> <<>>, toT |-> <<>>]
\* A connection whose taker's end is closed.
LeftBehind(l) == [alive |-> FALSE, toM |-> l.toM, toT |-> <<>>]

Init ==
    /\ taker = [pc |-> "loop", hand |-> 0, again |-> <<>>, inbox |-> <<>>,
                cache |-> <<>>, bridge |-> <<>>, conn |-> 1, reads |-> TRUE]
    /\ maker = [c \in Conn |-> IF c = 1 THEN [run_from_listener EXCEPT !.st = "up"] ELSE Gone]
    /\ link = [c \in Conn |-> IF c = 1 THEN Open ELSE Closed]
    /\ fd = <<>>
    /\ swap = [peer |-> 1, pending |-> <<>>]
    /\ sent = [taker |-> 0, maker |-> 0]
    /\ handed = {}
    /\ got = [taker |-> {}, maker |-> {}]
    /\ env \in Environments

(***************************************************************************)
(* Writing: on a broken connection it is lost, or it is an error.          *)
(***************************************************************************)
to_maker(c, p) == IF link[c].alive THEN [link EXCEPT ![c].toM = Append(@, p)] ELSE link
to_taker(c, p) == IF link[c].alive THEN [link EXCEPT ![c].toT = Append(@, p)] ELSE link
Fails(c) == env.write_fails /\ ~link[c].alive

\* A cache holds a message once: position finds it, remove takes it out.
position(cache, n) == CHOOSE i \in DOMAIN cache : cache[i] = n
remove(cache, i) == SubSeq(cache, 1, i - 1) \o SubSeq(cache, i + 1, Len(cache))
Without(cache, n) == IF \E i \in DOMAIN cache : cache[i] = n
                     THEN remove(cache, position(cache, n)) ELSE cache

\* Mutant: every message of the swap is taken for a dangling one.
forgets_others(cache, n) == <<n>>

\* What handle_msg keeps of a message it has sent until its receipt comes.
unchecked_msg_cache(cache, n) == Append(Without(cache, n), n)

-------------------------------------------------------------------------------
(***************************************************************************)
(* The taker's main loop.                                                  *)
(***************************************************************************)
TakerSwapSends ==
    /\ sent.taker < env.msgs
    /\ sent' = [sent EXCEPT !.taker = @ + 1]
    /\ taker' = [taker EXCEPT !.inbox = Append(@, sent.taker + 1)]
    /\ UNCHANGED <<maker, link, fd, swap, handed, got, env>>

\* A message from the bus, or the one whose sending failed before.
takes_msg(n) ==
    \/ taker.pc = "loop" /\ taker.inbox # <<>> /\ n = Head(taker.inbox)
    \/ taker.pc = "send" /\ n = taker.hand
inbox_left == IF taker.pc = "loop" THEN Tail(taker.inbox) ELSE taker.inbox

taker_handle_msg == \E n \in 1..sent.taker :
    /\ takes_msg(n)
    /\ link' = to_maker(taker.conn, Msg(n))
    /\ taker' = [taker EXCEPT !.pc = "loop", !.hand = 0, !.inbox = inbox_left,
                              !.cache = unchecked_msg_cache(@, n)]
    /\ UNCHANGED <<maker, fd, swap, sent, handed, got, env>>

taker_handle_msg_fails == \E n \in 1..sent.taker :
    /\ takes_msg(n)
    /\ Fails(taker.conn)
    /\ taker' = [taker EXCEPT !.pc = "reconnect", !.hand = n, !.inbox = inbox_left]
    /\ UNCHANGED <<maker, link, fd, swap, sent, handed, got, env>>

taker_forwards(p) ==
    /\ p.kind = "msg"
    /\ got' = [got EXCEPT !.taker = @ \cup {p.n}]
    /\ link' = to_maker(taker.conn, Receipt(p.n))
    /\ taker' = [taker EXCEPT !.bridge = Tail(@)]

taker_receipt(p) ==
    /\ p.kind = "receipt"
    /\ taker' = [taker EXCEPT !.bridge = Tail(@), !.cache = Without(@, p.n)]
    /\ UNCHANGED <<link, got>>

taker_shutdown(p) ==
    /\ p.kind = "down"
    /\ taker' = [taker EXCEPT !.bridge = Tail(@), !.pc = "reconnect"]
    /\ UNCHANGED <<link, got>>

taker_handle_bridge ==
    /\ taker.pc = "loop" /\ taker.bridge # <<>>
    /\ \/ taker_forwards(Head(taker.bridge))
       \/ taker_receipt(Head(taker.bridge))
       \/ taker_shutdown(Head(taker.bridge))
    /\ UNCHANGED <<maker, fd, swap, sent, handed, env>>

(***************************************************************************)
(* reconnect_peer: wait for the receiver thread to end, connect, send what *)
(* is in the cache again, in order; an error starts it all over.           *)
(***************************************************************************)
Unused(c) == /\ c <= env.conns /\ maker[c] = Gone
             /\ swap.peer # c /\ taker.conn # c
             /\ \A i \in DOMAIN fd : fd[i].conn # c

\* Mutant: the cache is not sent again.
reconnect_only ==
    /\ taker.pc = "reconnect" /\ ~taker.reads
    /\ \E c \in Conn :
          /\ Unused(c)
          /\ taker' = [taker EXCEPT !.pc = "resend", !.conn = c, !.reads = TRUE]
          /\ maker' = [maker EXCEPT ![c] = run_from_listener]
          /\ link' = [link EXCEPT ![taker.conn] = LeftBehind(@), ![c] = Open]
    /\ UNCHANGED <<fd, swap, sent, handed, got, env>>

reconnect_peer ==
    /\ taker.pc = "reconnect" /\ ~taker.reads
    /\ \E c \in Conn :
          /\ Unused(c)
          /\ taker' = [taker EXCEPT !.pc = "resend", !.again = taker.cache,
                                    !.conn = c, !.reads = TRUE]
          /\ maker' = [maker EXCEPT ![c] = run_from_listener]
          /\ link' = [link EXCEPT ![taker.conn] = LeftBehind(@), ![c] = Open]
    /\ UNCHANGED <<fd, swap, sent, handed, got, env>>

\* Mutant: the newest message first.
resend_newest_first ==
    /\ taker.pc = "resend" /\ taker.again # <<>>
    /\ link' = to_maker(taker.conn, Msg(taker.again[Len(taker.again)]))
    /\ taker' = [taker EXCEPT !.again = SubSeq(@, 1, Len(@) - 1)]
    /\ UNCHANGED <<maker, fd, swap, sent, handed, got, env>>

resend_cached ==
    /\ taker.pc = "resend" /\ taker.again # <<>>
    /\ link' = to_maker(taker.conn, Msg(Head(taker.again)))
    /\ taker' = [taker EXCEPT !.again = Tail(@)]
    /\ UNCHANGED <<maker, fd, swap, sent, handed, got, env>>

resend_fails ==
    /\ taker.pc = "resend" /\ taker.again # <<>>
    /\ Fails(taker.conn)
    /\ taker' = [taker EXCEPT !.pc = "reconnect", !.again = <<>>]
    /\ UNCHANGED <<maker, link, fd, swap, sent, handed, got, env>>

\* Mutant: the message whose sending failed is not tried again.
reconnected_for_all ==
    /\ taker.pc = "resend" /\ taker.again = <<>>
    /\ taker' = [taker EXCEPT !.pc = "loop"]
    /\ UNCHANGED <<maker, link, fd, swap, sent, handed, got, env>>

reconnected ==
    /\ taker.pc = "resend" /\ taker.again = <<>>
    /\ taker' = [taker EXCEPT !.pc = IF taker.hand = 0 THEN "loop" ELSE "send"]
    /\ UNCHANGED <<maker, link, fd, swap, sent, handed, got, env>>

(***************************************************************************)
(* The taker's receiver thread. It ends when the connection does, or when  *)
(* a ping it asked the main loop for is not answered, which is so while    *)
(* the main loop is in reconnect_peer.                                     *)
(***************************************************************************)
taker_reads ==
    /\ taker.reads /\ link[taker.conn].toT # <<>>
    /\ taker' = [taker EXCEPT !.bridge = Append(@, Head(link[taker.conn].toT))]
    /\ link' = [link EXCEPT ![taker.conn].toT = Tail(@)]
    /\ UNCHANGED <<maker, fd, swap, sent, handed, got, env>>

PingFails(c) == taker.conn = c /\ taker.pc = "reconnect"

taker_reader_ends ==
    /\ taker.reads /\ link[taker.conn].toT = <<>>
    /\ ~link[taker.conn].alive \/ PingFails(taker.conn)
    /\ taker' = [taker EXCEPT !.reads = FALSE,
                              !.bridge = Append(@, PeerReceiverRuntimeShutdown)]
    /\ UNCHANGED <<maker, link, fd, swap, sent, handed, got, env>>

-------------------------------------------------------------------------------
(***************************************************************************)
(* The maker's swapd: send_peer puts back what cannot be sent, and tells   *)
(* farcasterd, which on the maker's side does nothing.                     *)
(***************************************************************************)
MakerSwapSends ==
    /\ sent.maker < env.replies
    /\ sent' = [sent EXCEPT !.maker = @ + 1]
    /\ LET n == sent.maker + 1
       IN IF maker[swap.peer] = Gone
          THEN swap' = [swap EXCEPT !.pending = Append(@, n)] /\ UNCHANGED maker
          ELSE maker' = [maker EXCEPT ![swap.peer].inbox = Append(@, n)] /\ UNCHANGED swap
    /\ UNCHANGED <<taker, link, fd, handed, got, env>>

(***************************************************************************)
(* The main loop of the maker's peerd for connection c.                    *)
(***************************************************************************)
Hello(c) == [msg |-> "Hello", conn |-> c]
PeerdTerminated(c) == [msg |-> "PeerdTerminated", conn |-> c]

Runs(c) == maker[c].st \in {"up", "told"}

maker_starts(c) ==
    /\ maker[c].st = "starting"
    /\ maker' = [maker EXCEPT ![c].st = "up"]
    /\ fd' = Append(fd, Hello(c))
    /\ UNCHANGED <<taker, link, swap, sent, handed, got, env>>

maker_handle_msg(c) ==
    /\ Runs(c) /\ maker[c].inbox # <<>>
    /\ LET n == Head(maker[c].inbox)
       IN /\ link' = to_taker(c, Msg(n))
          /\ maker' = [maker EXCEPT ![c].inbox = Tail(@),
                                    ![c].cache = unchecked_msg_cache(@, n)]
    /\ UNCHANGED <<taker, fd, swap, sent, handed, got, env>>

\* FailedPeerMessage for every message in the cache of c.
FailedPeerMessages(c) == [swap EXCEPT !.pending = @ \o maker[c].cache]

\* The cache goes back to the swap; the message that could not be sent does not.
maker_handle_msg_fails(c) ==
    /\ Runs(c) /\ maker[c].inbox # <<>>
    /\ Fails(c)
    /\ swap' = FailedPeerMessages(c)
    /\ maker' = [maker EXCEPT ![c].inbox = Tail(@), ![c].cache = <<>>]
    /\ fd' = Append(fd, PeerdTerminated(c))
    /\ UNCHANGED <<taker, link, sent, handed, got, env>>

\* swapd refuses what does not come from its peer_service; TakerCommit, which
\* comes first, goes to farcasterd, whoever it comes from.
hands_on(c, n) ==
    /\ handed' = handed \cup {n}
    /\ got' = IF n = TakerCommit \/ swap.peer = c
              THEN [got EXCEPT !.maker = @ \cup {n}] ELSE got

\* The receipt is sent.
maker_forwards(c, p) ==
    /\ p.kind = "msg"
    /\ hands_on(c, p.n)
    /\ link' = to_taker(c, Receipt(p.n))
    /\ maker' = [maker EXCEPT ![c].bridge = Tail(@)]
    /\ UNCHANGED <<fd, swap>>

\* The receipt of TakerCommit is sent by handle_msg: when that fails, the cache
\* goes back to the swap and farcasterd is told.
maker_confirm_fails(c, p) ==
    /\ p = Msg(TakerCommit)
    /\ Fails(c)
    /\ hands_on(c, TakerCommit)
    /\ fd' = Append(fd, PeerdTerminated(c))
    /\ swap' = FailedPeerMessages(c)
    /\ maker' = [maker EXCEPT ![c].bridge = Tail(@), ![c].cache = <<>>]
    /\ UNCHANGED link

maker_receipt(c, p) ==
    /\ p.kind = "receipt"
    /\ maker' = [maker EXCEPT ![c].bridge = Tail(@), ![c].cache = Without(@, p.n)]
    /\ UNCHANGED <<link, fd, swap, handed, got>>

\* Mutant: farcasterd is not told.
maker_shutdown_untold(c, p) ==
    /\ p.kind = "down"
    /\ swap' = FailedPeerMessages(c)
    /\ maker' = [maker EXCEPT ![c].bridge = Tail(@), ![c].cache = <<>>]
    /\ UNCHANGED <<fd, link, handed, got>>

maker_shutdown(c, p) ==
    /\ p.kind = "down"
    /\ fd' = Append(fd, PeerdTerminated(c))
    /\ swap' = FailedPeerMessages(c)
    /\ maker' = [maker EXCEPT ![c].bridge = Tail(@), ![c].cache = <<>>]
    /\ UNCHANGED <<link, handed, got>>

maker_handle_bridge(c) ==
    /\ Runs(c) /\ maker[c].bridge # <<>>
    /\ LET p == Head(maker[c].bridge)
       IN \/ maker_forwards(c, p) \/ maker_confirm_fails(c, p)
          \/ maker_receipt(c, p) \/ maker_shutdown(c, p)
    /\ UNCHANGED <<taker, sent, env>>

\* Terminate: what is still in the inbox or on the bridge goes with the process.
maker_terminates(c) ==
    /\ maker[c].st = "told"
    /\ swap' = FailedPeerMessages(c)
    /\ maker' = [maker EXCEPT ![c] = Gone]
    /\ link' = [link EXCEPT ![c] = [alive |-> FALSE, toM |-> <<>>, toT |-> @.toT]]
    /\ UNCHANGED <<taker, fd, sent, handed, got, env>>

\* Mutant: the receipt is sent when a message is read, not when it is handed on.
maker_reads_confirming(c) ==
    /\ maker[c].reads /\ link[c].toM # <<>>
    /\ LET p == Head(link[c].toM)
       IN /\ maker' = [maker EXCEPT ![c].bridge = Append(@, p)]
          /\ link' = [link EXCEPT ![c].toM = Tail(@),
                         ![c].toT = IF p.kind = "msg" THEN Append(@, Receipt(p.n)) ELSE @]
    /\ UNCHANGED <<taker, fd, swap, sent, handed, got, env>>

maker_reads(c) ==
    /\ maker[c].reads /\ link[c].toM # <<>>
    /\ maker' = [maker EXCEPT ![c].bridge = Append(@, Head(link[c].toM))]
    /\ link' = [link EXCEPT ![c].toM = Tail(@)]
    /\ UNCHANGED <<taker, fd, swap, sent, handed, got, env>>

maker_reader_ends(c) ==
    /\ maker[c].reads /\ link[c].toM = <<>>
    /\ ~link[c].alive \/ PingFails(c)
    /\ maker' = [maker EXCEPT ![c].reads = FALSE,
                              ![c].bridge = Append(@, PeerReceiverRuntimeShutdown)]
    /\ UNCHANGED <<taker, link, fd, swap, sent, handed, got, env>>

-------------------------------------------------------------------------------
(***************************************************************************)
(* The maker's farcasterd: a peerd that says hello is announced to the     *)
(* swap (PeerdReconnected), which sends what is pending; one that says it  *)
(* is done is terminated.                                                  *)
(***************************************************************************)
PeerdReconnected(c) ==
    /\ swap' = [swap EXCEPT !.peer = c, !.pending = <<>>]
    /\ maker' = IF maker[c] = Gone THEN maker
                ELSE [maker EXCEPT ![c].inbox = @ \o swap.pending]

handle_failed_connection(c) ==
    /\ maker' = IF maker[c] = Gone THEN maker ELSE [maker EXCEPT ![c].st = "told"]
    /\ UNCHANGED swap

farcasterd_handles ==
    /\ fd # <<>>
    /\ fd' = Tail(fd)
    /\ LET m == Head(fd)
       IN \/ m.msg = "Hello" /\ PeerdReconnected(m.conn)
          \/ m.msg = "PeerdTerminated" /\ handle_failed_connection(m.conn)
    /\ UNCHANGED <<taker, link, sent, handed, got, env>>

\* The network: the last of what is under way, or all of it, is lost.
Break(c) ==
    /\ env.breaks > 0 /\ link[c].alive
    /\ env' = [env EXCEPT !.breaks = @ - 1]
    /\ \E i \in 0..Len(link[c].toM), j \in 0..Len(link[c].toT) :
          link' = [link EXCEPT ![c] = [alive |-> FALSE,
                                       toM |-> SubSeq(@.toM, 1, i),
                                       toT |-> SubSeq(@.toT, 1, j)]]
    /\ UNCHANGED <<taker, maker, fd, swap, sent, handed, got>>

TakerNext ==
    \/ TakerSwapSends \/ taker_handle_msg \/ taker_handle_msg_fails
    \/ taker_handle_bridge \/ reconnect_peer \/ resend_cached \/ resend_fails
    \/ reconnected \/ taker_reads \/ taker_reader_ends

MakerNext ==
    \/ MakerSwapSends \/ farcasterd_handles
    \/ \E c \in Conn :
          \/ maker_starts(c) \/ maker_handle_msg(c) \/ maker_handle_msg_fails(c)
          \/ maker_handle_bridge(c) \/ maker_terminates(c)
          \/ maker_reads(c) \/ maker_reader_ends(c)

Next == TakerNext \/ MakerNext \/ \E c \in Conn : Break(c)

Spec == Init /\ [][Next]_vars

===============================================================================
