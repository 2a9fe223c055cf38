---------------------------- MODULE PeerLinkProofs ----------------------------
(***************************************************************************)
(* What the taker's peerd is given is handed to the maker's bus in order,  *)
(* for any number of messages, connections, breaks and failing writes.     *)
(***************************************************************************)
EXTENDS PeerLinkProperties, SequenceTheorems, TLAPS

-------------------------------------------------------------------------------
(***************************************************************************)
(* Sequences: what is appended to a queue and what is taken from it.       *)
(***************************************************************************)
\* A queue that one is appended to.
LEMMA AppendQueue ==
    ASSUME NEW S, NEW q \in Seq(S), NEW e \in S
    PROVE  /\ Append(q, e) \in Seq(S)
           /\ Elements(Append(q, e)) = Elements(q) \cup {e}
BY AppendProperties DEF Elements

\* A queue that its head is taken from.
LEMMA TailQueue ==
    ASSUME NEW S, NEW q \in Seq(S), q # <<>>
    PROVE  /\ Head(q) \in S /\ Tail(q) \in Seq(S)
           /\ Elements(q) = {Head(q)} \cup Elements(Tail(q))
<1>1. /\ Head(q) = q[1] /\ DOMAIN q = 1..Len(q) /\ Len(q) \in Nat \ {0}
      /\ DOMAIN Tail(q) = 1..(Len(q) - 1)
      /\ \A i \in 1..(Len(q) - 1) : Tail(q)[i] = q[i + 1]
  BY HeadTailProperties, EmptySeq
<1>2. Elements(q) \subseteq {Head(q)} \cup Elements(Tail(q))
  <2>1. SUFFICES ASSUME NEW i \in 1..Len(q), i # 1
                 PROVE  q[i] \in Elements(Tail(q))
    BY <1>1 DEF Elements
  <2>2. i - 1 \in DOMAIN Tail(q) /\ Tail(q)[i - 1] = q[i]
    BY <1>1, <2>1
  <2> QED
    BY <2>2 DEF Elements
<1> QED
  BY <1>1, <1>2, HeadTailProperties DEF Elements

\* Ascending queues of messages.
Ascending(q) == \A i, j \in DOMAIN q : i < j => q[i] < q[j]

\* A cache without one of its messages.
LEMMA WithoutQueue ==
    ASSUME NEW S, NEW q \in Seq(S), NEW n
    PROVE  /\ Without(q, n) \in Seq(S)
           /\ Elements(Without(q, n)) \subseteq Elements(q)
           /\ Elements(q) \ {n} \subseteq Elements(Without(q, n))
           /\ S \subseteq Nat /\ Ascending(q) => Ascending(Without(q, n))
<1>1. CASE ~ \E i \in DOMAIN q : q[i] = n
  BY <1>1 DEF Without
<1>2. CASE \E i \in DOMAIN q : q[i] = n
  <2> DEFINE p == position(q, n)
             w == remove(q, p)
  <2>1. p \in 1..Len(q) /\ q[p] = n /\ DOMAIN q = 1..Len(q) /\ Len(q) \in Nat
    BY <1>2, LenProperties DEF position
  <2>2. Without(q, n) = w
    BY <1>2 DEF Without
  <2> HIDE DEF p
  <2> DEFINE a == SubSeq(q, 1, p - 1)
             b == SubSeq(q, p + 1, Len(q))
  <2>3. /\ a \in Seq(S) /\ Len(a) = p - 1
        /\ \A i \in 1..(p - 1) : a[i] = q[i]
    BY <2>1, SubSeqProperties, ElementOfSeq
  <2>4. /\ b \in Seq(S) /\ Len(b) = Len(q) - p
        /\ \A i \in 1..(Len(q) - p) : b[i] = q[p + i]
    <3>1. \A i \in (p + 1)..Len(q) : q[i] \in S
      BY <2>1, ElementOfSeq
    <3>2. p + 1 \in Int /\ Len(q) \in Int
      BY <2>1
    <3>3. /\ b \in Seq(S)
          /\ Len(b) = IF p + 1 <= Len(q) THEN Len(q) - (p + 1) + 1 ELSE 0
          /\ \A i \in 1..(Len(q) - (p + 1) + 1) : b[i] = q[p + 1 + i - 1]
      BY <3>1, <3>2, SubSeqProperties
    <3> HIDE DEF b
    <3>4. p \in Nat /\ Len(q) \in Nat /\ p <= Len(q)
      BY <2>1
    <3>5. Len(b) = Len(q) - p
      BY <3>3, <3>4
    <3>6. ASSUME NEW i \in 1..(Len(q) - p)
          PROVE  b[i] = q[p + i]
      <4>1. i \in 1..(Len(q) - (p + 1) + 1) /\ p + 1 + i - 1 = p + i
        BY <3>4
      <4> QED
        BY <3>3, <4>1
    <3> QED
      BY <3>3, <3>5, <3>6
  <2>5. w = a \o b
    BY DEF remove
  <2> HIDE DEF a, b, w
  <2>6. /\ w \in Seq(S) /\ Len(w) = Len(q) - 1
        /\ DOMAIN w = 1..(Len(q) - 1)
        /\ \A i \in 1..(Len(q) - 1) : w[i] = IF i < p THEN q[i] ELSE q[i + 1]
    <3>1. /\ w \in Seq(S) /\ Len(w) = Len(a) + Len(b)
          /\ \A i \in 1..(Len(a) + Len(b)) :
                w[i] = IF i <= Len(a) THEN a[i] ELSE b[i - Len(a)]
      BY <2>3, <2>4, <2>5, ConcatProperties
    <3>2. Len(a) + Len(b) = Len(q) - 1
      BY <2>1, <2>3, <2>4
    <3>3. ASSUME NEW i \in 1..(Len(q) - 1)
          PROVE  w[i] = IF i < p THEN q[i] ELSE q[i + 1]
      <4>0. p \in Nat /\ Len(q) \in Nat /\ Len(a) = p - 1 /\ i \in 1..(Len(a) + Len(b))
        BY <2>1, <2>3, <3>2
      <4>1. w[i] = IF i <= Len(a) THEN a[i] ELSE b[i - Len(a)]
        BY <3>1, <4>0
      <4>2. CASE i < p
        <5>1. i <= Len(a) /\ i \in 1..(p - 1)
          BY <4>0, <4>2
        <5>2. a[i] = q[i]
          BY <2>3, <5>1
        <5> QED
          BY <4>1, <4>2, <5>1, <5>2
      <4>3. CASE ~(i < p)
        <5>1. i - Len(a) \in 1..(Len(q) - p) /\ p + (i - Len(a)) = i + 1 /\ ~(i <= Len(a))
          BY <4>0, <4>3
        <5>2. b[i - Len(a)] = q[i + 1]
          BY <2>4, <5>1
        <5> QED
          BY <4>1, <4>3, <5>1, <5>2
      <4> QED
        BY <4>2, <4>3
    <3> QED
      BY <3>1, <3>2, <3>3, LenProperties
  <2>7. Elements(w) \subseteq Elements(q)
    BY <2>1, <2>6, SMTT(120) DEF Elements
  <2>8. Elements(q) \ {n} \subseteq Elements(w)
    <3>1. SUFFICES ASSUME NEW i \in 1..Len(q), i # p
                   PROVE  q[i] \in Elements(w)
      BY <2>1 DEF Elements
    <3>2. CASE i < p
      BY <2>1, <2>6, <3>2 DEF Elements
    <3>3. CASE i > p
      <4>1. i - 1 \in 1..(Len(q) - 1) /\ w[i - 1] = q[i]
        BY <2>1, <2>6, <3>3
      <4> QED
        BY <2>6, <4>1 DEF Elements
    <3> QED
      BY <2>1, <3>1, <3>2, <3>3
  <2>9. ASSUME S \subseteq Nat, Ascending(q)
        PROVE  Ascending(w)
    BY <2>1, <2>6, <2>9, SMTT(120) DEF Ascending
  <2> QED
    BY <2>2, <2>6, <2>7, <2>8, <2>9
<1> QED
  BY <1>1, <1>2

-------------------------------------------------------------------------------
(***************************************************************************)
(* Types: what each step leaves is well typed.                             *)
(***************************************************************************)
\* Packets go to queues of packets.
LEMMA Packets ==
    ASSUME NEW M
    PROVE  /\ \A n \in M : Msg(n) \in Packet(M)
           /\ \A n \in Nat : Receipt(n) \in Packet(M)
           /\ PeerReceiverRuntimeShutdown \in Packet(M)
           /\ \A p \in Packet(M) : /\ p.kind \in {"msg", "receipt", "down"}
                                   /\ p.kind = "msg" => p.n \in M
                                   /\ p.kind = "receipt" => p.n \in Nat
BY DEF Packet, Msg, Receipt, PeerReceiverRuntimeShutdown

\* Queues that one is appended to, taken from or cut short keep their type.
LEMMA Queues ==
    /\ \A S : <<>> \in Seq(S)
    /\ \A S : \A q \in Seq(S), e \in S : Append(q, e) \in Seq(S)
    /\ \A S : \A q \in Seq(S) : q # <<>> => Head(q) \in S /\ Tail(q) \in Seq(S)
    /\ \A S : \A q, r \in Seq(S) : q \o r \in Seq(S)
    /\ \A S, n : \A q \in Seq(S) : Without(q, n) \in Seq(S)
    /\ \A S : \A q \in Seq(S) : \A i \in 0..Len(q) : SubSeq(q, 1, i) \in Seq(S)
<1>1. ASSUME NEW S, NEW q \in Seq(S), NEW i \in 0..Len(q)
      PROVE  SubSeq(q, 1, i) \in Seq(S)
  <2>1. 1 \in Int /\ i \in Int /\ \A j \in 1..i : q[j] \in S
    BY ElementOfSeq, LenProperties
  <2> QED
    BY <2>1, SubSeqProperties
<1> QED
  BY <1>1, EmptySeq, AppendProperties, HeadTailProperties, ConcatProperties, WithoutQueue

\* A part of TypeOK whose variables a step leaves alone holds after it.
LEMMA Frame ==
    ASSUME UNCHANGED sent
    PROVE  /\ Sent' = Sent /\ Replied' = Replied
           /\ SentOK => SentOK'
           /\ TakerOK /\ UNCHANGED taker => TakerOK'
           /\ MakerOK /\ UNCHANGED maker => MakerOK'
           /\ LinkOK /\ UNCHANGED link => LinkOK'
           /\ GoneOK /\ UNCHANGED <<maker, link>> => GoneOK'
           /\ QueueOK /\ UNCHANGED fd => QueueOK'
           /\ SwapOK /\ UNCHANGED swap => SwapOK'
           /\ GotOK /\ UNCHANGED <<handed, got>> => GotOK'
           /\ EnvOK /\ UNCHANGED env => EnvOK'
BY DEF Sent, Replied, SentOK, TakerOK, MakerOK, LinkOK, GoneOK, QueueOK, SwapOK, GotOK, EnvOK

\* Peerds that start have empty queues.
LEMMA InitType == Init => TypeOK
<1> SUFFICES ASSUME Init PROVE TypeOK
  OBVIOUS
<1>1. 1 \in Conn
  BY PeerLinkAssumption DEF Conn
<1>2. SentOK /\ SwapOK /\ QueueOK /\ GotOK
  BY <1>1, Queues DEF Init, SentOK, SwapOK, QueueOK, GotOK
<1>3. TakerOK
  BY <1>1, Queues DEF Init, TakerOK
<1>4. MakerOK
  BY <1>1, Queues DEF Init, MakerOK, Gone, run_from_listener, Process
<1>5. LinkOK
  BY <1>1, Queues DEF Init, LinkOK, Closed, Open
<1>6. GoneOK
  BY <1>1 DEF Init, GoneOK, Gone, run_from_listener, Closed, Open
<1>7. EnvOK
  BY PeerLinkAssumption DEF Init, EnvOK
<1> QED
  BY <1>2, <1>3, <1>4, <1>5, <1>6, <1>7 DEF TypeOK

\* Writing changes one end of one connection, and only if that works.
LEMMA Writes ==
    ASSUME LinkOK, NEW c \in Conn
    PROVE  /\ \A p \in Packet(Sent) : link' = to_maker(c, p) =>
                /\ link' \in [Conn -> [alive : BOOLEAN, toM : Seq(Packet(Sent)),
                                     toT : Seq(Packet(Replied))]]
                /\ \A d \in Conn : /\ link'[d].alive = link[d].alive
                                   /\ link'[d].toT = link[d].toT
                                   /\ d # c \/ ~link[c].alive => link'[d].toM = link[d].toM
                /\ link[c].alive => link'[c].toM = Append(link[c].toM, p)
           /\ \A p \in Packet(Replied) : link' = to_taker(c, p) =>
                /\ link' \in [Conn -> [alive : BOOLEAN, toM : Seq(Packet(Sent)),
                                     toT : Seq(Packet(Replied))]]
                /\ \A d \in Conn : /\ link'[d].alive = link[d].alive
                                   /\ link'[d].toM = link[d].toM
                                   /\ d # c \/ ~link[c].alive => link'[d].toT = link[d].toT
                /\ link[c].alive => link'[c].toT = Append(link[c].toT, p)
<1> DEFINE Links == [Conn -> [alive : BOOLEAN, toM : Seq(Packet(Sent)),
                              toT : Seq(Packet(Replied))]]
<1>1. ASSUME NEW p \in Packet(Sent), link' = to_maker(c, p)
      PROVE  /\ link' \in Links
             /\ \A d \in Conn : /\ link'[d].alive = link[d].alive
                                /\ link'[d].toT = link[d].toT
                                /\ d # c \/ ~link[c].alive => link'[d].toM = link[d].toM
             /\ link[c].alive => link'[c].toM = Append(link[c].toM, p)
  <2>1. Append(link[c].toM, p) \in Seq(Packet(Sent))
    BY Queues DEF LinkOK
  <2>2. CASE link[c].alive
    <3>1. link' = [link EXCEPT ![c].toM = Append(@, p)]
      BY <1>1, <2>2 DEF to_maker
    <3> QED
      BY <2>1, <2>2, <3>1 DEF LinkOK
  <2> QED
    BY <1>1, <2>2 DEF LinkOK, to_maker
<1>2. ASSUME NEW p \in Packet(Replied), link' = to_taker(c, p)
      PROVE  /\ link' \in Links
             /\ \A d \in Conn : /\ link'[d].alive = link[d].alive
                                /\ link'[d].toM = link[d].toM
                                /\ d # c \/ ~link[c].alive => link'[d].toT = link[d].toT
             /\ link[c].alive => link'[c].toT = Append(link[c].toT, p)
  <2>1. Append(link[c].toT, p) \in Seq(Packet(Replied))
    BY Queues DEF LinkOK
  <2>2. CASE link[c].alive
    <3>1. link' = [link EXCEPT ![c].toT = Append(@, p)]
      BY <1>2, <2>2 DEF to_taker
    <3> QED
      BY <2>1, <2>2, <3>1 DEF LinkOK
  <2> QED
    BY <1>2, <2>2 DEF LinkOK, to_taker
<1> QED
  BY <1>1, <1>2

(***************************************************************************)
(* The taker's steps.                                                      *)
(***************************************************************************)
LEMMA TakerSwapSendsType == TypeOK /\ TakerSwapSends => TypeOK'
<1> SUFFICES ASSUME TypeOK, TakerSwapSends PROVE TypeOK'
  OBVIOUS
<1> USE DEF TypeOK, TakerSwapSends
<1>1. SentOK' /\ Replied' = Replied /\ Sent \subseteq Sent' /\ sent.taker + 1 \in Sent'
  BY DEF SentOK, Sent, Replied
<1>2. \A S, T : \A q \in Seq(S) : S \subseteq T => q \in Seq(T)
  BY SeqMonotonic
<1>3. Packet(Sent) \subseteq Packet(Sent')
  BY <1>1 DEF Packet
<1>4. TakerOK'
  BY <1>1, <1>2, Queues DEF TakerOK
<1>5. MakerOK' /\ LinkOK' /\ GoneOK'
  BY <1>1, <1>2, <1>3 DEF MakerOK, LinkOK, GoneOK
<1>6. QueueOK' /\ SwapOK' /\ GotOK' /\ EnvOK'
  BY <1>1 DEF QueueOK, SwapOK, GotOK, EnvOK
<1> QED
  BY <1>1, <1>4, <1>5, <1>6

LEMMA TakerSendsType ==
    TypeOK /\ (taker_handle_msg \/ taker_handle_msg_fails) => TypeOK'
<1> SUFFICES ASSUME TypeOK, NEW n \in 1..sent.taker, takes_msg(n), UNCHANGED sent,
                    UNCHANGED <<maker, fd, swap, handed, got, env>>,
                    \/ /\ link' = to_maker(taker.conn, Msg(n))
                       /\ taker' = [taker EXCEPT !.pc = "loop", !.hand = 0, !.inbox = inbox_left,
                                                 !.cache = unchecked_msg_cache(@, n)]
                    \/ /\ taker' = [taker EXCEPT !.pc = "reconnect", !.hand = n,
                                                 !.inbox = inbox_left]
                       /\ UNCHANGED link
             PROVE  TypeOK'
  BY DEF taker_handle_msg, taker_handle_msg_fails
<1> USE DEF TypeOK
<1>1. n \in Sent /\ Msg(n) \in Packet(Sent) /\ taker.conn \in Conn
  BY Packets DEF Sent, TakerOK
<1>2. inbox_left \in Seq(Sent) /\ unchecked_msg_cache(taker.cache, n) \in Seq(Sent)
  BY <1>1, Queues DEF TakerOK, takes_msg, inbox_left, unchecked_msg_cache
<1>3. taker.again = <<>>
  BY DEF takes_msg, TakerOK
<1>4. TakerOK'
  BY <1>1, <1>2, <1>3, Frame, ZenonT(120) DEF TakerOK
<1>5. LinkOK' /\ GoneOK'
  BY <1>1, Writes, Frame, ZenonT(120) DEF LinkOK, GoneOK
<1> QED
  BY <1>4, <1>5, Frame

LEMMA TakerBridgeType == TypeOK /\ taker_handle_bridge => TypeOK'
<1> SUFFICES ASSUME TypeOK, taker_handle_bridge PROVE TypeOK'
  OBVIOUS
<1> USE DEF TypeOK
<1> DEFINE p == Head(taker.bridge)
<1>1. /\ UNCHANGED sent /\ taker.bridge # <<>> /\ taker.pc = "loop"
      /\ UNCHANGED <<maker, fd, swap, handed, env>>
  BY DEF taker_handle_bridge
<1>2. /\ p \in Packet(Replied) /\ Tail(taker.bridge) \in Seq(Packet(Replied))
      /\ taker.conn \in Conn
  BY <1>1, Queues DEF TakerOK
<1>3. CASE taker_forwards(p)
  <2>1. p.n \in Replied /\ Receipt(p.n) \in Packet(Sent)
    <3>1. p.n \in Replied
      BY <1>2, <1>3, Packets DEF taker_forwards
    <3>2. p.n \in Nat
      BY <3>1 DEF Replied
    <3> QED
      BY <3>1, <3>2, Packets
  <2>2. TakerOK'
    BY <1>1, <1>2, <1>3, Frame DEF TakerOK, taker_forwards
  <2>3. LinkOK' /\ GoneOK'
    BY <1>1, <1>2, <1>3, <2>1, Frame, Writes, ZenonT(120) DEF LinkOK, GoneOK, taker_forwards
  <2>4. GotOK'
    BY <1>1, <1>3, <2>1, Frame DEF GotOK, taker_forwards
  <2> QED
    BY <1>1, <2>2, <2>3, <2>4, Frame
<1>4. CASE taker_receipt(p)
  <2>1. TakerOK'
    BY <1>1, <1>2, <1>4, Frame, Queues DEF TakerOK, taker_receipt
  <2> QED
    BY <1>1, <1>4, <2>1, Frame DEF taker_receipt
<1>5. CASE taker_shutdown(p)
  <2>1. TakerOK'
    BY <1>1, <1>2, <1>5, Frame DEF TakerOK, taker_shutdown
  <2> QED
    BY <1>1, <1>5, <2>1, Frame DEF taker_shutdown
<1> QED
  BY <1>3, <1>4, <1>5 DEF taker_handle_bridge

LEMMA ReconnectType == TypeOK /\ reconnect_peer => TypeOK'
<1> SUFFICES ASSUME TypeOK, NEW c \in Conn, Unused(c), UNCHANGED sent,
                    taker.pc = "reconnect",
                    taker' = [taker EXCEPT !.pc = "resend", !.again = taker.cache,
                                           !.conn = c, !.reads = TRUE],
                    maker' = [maker EXCEPT ![c] = run_from_listener],
                    link' = [link EXCEPT ![taker.conn] = LeftBehind(@), ![c] = Open],
                    UNCHANGED <<fd, swap, handed, got, env>>
             PROVE  TypeOK'
  BY DEF reconnect_peer
<1> USE DEF TypeOK
<1>1. TakerOK'
  BY Frame DEF TakerOK
<1>2. MakerOK'
  BY Frame, Queues DEF MakerOK, run_from_listener, Gone, Process
<1>3. LinkOK'
  BY Frame, Queues DEF LinkOK, LeftBehind, Open, TakerOK
<1>4. GoneOK'
  BY DEF GoneOK, run_from_listener, Gone, LeftBehind, Open, TakerOK, LinkOK, MakerOK
<1> QED
  BY <1>1, <1>2, <1>3, <1>4, Frame

LEMMA ResendType ==
    TypeOK /\ (resend_cached \/ resend_fails \/ reconnected) => TypeOK'
<1> SUFFICES ASSUME TypeOK, resend_cached \/ resend_fails \/ reconnected PROVE TypeOK'
  OBVIOUS
<1> USE DEF TypeOK
<1>1. UNCHANGED <<maker, fd, swap, sent, handed, got, env>>
  BY DEF resend_cached, resend_fails, reconnected
<1>2. CASE resend_cached
  <2>1. /\ Head(taker.again) \in Sent /\ Tail(taker.again) \in Seq(Sent) /\ taker.conn \in Conn
        /\ Msg(Head(taker.again)) \in Packet(Sent)
    BY <1>2, Queues, Packets DEF TakerOK, resend_cached
  <2>2. TakerOK'
    BY <1>1, <1>2, <2>1, Frame DEF TakerOK, resend_cached
  <2>3. LinkOK' /\ GoneOK'
    BY <1>1, <1>2, <2>1, Frame, Writes, ZenonT(120) DEF LinkOK, GoneOK, resend_cached
  <2> QED
    BY <1>1, <2>2, <2>3, Frame
<1>3. CASE resend_fails
  <2>1. TakerOK'
    BY <1>1, <1>3, Frame, Queues DEF TakerOK, resend_fails
  <2> QED
    BY <1>1, <1>3, <2>1, Frame DEF resend_fails
<1>4. CASE reconnected
  <2>1. TakerOK'
    BY <1>1, <1>4, Frame DEF TakerOK, reconnected
  <2> QED
    BY <1>1, <1>4, <2>1, Frame DEF reconnected
<1> QED
  BY <1>2, <1>3, <1>4

LEMMA TakerReadsType == TypeOK /\ (taker_reads \/ taker_reader_ends) => TypeOK'
<1> SUFFICES ASSUME TypeOK, taker_reads \/ taker_reader_ends PROVE TypeOK'
  OBVIOUS
<1> USE DEF TypeOK
<1>1. UNCHANGED <<maker, fd, swap, sent, handed, got, env>> /\ taker.conn \in Conn
  BY DEF taker_reads, taker_reader_ends, TakerOK
<1>2. CASE taker_reads
  <2>1. /\ Head(link[taker.conn].toT) \in Packet(Replied)
        /\ Tail(link[taker.conn].toT) \in Seq(Packet(Replied))
    BY <1>1, <1>2, Queues DEF LinkOK, taker_reads
  <2>2. TakerOK'
    BY <1>1, <1>2, <2>1, Frame, Queues DEF TakerOK, taker_reads
  <2>3. LinkOK' /\ GoneOK'
    BY <1>1, <1>2, <2>1, Frame DEF LinkOK, GoneOK, taker_reads
  <2> QED
    BY <1>1, <2>2, <2>3, Frame
<1>3. CASE taker_reader_ends
  <2>1. TakerOK'
    BY <1>1, <1>3, Frame, Queues, Packets DEF TakerOK, taker_reader_ends
  <2> QED
    BY <1>1, <1>3, <2>1, Frame DEF taker_reader_ends
<1> QED
  BY <1>2, <1>3

(***************************************************************************)
(* The steps of the maker's side.                                          *)
(***************************************************************************)
LEMMA MakerSwapSendsType == TypeOK /\ MakerSwapSends => TypeOK'
<1> SUFFICES ASSUME TypeOK, MakerSwapSends PROVE TypeOK'
  OBVIOUS
<1> USE DEF TypeOK
<1>1. /\ SentOK' /\ Sent' = Sent /\ Replied \subseteq Replied' /\ sent.maker + 1 \in Replied'
      /\ UNCHANGED <<taker, link, fd, handed, got, env>>
  BY DEF SentOK, Sent, Replied, MakerSwapSends
<1>2. \A S, T : \A q \in Seq(S) : S \subseteq T => q \in Seq(T)
  BY SeqMonotonic
<1>3. Packet(Replied) \subseteq Packet(Replied')
  BY <1>1 DEF Packet
<1>4. TakerOK' /\ LinkOK'
  BY <1>1, <1>2, <1>3 DEF TakerOK, LinkOK
<1>5. QueueOK' /\ GotOK' /\ EnvOK'
  BY <1>1 DEF QueueOK, GotOK, EnvOK
<1>6. swap.peer \in Conn
  BY DEF SwapOK
<1>7. CASE maker[swap.peer] = Gone
  <2>1. swap' = [swap EXCEPT !.pending = Append(@, sent.maker + 1)] /\ UNCHANGED maker
    BY <1>7 DEF MakerSwapSends
  <2>2. SwapOK'
    BY <1>1, <1>2, <2>1, Queues DEF SwapOK
  <2>3. MakerOK' /\ GoneOK'
    BY <1>1, <1>2, <2>1 DEF MakerOK, GoneOK
  <2> QED
    BY <1>1, <1>4, <1>5, <2>2, <2>3
<1>8. CASE maker[swap.peer] # Gone
  <2>1. /\ maker' = [maker EXCEPT ![swap.peer].inbox = Append(@, sent.maker + 1)]
        /\ UNCHANGED swap
    BY <1>8 DEF MakerSwapSends
  <2>2. SwapOK'
    BY <1>1, <1>2, <2>1 DEF SwapOK
  <2>3. MakerOK'
    <3>1. Append(maker[swap.peer].inbox, sent.maker + 1) \in Seq(Replied')
      BY <1>1, <1>2, <1>6, Queues DEF MakerOK
    <3>2. \A c \in Conn : maker[c].inbox \in Seq(Replied') /\ maker[c].cache \in Seq(Replied')
      BY <1>1, <1>2 DEF MakerOK
    <3> QED
      BY <1>1, <1>6, <2>1, <3>1, <3>2 DEF MakerOK
  <2>4. GoneOK'
    BY <1>1, <1>6, <1>8, <2>1 DEF MakerOK, GoneOK
  <2> QED
    BY <1>1, <1>4, <1>5, <2>2, <2>3, <2>4
<1> QED
  BY <1>7, <1>8

LEMMA MakerMainType ==
    ASSUME TypeOK, NEW c \in Conn, maker_starts(c) \/ maker_handle_msg(c) \/ maker_handle_msg_fails(c)
    PROVE  TypeOK'
<1> USE DEF TypeOK
<1>1. UNCHANGED <<taker, sent, handed, got, env>>
  BY DEF maker_starts, maker_handle_msg, maker_handle_msg_fails
<1>2. CASE maker_starts(c)
  <2>1. MakerOK' /\ GoneOK'
    BY <1>1, <1>2, Frame DEF MakerOK, GoneOK, Process, maker_starts
  <2>2. QueueOK'
    BY <1>2, Queues DEF QueueOK, Hello, maker_starts
  <2> QED
    BY <1>1, <1>2, <2>1, <2>2, Frame DEF maker_starts
<1>3. CASE maker_handle_msg(c)
  <2> DEFINE n == Head(maker[c].inbox)
  <2>1. /\ n \in Replied /\ Msg(n) \in Packet(Replied) /\ Tail(maker[c].inbox) \in Seq(Replied)
        /\ maker[c].st # "gone"
        /\ unchecked_msg_cache(maker[c].cache, n) \in Seq(Replied)
    BY <1>3, Queues, Packets DEF maker_handle_msg, MakerOK, unchecked_msg_cache, Runs
  <2>2. MakerOK' /\ (GoneOK /\ link' = link => GoneOK')
    BY <1>1, <1>3, <2>1, Frame, ZenonT(120) DEF MakerOK, GoneOK, maker_handle_msg
  <2>3. LinkOK' /\ GoneOK'
    BY <1>1, <1>3, <2>1, Frame, Writes, SMTT(120) DEF LinkOK, MakerOK, GoneOK, maker_handle_msg
  <2> QED
    BY <1>1, <1>3, <2>2, <2>3, Frame DEF maker_handle_msg
<1>4. CASE maker_handle_msg_fails(c)
  <2>1. Tail(maker[c].inbox) \in Seq(Replied) /\ maker[c].st # "gone" /\ <<>> \in Seq(Replied)
    BY <1>4, Queues DEF maker_handle_msg_fails, MakerOK, Runs
  <2>2. MakerOK' /\ GoneOK'
    BY <1>1, <1>4, <2>1, Frame, ZenonT(120) DEF MakerOK, GoneOK, maker_handle_msg_fails
  <2>3. SwapOK'
    BY <1>1, <1>4, Frame, Queues DEF SwapOK, MakerOK, maker_handle_msg_fails, FailedPeerMessages
  <2>4. QueueOK'
    BY <1>4, Queues DEF QueueOK, PeerdTerminated, maker_handle_msg_fails
  <2> QED
    BY <1>1, <1>4, <2>2, <2>3, <2>4, Frame DEF maker_handle_msg_fails
<1> QED
  BY <1>2, <1>3, <1>4

LEMMA MakerBridgeType ==
    ASSUME TypeOK, NEW c \in Conn, maker_handle_bridge(c)
    PROVE  TypeOK'
<1> USE DEF TypeOK
<1> DEFINE p == Head(maker[c].bridge)
<1>1. /\ UNCHANGED <<taker, sent, env>> /\ maker[c].st # "gone"
      /\ p \in Packet(Sent) /\ Tail(maker[c].bridge) \in Seq(Packet(Sent))
      /\ \/ maker_forwards(c, p) \/ maker_confirm_fails(c, p)
         \/ maker_receipt(c, p) \/ maker_shutdown(c, p)
  BY Queues DEF maker_handle_bridge, MakerOK, Runs
<1>2. CASE maker_forwards(c, p)
  <2>1. p.n \in Sent
    BY <1>1, <1>2, Packets DEF maker_forwards
  <2>2. p.n \in Nat
    BY <2>1 DEF Sent
  <2>3. Receipt(p.n) \in Packet(Replied)
    BY <2>2, Packets
  <2>4. MakerOK'
    BY <1>1, <1>2, Frame DEF MakerOK, maker_forwards
  <2>5. LinkOK' /\ GoneOK'
    BY <1>1, <1>2, <2>3, Frame, Writes, ZenonT(120) DEF LinkOK, MakerOK, GoneOK, maker_forwards
  <2>6. GotOK'
    BY <1>1, <1>2, <2>1, Frame DEF GotOK, maker_forwards, hands_on
  <2> QED
    BY <1>1, <1>2, <2>4, <2>5, <2>6, Frame DEF maker_forwards
<1>3. CASE maker_receipt(c, p)
  <2>1. Without(maker[c].cache, p.n) \in Seq(Replied)
    BY Queues DEF MakerOK
  <2>2. MakerOK' /\ GoneOK'
    BY <1>1, <1>3, <2>1, Frame, ZenonT(120) DEF MakerOK, GoneOK, maker_receipt
  <2> QED
    BY <1>1, <1>3, <2>2, Frame DEF maker_receipt
<1>4. CASE maker_shutdown(c, p)
  <2>1. MakerOK' /\ GoneOK'
    BY <1>1, <1>4, Frame, Queues, ZenonT(120) DEF MakerOK, GoneOK, maker_shutdown
  <2>2. SwapOK'
    BY <1>1, <1>4, Frame, Queues DEF SwapOK, MakerOK, maker_shutdown, FailedPeerMessages
  <2>3. QueueOK'
    BY <1>4, Queues DEF QueueOK, PeerdTerminated, maker_shutdown
  <2> QED
    BY <1>1, <1>4, <2>1, <2>2, <2>3, Frame DEF maker_shutdown
<1>5. CASE maker_confirm_fails(c, p)
  <2>1. MakerOK' /\ GoneOK'
    BY <1>1, <1>5, Frame, Queues, ZenonT(120) DEF MakerOK, GoneOK, maker_confirm_fails
  <2>2. SwapOK'
    BY <1>1, <1>5, Frame, Queues DEF SwapOK, MakerOK, maker_confirm_fails, FailedPeerMessages
  <2>3. QueueOK'
    BY <1>5, Queues DEF QueueOK, PeerdTerminated, maker_confirm_fails
  <2>4. TakerCommit \in Sent
    BY <1>1, <1>5, Packets DEF maker_confirm_fails, Msg
  <2>5. GotOK'
    BY <1>1, <1>5, <2>4, Frame DEF GotOK, maker_confirm_fails, hands_on
  <2> QED
    BY <1>1, <1>5, <2>1, <2>2, <2>3, <2>5, Frame DEF maker_confirm_fails
<1> QED
  BY <1>1, <1>2, <1>3, <1>4, <1>5

LEMMA MakerEndsType ==
    ASSUME TypeOK, NEW c \in Conn, maker_terminates(c) \/ maker_reads(c) \/ maker_reader_ends(c)
    PROVE  TypeOK'
<1> USE DEF TypeOK
<1>1. UNCHANGED <<taker, fd, sent, handed, got, env>>
  BY DEF maker_terminates, maker_reads, maker_reader_ends
<1>2. CASE maker_terminates(c)
  <2>1. MakerOK'
    BY <1>1, <1>2, Frame, Queues DEF MakerOK, maker_terminates, Gone, Process
  <2>2. LinkOK'
    BY <1>1, <1>2, Frame, Queues DEF LinkOK, maker_terminates
  <2>3. GoneOK'
    BY <1>1, <1>2 DEF GoneOK, MakerOK, LinkOK, maker_terminates
  <2>4. SwapOK'
    BY <1>1, <1>2, Frame, Queues DEF SwapOK, MakerOK, maker_terminates, FailedPeerMessages
  <2> QED
    BY <1>1, <1>2, <2>1, <2>2, <2>3, <2>4, Frame
<1>3. CASE maker_reads(c)
  <2>1. /\ Head(link[c].toM) \in Packet(Sent) /\ Tail(link[c].toM) \in Seq(Packet(Sent))
        /\ link[c].toM # <<>>
    BY <1>3, Queues DEF LinkOK, maker_reads
  <2>2. Append(maker[c].bridge, Head(link[c].toM)) \in Seq(Packet(Sent))
    BY <2>1, Queues DEF MakerOK
  <2>3. MakerOK'
    BY <1>1, <1>3, <2>2, Frame DEF MakerOK, maker_reads
  <2>4. LinkOK'
    BY <1>1, <1>3, <2>1, Frame DEF LinkOK, maker_reads
  <2>5. GoneOK'
    BY <1>1, <1>3, <2>1 DEF GoneOK, MakerOK, LinkOK, maker_reads
  <2> QED
    BY <1>1, <1>3, <2>3, <2>4, <2>5, Frame DEF maker_reads
<1>4. CASE maker_reader_ends(c)
  <2>1. Append(maker[c].bridge, PeerReceiverRuntimeShutdown) \in Seq(Packet(Sent))
    BY Queues, Packets DEF MakerOK
  <2>2. MakerOK'
    BY <1>1, <1>4, <2>1, Frame DEF MakerOK, maker_reader_ends
  <2>3. GoneOK'
    BY <1>1, <1>4 DEF GoneOK, MakerOK, LinkOK, maker_reader_ends, Gone
  <2> QED
    BY <1>1, <1>4, <2>2, <2>3, Frame DEF maker_reader_ends
<1> QED
  BY <1>2, <1>3, <1>4

LEMMA FarcasterdType == TypeOK /\ farcasterd_handles => TypeOK'
<1> SUFFICES ASSUME TypeOK, farcasterd_handles PROVE TypeOK'
  OBVIOUS
<1> USE DEF TypeOK
<1> DEFINE m == Head(fd)
<1>1. /\ UNCHANGED <<taker, link, sent, handed, got, env>> /\ QueueOK' /\ m.conn \in Conn
      /\ PeerdReconnected(m.conn) \/ handle_failed_connection(m.conn)
  <2>1. /\ m \in [msg : {"Hello", "PeerdTerminated"}, conn : Conn] /\ QueueOK'
        /\ UNCHANGED <<taker, link, sent, handed, got, env>>
    BY Queues DEF farcasterd_handles, QueueOK
  <2>2. PeerdReconnected(m.conn) \/ handle_failed_connection(m.conn)
    BY DEF farcasterd_handles
  <2> QED
    BY <2>1, <2>2
<1>2. CASE PeerdReconnected(m.conn)
  <2>1. SwapOK'
    BY <1>1, <1>2, Frame, Queues DEF SwapOK, PeerdReconnected
  <2>2. maker[m.conn].inbox \o swap.pending \in Seq(Replied)
    BY <1>1, Queues DEF MakerOK, SwapOK
  <2>3. MakerOK'
    BY <1>1, <1>2, <2>2, Frame DEF MakerOK, PeerdReconnected
  <2>4. GoneOK'
    BY <1>1, <1>2 DEF GoneOK, MakerOK, PeerdReconnected
  <2> QED
    BY <1>1, <2>1, <2>3, <2>4, Frame
<1>3. CASE handle_failed_connection(m.conn)
  <2>1. MakerOK' /\ GoneOK'
    BY <1>1, <1>3, Frame, ZenonT(120) DEF MakerOK, GoneOK, Process, handle_failed_connection
  <2> QED
    BY <1>1, <1>3, <2>1, Frame DEF handle_failed_connection
<1> QED
  BY <1>1, <1>2, <1>3

LEMMA BreakType ==
    ASSUME TypeOK, NEW c \in Conn, Break(c)
    PROVE  TypeOK'
<1> USE DEF TypeOK
<1>1. UNCHANGED <<taker, maker, fd, swap, sent, handed, got>>
  BY DEF Break
<1>2. PICK i \in 0..Len(link[c].toM), j \in 0..Len(link[c].toT) :
        link' = [link EXCEPT ![c] = [alive |-> FALSE, toM |-> SubSeq(@.toM, 1, i),
                                     toT |-> SubSeq(@.toT, 1, j)]]
  BY DEF Break
<1>3. SubSeq(link[c].toM, 1, i) \in Seq(Packet(Sent)) /\ SubSeq(link[c].toT, 1, j) \in Seq(Packet(Replied))
  BY Queues DEF LinkOK
<1>4. LinkOK'
  BY <1>1, <1>2, <1>3, Frame DEF LinkOK
<1>5. GoneOK'
  BY <1>1, <1>2 DEF GoneOK, LinkOK, Break
<1>6. EnvOK'
  <2>1. env.breaks \in Nat /\ env.breaks > 0 /\ env' = [env EXCEPT !.breaks = env.breaks - 1]
    BY DEF EnvOK, Break
  <2>2. env.breaks - 1 \in Nat
    BY <2>1
  <2> QED
    BY <2>1, <2>2 DEF EnvOK
<1> QED
  BY <1>1, <1>4, <1>5, <1>6, Frame

LEMMA TypeStep == TypeOK /\ [Next]_vars => TypeOK'
<1> SUFFICES ASSUME TypeOK, [Next]_vars PROVE TypeOK'
  OBVIOUS
<1>1. CASE TakerNext
  BY <1>1, TakerSwapSendsType, TakerSendsType, TakerBridgeType, ReconnectType, ResendType,
     TakerReadsType DEF TakerNext
<1>2. CASE MakerNext
  BY <1>2, MakerSwapSendsType, MakerMainType, MakerBridgeType, MakerEndsType, FarcasterdType
  DEF MakerNext
<1>3. CASE \E c \in Conn : Break(c)
  BY <1>3, BreakType
<1>4. CASE UNCHANGED vars
  BY <1>4, Frame DEF vars, TypeOK
<1> QED
  BY <1>1, <1>2, <1>3, <1>4 DEF Next

(***************************************************************************)
(* In every state of the two peerds all queues hold messages that were     *)
(* sent, and a process that is gone leaves nothing behind (run_from_...,   *)
(* handle_ctl on Terminate).                                               *)
(***************************************************************************)
THEOREM LinkTypeCorrect == Spec => []TypeOK
BY InitType, TypeStep, PTL DEF Spec

-------------------------------------------------------------------------------
(***************************************************************************)
(* Receipts: none before the message is handed on.                         *)
(***************************************************************************)
LEMMA ConfirmedQueue ==
    ASSUME NEW M, NEW q \in Seq(Packet(M)), NEW H, Confirmed(q, H)
    PROVE  /\ \A G : H \subseteq G => Confirmed(q, G)
           /\ \A p \in Packet(M) :
                (p.kind = "receipt" => p.n \in H) => Confirmed(Append(q, p), H)
           /\ q # <<>> => /\ Confirmed(Tail(q), H)
                          /\ Head(q).kind = "receipt" => Head(q).n \in H
           /\ \A i \in 0..Len(q) : Confirmed(SubSeq(q, 1, i), H)
<1>1. \A G : H \subseteq G => Confirmed(q, G)
  BY DEF Confirmed
<1>2. ASSUME NEW p \in Packet(M), p.kind = "receipt" => p.n \in H
      PROVE  Confirmed(Append(q, p), H)
  BY <1>2, AppendProperties, LenProperties DEF Confirmed
<1>3. ASSUME q # <<>>
      PROVE  /\ Confirmed(Tail(q), H)
             /\ Head(q).kind = "receipt" => Head(q).n \in H
  BY <1>3, EmptySeq, LenProperties, HeadTailProperties DEF Confirmed
<1>4. ASSUME NEW i \in 0..Len(q)
      PROVE  Confirmed(SubSeq(q, 1, i), H)
  <2>1. /\ SubSeq(q, 1, i) \in Seq(Packet(M)) /\ Len(SubSeq(q, 1, i)) = i
        /\ \A j \in 1..i : SubSeq(q, 1, i)[j] = q[j]
    <3>1. 1 \in Int /\ i \in Int /\ \A j \in 1..i : q[j] \in Packet(M)
      BY ElementOfSeq, LenProperties
    <3>2. /\ SubSeq(q, 1, i) \in Seq(Packet(M))
          /\ Len(SubSeq(q, 1, i)) = IF 1 <= i THEN i - 1 + 1 ELSE 0
          /\ \A j \in 1..(i - 1 + 1) : SubSeq(q, 1, i)[j] = q[1 + j - 1]
      BY <3>1, SubSeqProperties
    <3> QED
      BY <3>1, <3>2
  <2> QED
    BY <2>1, LenProperties DEF Confirmed
<1> QED
  BY <1>1, <1>2, <1>3, <1>4

\* Most steps send no receipt and read none.
LEMMA ReceiptsFrame ==
    ASSUME TypeOK, ReceiptsTrue, taker'.bridge = taker.bridge, handed \subseteq handed',
           \A c \in Conn : link'[c].toT = link[c].toT
    PROVE  ReceiptsTrue'
BY ConfirmedQueue DEF ReceiptsTrue, TypeOK, TakerOK, LinkOK

LEMMA ReceiptsStep == TypeOK /\ ReceiptsTrue /\ [Next]_vars => ReceiptsTrue'
<1> SUFFICES ASSUME TypeOK, ReceiptsTrue, [Next]_vars PROVE ReceiptsTrue'
  OBVIOUS
<1>0. /\ TakerOK /\ MakerOK /\ LinkOK /\ GotOK /\ taker.conn \in Conn
      /\ taker.bridge \in Seq(Packet(Replied))
      /\ \A c \in Conn : link[c].toT \in Seq(Packet(Replied))
      /\ \A c \in Conn : link[c].toM \in Seq(Packet(Sent))
  BY DEF TypeOK, TakerOK, LinkOK
<1>1. ASSUME TakerSwapSends \/ reconnected \/ resend_fails \/ taker_handle_msg_fails
      PROVE  ReceiptsTrue'
  BY <1>0, <1>1, ReceiptsFrame
  DEF TakerOK, TakerSwapSends, reconnected, resend_fails, taker_handle_msg_fails
<1>2. ASSUME taker_handle_msg PROVE ReceiptsTrue'
  <2>1. PICK n \in Sent : /\ link' = to_maker(taker.conn, Msg(n)) /\ UNCHANGED handed
                          /\ taker'.bridge = taker.bridge
    BY <1>0, <1>2 DEF taker_handle_msg, TakerOK, Sent
  <2> QED
    BY <1>0, <2>1, Writes, Packets, ReceiptsFrame
<1>3. ASSUME resend_cached PROVE ReceiptsTrue'
  <2>1. /\ Head(taker.again) \in Sent /\ taker'.bridge = taker.bridge /\ UNCHANGED handed
        /\ link' = to_maker(taker.conn, Msg(Head(taker.again)))
    BY <1>0, <1>3, Queues DEF resend_cached, TakerOK
  <2> QED
    BY <1>0, <2>1, Writes, Packets, ReceiptsFrame
<1>4. ASSUME reconnect_peer PROVE ReceiptsTrue'
  <2>1. \A c \in Conn : link'[c].toT \in {link[c].toT, <<>>}
    <3>1. PICK c \in Conn :
            link' = [link EXCEPT ![taker.conn] = LeftBehind(@), ![c] = Open]
      BY <1>4 DEF reconnect_peer
    <3> QED
      BY <1>0, <3>1 DEF LinkOK, LeftBehind, Open
  <2>2. taker'.bridge = taker.bridge /\ UNCHANGED handed /\ \A H : Confirmed(<<>>, H)
    BY <1>0, <1>4, EmptySeq DEF reconnect_peer, TakerOK, Confirmed
  <2> QED
    BY <2>1, <2>2 DEF ReceiptsTrue
<1>5. ASSUME taker_handle_bridge PROVE ReceiptsTrue'
  <2> DEFINE p == Head(taker.bridge)
  <2>1. /\ UNCHANGED handed /\ taker'.bridge = Tail(taker.bridge) /\ taker.bridge # <<>>
    BY <1>0, <1>5 DEF taker_handle_bridge, taker_forwards, taker_receipt, taker_shutdown, TakerOK
  <2>2. Confirmed(taker'.bridge, handed')
    BY <1>0, <2>1, ConfirmedQueue DEF ReceiptsTrue
  <2>3. \A c \in Conn : link'[c].toT = link[c].toT
    <3>1. CASE taker_forwards(p)
      <4>1. p.n \in Nat
        <5>1. p.n \in Replied
          BY <1>0, <2>1, <3>1, Queues, Packets DEF taker_forwards
        <5> QED
          BY <5>1 DEF Replied
      <4> QED
        BY <1>0, <3>1, <4>1, Writes, Packets DEF taker_forwards
    <3>2. CASE taker_receipt(p) \/ taker_shutdown(p)
      BY <3>2 DEF taker_receipt, taker_shutdown
    <3> QED
      BY <1>5, <3>1, <3>2 DEF taker_handle_bridge
  <2> QED
    BY <2>1, <2>2, <2>3 DEF ReceiptsTrue
<1>6. ASSUME taker_reads PROVE ReceiptsTrue'
  <2> DEFINE q == link[taker.conn].toT
  <2>1. /\ q # <<>> /\ q \in Seq(Packet(Replied)) /\ Confirmed(q, handed) /\ UNCHANGED handed
        /\ taker'.bridge = Append(taker.bridge, Head(q))
        /\ \A c \in Conn : link'[c].toT = IF c = taker.conn THEN Tail(q) ELSE link[c].toT
    BY <1>0, <1>6 DEF taker_reads, TakerOK, LinkOK, ReceiptsTrue
  <2>2. Head(q) \in Packet(Replied) /\ Confirmed(Tail(q), handed)
        /\ (Head(q).kind = "receipt" => Head(q).n \in handed)
    BY <2>1, Queues, ConfirmedQueue
  <2>3. Confirmed(taker'.bridge, handed)
    BY <1>0, <2>1, <2>2, ConfirmedQueue DEF ReceiptsTrue
  <2> QED
    BY <2>1, <2>2, <2>3 DEF ReceiptsTrue
<1>7. ASSUME taker_reader_ends PROVE ReceiptsTrue'
  <2>1. /\ taker'.bridge = Append(taker.bridge, PeerReceiverRuntimeShutdown)
        /\ UNCHANGED <<handed, link>>
    BY <1>0, <1>7 DEF taker_reader_ends, TakerOK
  <2>2. PeerReceiverRuntimeShutdown.kind # "receipt" /\ PeerReceiverRuntimeShutdown \in Packet(Replied)
    BY Packets DEF PeerReceiverRuntimeShutdown
  <2>3. Confirmed(taker'.bridge, handed')
    BY <1>0, <2>1, <2>2, ConfirmedQueue DEF ReceiptsTrue
  <2> QED
    BY <2>1, <2>3 DEF ReceiptsTrue
<1>8. ASSUME MakerSwapSends \/ farcasterd_handles PROVE ReceiptsTrue'
  BY <1>8, ReceiptsFrame DEF MakerSwapSends, farcasterd_handles
<1>9. ASSUME NEW c \in Conn,
             \/ maker_starts(c) \/ maker_handle_msg_fails(c) \/ maker_terminates(c)
             \/ maker_reads(c) \/ maker_reader_ends(c)
      PROVE  ReceiptsTrue'
  <2>1. UNCHANGED <<taker, handed>>
    BY <1>9 DEF maker_starts, maker_handle_msg_fails, maker_terminates, maker_reads, maker_reader_ends
  <2>2. CASE UNCHANGED link
    BY <2>1, <2>2, ReceiptsFrame
  <2>3. CASE maker_terminates(c) \/ maker_reads(c)
    <3>1. \A d \in Conn : link'[d].toT = link[d].toT
      BY <1>0, <2>3 DEF LinkOK, maker_terminates, maker_reads
    <3> QED
      BY <2>1, <3>1, ReceiptsFrame
  <2> QED
    BY <1>9, <2>2, <2>3 DEF maker_starts, maker_handle_msg_fails, maker_reader_ends
<1>10. ASSUME NEW c \in Conn, NEW p \in Packet(Replied), link' = to_taker(c, p),
              taker' = taker, handed \subseteq handed', p.kind = "receipt" => p.n \in handed'
       PROVE  ReceiptsTrue'
  <2>1. /\ Confirmed(taker.bridge, handed')
        /\ \A d \in Conn : Confirmed(link[d].toT, handed')
    BY <1>0, <1>10, ConfirmedQueue DEF ReceiptsTrue
  <2>2. Confirmed(Append(link[c].toT, p), handed')
    BY <1>0, <1>10, <2>1, ConfirmedQueue
  <2>3. /\ \A d \in Conn : d # c \/ ~link[c].alive => link'[d].toT = link[d].toT
        /\ link[c].alive => link'[c].toT = Append(link[c].toT, p)
    BY <1>0, <1>10, Writes
  <2> QED
    BY <1>10, <2>1, <2>2, <2>3 DEF ReceiptsTrue
<1>11. ASSUME NEW c \in Conn, maker_handle_msg(c) PROVE ReceiptsTrue'
  <2>1. /\ Head(maker[c].inbox) \in Replied /\ link' = to_taker(c, Msg(Head(maker[c].inbox)))
        /\ UNCHANGED <<taker, handed>>
    BY <1>0, <1>11, Queues DEF maker_handle_msg, MakerOK
  <2>2. Msg(Head(maker[c].inbox)) \in Packet(Replied) /\ Msg(Head(maker[c].inbox)).kind # "receipt"
    BY <2>1, Packets DEF Msg
  <2> QED
    BY <1>10, <2>1, <2>2
<1>12. ASSUME NEW c \in Conn, maker_handle_bridge(c) PROVE ReceiptsTrue'
  <2> DEFINE p == Head(maker[c].bridge)
  <2>1. CASE maker_forwards(c, p)
    <3>1. p.n \in Nat
      <4>1. p.n \in Sent
        BY <1>0, <1>12, <2>1, Queues, Packets DEF MakerOK, maker_handle_bridge, maker_forwards
      <4> QED
        BY <4>1 DEF Sent
    <3>2. /\ link' = to_taker(c, Receipt(p.n)) /\ taker' = taker /\ handed' = handed \cup {p.n}
      BY <1>12, <2>1 DEF maker_handle_bridge, maker_forwards, hands_on
    <3>3. Receipt(p.n) \in Packet(Replied) /\ Receipt(p.n).n = p.n
      BY <3>1, Packets DEF Receipt
    <3> QED
      BY <1>10, <3>2, <3>3
  <2>2. CASE maker_receipt(c, p) \/ maker_shutdown(c, p)
    BY <1>12, <2>2, ReceiptsFrame DEF maker_handle_bridge, maker_receipt, maker_shutdown
  <2>3. CASE maker_confirm_fails(c, p)
    <3>1. UNCHANGED <<taker, link>> /\ handed \subseteq handed'
      BY <1>12, <2>3 DEF maker_handle_bridge, maker_confirm_fails, hands_on
    <3> QED
      BY <3>1 DEF ReceiptsTrue, Confirmed
  <2> QED
    BY <1>12, <2>1, <2>2, <2>3 DEF maker_handle_bridge
<1>13. ASSUME NEW c \in Conn, Break(c) PROVE ReceiptsTrue'
  <2>1. PICK j \in 0..Len(link[c].toT) :
          \A d \in Conn : link'[d].toT = IF d = c THEN SubSeq(link[c].toT, 1, j) ELSE link[d].toT
    BY <1>0, <1>13 DEF Break, LinkOK
  <2>2. UNCHANGED <<taker, handed>>
    BY <1>13 DEF Break
  <2> QED
    BY <1>0, <2>1, <2>2, ConfirmedQueue DEF ReceiptsTrue
<1>14. ASSUME UNCHANGED vars PROVE ReceiptsTrue'
  BY <1>14 DEF vars, ReceiptsTrue
<1> QED
  BY <1>1, <1>2, <1>3, <1>4, <1>5, <1>6, <1>7, <1>8, <1>9, <1>11, <1>12, <1>13, <1>14
  DEF Next, TakerNext, MakerNext

(***************************************************************************)
(* The taker's peerd takes a message out of unchecked_msg_cache only when  *)
(* a peerd of the maker has handed it to the bus (handle_bridge, Receipt). *)
(***************************************************************************)
THEOREM NoFalseReceipt == Spec => []ReceiptsTrue
<1>1. Init => ReceiptsTrue
  BY EmptySeq DEF Init, ReceiptsTrue, Confirmed, Open, Closed
<1> QED
  BY <1>1, LinkTypeCorrect, ReceiptsStep, PTL DEF Spec

-------------------------------------------------------------------------------
(***************************************************************************)
(* Order. A message that is on its way over a connection has all earlier   *)
(* ones before it, or they have been handed on; and as long as the taker   *)
(* believes in its connection, what it has written is on it.               *)
(***************************************************************************)
\* The messages in a queue, and the one a packet carries.
Msgs(q) == {k \in Nat : Msg(k) \in Elements(q)}
Carried(p) == {k \in Nat : p = Msg(k)}

\* What precedes a message in q, or is in H, are all the earlier ones.
InOrder(q, H) ==
    \A i \in DOMAIN q : \A n \in Carried(q[i]) :
      \A k \in 1..(n - 1) : k \in H \/ \E j \in 1..(i - 1) : q[j] = Msg(k)

\* What is handed on, or has come to the maker's end of c.
Read(c) == handed \cup Msgs(maker[c].bridge)
Coming(c) == Read(c) \cup Msgs(link[c].toM)

\* The messages that the taker's peerd has written at least once.
Waiting == Len(taker.inbox) + (IF taker.hand = 0 THEN 0 ELSE 1)
Written == 1..(sent.taker - Waiting)

ConnectionsInOrder == \A c \in Conn :
    InOrder(maker[c].bridge, handed) /\ InOrder(link[c].toM, Read(c))

NumberedOK ==
    /\ \A i \in DOMAIN taker.inbox : taker.inbox[i] = sent.taker - Len(taker.inbox) + i
    /\ taker.hand # 0 => taker.hand = sent.taker - Len(taker.inbox)

CacheOK ==
    /\ Ascending(taker.cache) /\ Elements(taker.cache) \subseteq Written
    /\ Ascending(taker.again) /\ Elements(taker.again) \subseteq Written
    /\ Written \subseteq handed \cup Elements(taker.cache)

NothingMissing ==
    link[taker.conn].alive /\ taker.pc # "reconnect" =>
      Written \subseteq Coming(taker.conn) \cup Elements(taker.again)

OrderInv == ConnectionsInOrder /\ NumberedOK /\ CacheOK /\ NothingMissing

\* What packets carry.
LEMMA Carries ==
    /\ \A n \in Nat : Carried(Msg(n)) = {n}
    /\ \A n : Carried(Receipt(n)) = {}
    /\ Carried(PeerReceiverRuntimeShutdown) = {}
    /\ \A M \in SUBSET Nat : \A p \in Packet(M) :
         /\ Carried(p) \subseteq M
         /\ p.kind = "msg" => Carried(p) = {p.n}
         /\ p.kind # "msg" => Carried(p) = {}
<1>1. \A n \in Nat : Carried(Msg(n)) = {n}
  BY DEF Carried, Msg
<1>2. \A p : p.kind # "msg" => Carried(p) = {}
  BY DEF Carried, Msg
<1>3. /\ \A n : Receipt(n).kind # "msg"
      /\ PeerReceiverRuntimeShutdown.kind # "msg"
  BY DEF Receipt, PeerReceiverRuntimeShutdown
<1>4. ASSUME NEW M \in SUBSET Nat, NEW p \in Packet(M)
      PROVE  /\ Carried(p) \subseteq M
             /\ p.kind = "msg" => Carried(p) = {p.n}
  <2>1. CASE p.kind = "msg"
    <3>1. p \in [kind : {"msg"}, n : M]
      BY <2>1 DEF Packet
    <3>2. p = [kind |-> "msg", n |-> p.n] /\ p.n \in M
      BY <3>1
    <3> QED
      BY <1>1, <3>2 DEF Msg
  <2> QED
    BY <1>2, <2>1
<1> QED
  BY <1>1, <1>2, <1>3, <1>4

\* The messages of a queue that changes at its ends.
LEMMA MsgsQueue ==
    ASSUME NEW S, NEW q \in Seq(S)
    PROVE  /\ \A p \in S : Msgs(Append(q, p)) = Msgs(q) \cup Carried(p)
           /\ q # <<>> => Msgs(q) = Carried(Head(q)) \cup Msgs(Tail(q))
           /\ Msgs(<<>>) = {}
<1>1. \A p \in S : Elements(Append(q, p)) = Elements(q) \cup {p}
  BY AppendQueue
<1>2. q # <<>> => Elements(q) = {Head(q)} \cup Elements(Tail(q))
  BY TailQueue
<1>3. Elements(<<>>) = {}
  BY DEF Elements
<1> QED
  BY <1>1, <1>2, <1>3 DEF Msgs, Carried

LEMMA InOrderMore ==
    ASSUME NEW q, NEW H, NEW G, H \subseteq G, InOrder(q, H)
    PROVE  InOrder(q, G)
BY DEF InOrder

\* A queue in order stays so when more has been handed on before it, when its
\* head is handed on, when it is cut short, and when what has all earlier
\* messages before it is put behind it.
LEMMA InOrderQueue ==
    ASSUME NEW S, NEW q \in Seq(S), NEW H, InOrder(q, H)
    PROVE  /\ \A G : H \subseteq G => InOrder(q, G)
           /\ \A p \in S : (\A n \in Carried(p) : 1..(n - 1) \subseteq H \cup Msgs(q))
                           => InOrder(Append(q, p), H)
           /\ q # <<>> => /\ InOrder(Tail(q), H \cup Carried(Head(q)))
                          /\ \A n \in Carried(Head(q)) : 1..(n - 1) \subseteq H
           /\ \A i \in 0..Len(q) : InOrder(SubSeq(q, 1, i), H)
<1>0. DOMAIN q = 1..Len(q) /\ Len(q) \in Nat
  BY LenProperties
<1>1. \A G : H \subseteq G => InOrder(q, G)
  BY DEF InOrder
<1>2. ASSUME NEW p \in S, \A n \in Carried(p) : 1..(n - 1) \subseteq H \cup Msgs(q)
      PROVE  InOrder(Append(q, p), H)
  <2> DEFINE a == Append(q, p)
  <2>1. /\ DOMAIN a = 1..(Len(q) + 1) /\ a[Len(q) + 1] = p
        /\ \A i \in 1..Len(q) : a[i] = q[i]
    BY AppendProperties, LenProperties
  <2> HIDE DEF a
  <2>2. SUFFICES ASSUME NEW i \in 1..(Len(q) + 1), NEW n \in Carried(a[i]),
                        NEW k \in 1..(n - 1), k \notin H
                 PROVE  \E j \in 1..(i - 1) : a[j] = Msg(k)
    BY <2>1 DEF InOrder, a
  <2>3. CASE i <= Len(q)
    <3>1. i \in DOMAIN q /\ n \in Carried(q[i])
      BY <1>0, <2>1, <2>3
    <3>2. PICK j \in 1..(i - 1) : q[j] = Msg(k)
      BY <2>2, <3>1 DEF InOrder
    <3> QED
      BY <1>0, <2>1, <2>3, <3>2
  <2>4. CASE i = Len(q) + 1
    <3>1. k \in Msgs(q)
      BY <1>2, <2>1, <2>2, <2>4
    <3>2. PICK j \in DOMAIN q : q[j] = Msg(k)
      BY <3>1 DEF Msgs, Elements
    <3> QED
      BY <1>0, <2>1, <2>4, <3>2
  <2> QED
    BY <1>0, <2>3, <2>4
<1>3. ASSUME q # <<>>
      PROVE  /\ InOrder(Tail(q), H \cup Carried(Head(q)))
             /\ \A n \in Carried(Head(q)) : 1..(n - 1) \subseteq H
  <2> DEFINE t == Tail(q)
  <2>1. /\ Head(q) = q[1] /\ Len(q) \in Nat \ {0} /\ DOMAIN t = 1..(Len(q) - 1)
        /\ \A i \in 1..(Len(q) - 1) : t[i] = q[i + 1]
    BY <1>3, EmptySeq, LenProperties, HeadTailProperties
  <2> HIDE DEF t
  <2>2. \A n \in Carried(Head(q)) : 1..(n - 1) \subseteq H
    BY <1>0, <2>1 DEF InOrder
  <2>3. SUFFICES ASSUME NEW i \in 1..(Len(q) - 1), NEW n \in Carried(t[i]),
                        NEW k \in 1..(n - 1), k \notin H, k \notin Carried(Head(q))
                 PROVE  \E j \in 1..(i - 1) : t[j] = Msg(k)
    BY <2>1, <2>2 DEF InOrder, t
  <2>4. i + 1 \in DOMAIN q /\ n \in Carried(q[i + 1])
    BY <1>0, <2>1
  <2>5. PICK j \in 1..i : q[j] = Msg(k)
    BY <2>3, <2>4 DEF InOrder
  <2>6. n \in Nat /\ k \in Nat
    BY DEF Carried
  <2>7. j # 1
    BY <2>1, <2>3, <2>5, <2>6 DEF Carried
  <2>8. j - 1 \in 1..(i - 1) /\ t[j - 1] = q[j]
    BY <2>1, <2>5, <2>7
  <2> QED
    BY <2>5, <2>8
<1>4. ASSUME NEW i \in 0..Len(q)
      PROVE  InOrder(SubSeq(q, 1, i), H)
  <2> DEFINE b == SubSeq(q, 1, i)
  <2>1. DOMAIN b = 1..i /\ \A j \in 1..i : b[j] = q[j]
    <3>1. 1 \in Int /\ i \in Int /\ \A j \in 1..i : q[j] \in S
      BY ElementOfSeq, LenProperties
    <3>2. /\ b \in Seq(S) /\ Len(b) = IF 1 <= i THEN i - 1 + 1 ELSE 0
          /\ \A j \in 1..(i - 1 + 1) : b[j] = q[1 + j - 1]
      BY <3>1, SubSeqProperties
    <3> QED
      BY <3>1, <3>2, LenProperties
  <2> HIDE DEF b
  <2>2. InOrder(b, H)
    BY <1>0, <2>1 DEF InOrder
  <2> QED
    BY <2>2 DEF b
<1> QED
  BY <1>1, <1>2, <1>3, <1>4

\* What TypeOK says of the fields that order is about.
LEMMA Typed ==
    ASSUME TypeOK
    PROVE  /\ sent.taker \in Nat /\ Sent = 1..sent.taker /\ Sent \in SUBSET Nat
           /\ handed \subseteq Sent /\ Waiting \in Nat
           /\ taker.conn \in Conn /\ taker.hand \in {0} \cup Sent
           /\ taker.pc \in {"loop", "reconnect", "resend", "send"}
           /\ taker.inbox \in Seq(Sent) /\ taker.cache \in Seq(Sent) /\ taker.again \in Seq(Sent)
           /\ taker.pc # "resend" => taker.again = <<>>
           /\ taker.pc = "loop" => taker.hand = 0
           /\ \A c \in Conn : /\ maker[c].bridge \in Seq(Packet(Sent))
                              /\ link[c].toM \in Seq(Packet(Sent))
                              /\ maker[c].st = "gone" => maker[c] = Gone /\ link[c].toM = <<>>
<1>1. TakerOK /\ MakerOK /\ LinkOK /\ GotOK /\ SentOK /\ GoneOK
  BY DEF TypeOK
<1>2. sent.taker \in Nat /\ Sent = 1..sent.taker /\ Sent \in SUBSET Nat
  BY <1>1 DEF SentOK, Sent
<1>3. taker.inbox \in Seq(Sent) /\ Len(taker.inbox) \in Nat
  BY <1>1, LenProperties DEF TakerOK
<1> QED
  BY <1>1, <1>2, <1>3, SMTT(120) DEF TakerOK, MakerOK, LinkOK, GotOK, GoneOK, Waiting

\* The parts of OrderInv, for a step that leaves what they are about alone.
LEMMA QueuesFrame ==
    ASSUME ConnectionsInOrder, handed \subseteq handed',
           \A c \in Conn : maker'[c].bridge = maker[c].bridge /\ link'[c].toM = link[c].toM
    PROVE  /\ ConnectionsInOrder'
           /\ \A c \in Conn : Coming(c) \subseteq Coming(c)'
<1>1. \A c \in Conn : Read(c) \subseteq Read(c)' /\ Coming(c) \subseteq Coming(c)'
  BY DEF Read, Coming
<1>2. ASSUME NEW c \in Conn
      PROVE  InOrder(maker'[c].bridge, handed') /\ InOrder(link'[c].toM, Read(c)')
  <2>1. InOrder(maker[c].bridge, handed) /\ InOrder(link[c].toM, Read(c))
    BY DEF ConnectionsInOrder
  <2> QED
    BY <1>1, <2>1, InOrderMore
<1> QED
  BY <1>1, <1>2 DEF ConnectionsInOrder

LEMMA NumbersFrame ==
    ASSUME NumberedOK, sent'.taker = sent.taker, taker'.inbox = taker.inbox, taker'.hand = taker.hand
    PROVE  NumberedOK' /\ Written' = Written
BY DEF NumberedOK, Written, Waiting

LEMMA CacheFrame ==
    ASSUME CacheOK, handed \subseteq handed', Written' = Written,
           taker'.cache = taker.cache, taker'.again = taker.again
    PROVE  CacheOK'
BY DEF CacheOK

LEMMA MissingFrame ==
    ASSUME NothingMissing, Written' = Written, taker'.again = taker.again,
           taker.conn \in Conn, taker'.conn = taker.conn,
           taker.pc = "reconnect" => taker'.pc = "reconnect",
           link'[taker.conn].alive => link[taker.conn].alive,
           \A c \in Conn : c = taker.conn => Coming(c) \subseteq Coming(c)'
    PROVE  NothingMissing'
<1>1. Coming(taker.conn) \subseteq Coming(taker.conn)'
  BY DEF Coming, Read
<1> QED
  BY <1>1 DEF NothingMissing

LEMMA SwapSendsOrder == TypeOK /\ OrderInv /\ TakerSwapSends => OrderInv'
<1> SUFFICES ASSUME TypeOK, OrderInv, TakerSwapSends PROVE OrderInv'
  OBVIOUS
<1>1. /\ UNCHANGED <<maker, link, handed>> /\ sent'.taker = sent.taker + 1
      /\ taker'.inbox = Append(taker.inbox, sent.taker + 1)
      /\ taker'.hand = taker.hand /\ taker'.cache = taker.cache /\ taker'.again = taker.again
      /\ taker'.conn = taker.conn /\ taker'.pc = taker.pc
  BY DEF TakerSwapSends, TypeOK, TakerOK, SentOK
<1>2. /\ Len(taker'.inbox) = Len(taker.inbox) + 1 /\ Len(taker.inbox) \in Nat
      /\ DOMAIN taker.inbox = 1..Len(taker.inbox)
      /\ DOMAIN taker'.inbox = 1..(Len(taker.inbox) + 1)
      /\ \A i \in 1..Len(taker.inbox) : taker'.inbox[i] = taker.inbox[i]
      /\ taker'.inbox[Len(taker.inbox) + 1] = sent.taker + 1
  <2>1. taker.inbox \in Seq(Nat) /\ sent.taker + 1 \in Nat
    BY Typed, SeqMonotonic
  <2> QED
    BY <1>1, <2>1, AppendProperties, LenProperties
<1>0. sent.taker \in Nat /\ taker.hand \in Nat
  BY Typed
<1>3. NumberedOK'
  <2> DEFINE len == Len(taker.inbox)
  <2>1. ASSUME NEW i \in 1..(len + 1)
        PROVE  taker'.inbox[i] = sent'.taker - Len(taker'.inbox) + i
    <3>1. sent'.taker - Len(taker'.inbox) = sent.taker - len
      BY <1>0, <1>1, <1>2
    <3>2. CASE i \in 1..len
      BY <1>2, <3>1, <3>2 DEF OrderInv, NumberedOK
    <3>3. CASE i = len + 1
      BY <1>0, <1>2, <3>1, <3>3
    <3> QED
      BY <1>2, <3>2, <3>3
  <2>2. taker'.hand # 0 => taker'.hand = sent'.taker - Len(taker'.inbox)
    <3>1. sent'.taker - Len(taker'.inbox) = sent.taker - len
      BY <1>0, <1>1, <1>2
    <3> QED
      BY <1>1, <3>1 DEF OrderInv, NumberedOK
  <2> QED
    BY <1>2, <2>1, <2>2 DEF NumberedOK
<1>4. Written' = Written
  <2> DEFINE one == IF taker.hand = 0 THEN 0 ELSE 1
  <2>1. one \in Nat /\ Waiting = Len(taker.inbox) + one
        /\ Waiting' = Len(taker'.inbox) + one
    BY <1>1 DEF Waiting
  <2> HIDE DEF one
  <2>2. sent'.taker - Waiting' = sent.taker - Waiting
    BY <1>0, <1>1, <1>2, <2>1
  <2> QED
    BY <2>2 DEF Written
<1>5. ConnectionsInOrder' /\ CacheOK' /\ NothingMissing'
  BY <1>1, <1>4, QueuesFrame, CacheFrame, MissingFrame, Typed DEF OrderInv
<1> QED
  BY <1>3, <1>5 DEF OrderInv

\* Writing one packet to the maker: if it carries a message, all earlier ones
\* are on the connection, or it is broken.
LEMMA WriteOrder ==
    ASSUME TypeOK, ConnectionsInOrder, NEW d \in Conn, NEW p \in Packet(Sent),
           link' = to_maker(d, p), UNCHANGED <<maker, handed>>,
           link[d].alive => \A n \in Carried(p) : 1..(n - 1) \subseteq Coming(d)
    PROVE  /\ ConnectionsInOrder'
           /\ \A c \in Conn : link'[c].alive = link[c].alive
           /\ \A c \in Conn : Coming(c) \subseteq Coming(c)'
           /\ link[d].alive => Carried(p) \subseteq Coming(d)'
<1>0. LinkOK
  BY DEF TypeOK
<1>1. \A c \in Conn : /\ link'[c].alive = link[c].alive
                      /\ c # d \/ ~link[d].alive => link'[c].toM = link[c].toM
  BY <1>0, Writes
<1>2. link[d].alive => link'[d].toM = Append(link[d].toM, p)
  BY <1>0, Writes
<1>3. link[d].toM \in Seq(Packet(Sent))
  BY <1>0 DEF LinkOK
<1>4. link[d].alive => Msgs(link'[d].toM) = Msgs(link[d].toM) \cup Carried(p)
  <2>1. Msgs(Append(link[d].toM, p)) = Msgs(link[d].toM) \cup Carried(p)
    BY <1>3, MsgsQueue
  <2> QED
    BY <1>2, <2>1
<1>5. \A c \in Conn : Read(c)' = Read(c)
  BY DEF Read
<1>6. ASSUME link[d].alive
      PROVE  InOrder(Append(link[d].toM, p), Read(d))
  <2>1. InOrder(link[d].toM, Read(d))
    BY DEF ConnectionsInOrder
  <2>2. \A n \in Carried(p) : 1..(n - 1) \subseteq Read(d) \cup Msgs(link[d].toM)
    BY <1>6 DEF Coming
  <2> DEFINE q == link[d].toM
             H == Read(d)
  <2>3. q \in Seq(Packet(Sent)) /\ InOrder(q, H)
        /\ \A n \in Carried(p) : 1..(n - 1) \subseteq H \cup Msgs(q)
    BY <1>3, <2>1, <2>2
  <2>4. InOrder(Append(q, p), H)
    <3> HIDE DEF q, H
    <3> QED
      BY <2>3, InOrderQueue
  <2> QED
    BY <2>4
<1>7. ASSUME NEW c \in Conn
      PROVE  InOrder(maker'[c].bridge, handed') /\ InOrder(link'[c].toM, Read(c)')
  <2>1. InOrder(maker[c].bridge, handed) /\ InOrder(link[c].toM, Read(c)) /\ Read(c)' = Read(c)
    BY <1>5 DEF ConnectionsInOrder
  <2>2. CASE c # d \/ ~link[d].alive
    BY <1>1, <2>1, <2>2
  <2>3. CASE c = d /\ link[d].alive
    BY <1>2, <1>6, <2>1, <2>3
  <2> QED
    BY <2>2, <2>3
<1>8. ASSUME NEW c \in Conn
      PROVE  Coming(c) \subseteq Coming(c)'
  <2>1. CASE c # d \/ ~link[d].alive
    BY <1>1, <1>5, <2>1 DEF Coming
  <2>2. CASE c = d /\ link[d].alive
    BY <1>4, <1>5, <2>2 DEF Coming
  <2> QED
    BY <2>1, <2>2
<1>9. link[d].alive => Carried(p) \subseteq Coming(d)'
  BY <1>4, <1>5 DEF Coming
<1>10. ConnectionsInOrder'
  BY <1>7 DEF ConnectionsInOrder
<1> QED
  BY <1>1, <1>8, <1>9, <1>10

\* What the taker's main loop takes up is the first message not yet written.
LEMMA TakesNext ==
    ASSUME TypeOK, NumberedOK, NEW n \in 1..sent.taker, takes_msg(n)
    PROVE  /\ Written = 1..(n - 1) /\ n \in Sent
           /\ taker.pc # "reconnect" /\ taker.again = <<>>
           /\ inbox_left \in Seq(Sent) /\ n = sent.taker - Len(inbox_left)
           /\ \A i \in DOMAIN inbox_left : inbox_left[i] = sent.taker - Len(inbox_left) + i
<1> DEFINE q == taker.inbox
           s == sent.taker
<1>1. /\ s \in Nat /\ q \in Seq(Sent) /\ taker.hand \in Nat
      /\ taker.pc # "resend" => taker.again = <<>>
      /\ taker.pc = "loop" => taker.hand = 0
  BY Typed
<1>2. Len(q) \in Nat /\ DOMAIN q = 1..Len(q) /\ n \in Sent
  BY <1>1, LenProperties DEF Sent
<1>3. /\ \A i \in DOMAIN q : q[i] = s - Len(q) + i
      /\ taker.hand # 0 => taker.hand = s - Len(q)
  BY DEF NumberedOK
<1>4. Written = 1..(s - (Len(q) + (IF taker.hand = 0 THEN 0 ELSE 1)))
  BY DEF Written, Waiting
<1>5. CASE taker.pc = "loop" /\ q # <<>> /\ n = Head(q)
  <2> DEFINE t == Tail(q)
  <2>1. /\ t \in Seq(Sent) /\ Len(t) = Len(q) - 1 /\ DOMAIN t = 1..(Len(q) - 1)
        /\ \A i \in 1..(Len(q) - 1) : t[i] = q[i + 1]
        /\ Head(q) = q[1] /\ Len(q) > 0
    BY <1>1, <1>5, EmptySeq, HeadTailProperties, LenProperties
  <2>2. inbox_left = t /\ taker.hand = 0 /\ taker.again = <<>> /\ taker.pc # "reconnect"
    BY <1>1, <1>5 DEF inbox_left
  <2> HIDE DEF q, s, t
  <2>3. q[1] = s - Len(q) + 1
    BY <1>2, <1>3, <2>1
  <2>4. n = s - Len(q) + 1
    BY <1>5, <2>1, <2>3 DEF q
  <2>5. Written = 1..(n - 1)
    <3>1. Written = 1..(s - Len(q))
      BY <1>2, <1>4, <2>2
    <3> QED
      BY <1>1, <1>2, <2>4, <3>1
  <2>6. ASSUME NEW i \in 1..(Len(q) - 1)
        PROVE  t[i] = s - Len(t) + i
    <3>1. i + 1 \in DOMAIN q
      BY <1>2, <2>1
    <3>2. q[i + 1] = s - Len(q) + (i + 1)
      BY <1>3, <3>1
    <3>3. s - Len(q) + (i + 1) = s - (Len(q) - 1) + i
      BY <1>1, <1>2
    <3> QED
      BY <2>1, <3>2, <3>3
  <2>7. n = s - Len(t)
    BY <1>1, <1>2, <2>1, <2>4
  <2> QED
    BY <1>2, <2>1, <2>2, <2>5, <2>6, <2>7 DEF s
<1>6. CASE taker.pc = "send" /\ n = taker.hand
  <2>1. inbox_left = q /\ taker.again = <<>> /\ taker.pc # "reconnect"
    BY <1>1, <1>6 DEF inbox_left
  <2>2. n = s - Len(q) /\ n # 0
    BY <1>1, <1>3, <1>6
  <2>3. Written = 1..(n - 1)
    <3>1. Written = 1..(s - (Len(q) + 1))
      BY <1>4, <1>6, <2>2
    <3>2. s - (Len(q) + 1) = n - 1
      BY <1>1, <1>2, <2>2
    <3> QED
      BY <3>1, <3>2
  <2> QED
    BY <1>1, <1>2, <1>3, <2>1, <2>2, <2>3
<1> QED
  BY <1>5, <1>6 DEF takes_msg

\* An ascending queue that something larger is put behind, or its head taken from.
LEMMA AscendingQueue ==
    ASSUME NEW S \in SUBSET Nat, NEW q \in Seq(S), Ascending(q)
    PROVE  /\ \A e \in S : (\A x \in Elements(q) : x < e) => Ascending(Append(q, e))
           /\ q # <<>> => /\ Ascending(Tail(q))
                          /\ \A x \in Elements(Tail(q)) : Head(q) < x
<1>0. DOMAIN q = 1..Len(q) /\ Len(q) \in Nat /\ \A i \in 1..Len(q) : q[i] \in Nat
  BY LenProperties, ElementOfSeq
<1>1. ASSUME NEW e \in S, \A x \in Elements(q) : x < e
      PROVE  Ascending(Append(q, e))
  <2> DEFINE a == Append(q, e)
  <2>1. /\ DOMAIN a = 1..(Len(q) + 1) /\ a[Len(q) + 1] = e
        /\ \A i \in 1..Len(q) : a[i] = q[i]
    BY AppendProperties, LenProperties
  <2>2. \A i \in 1..Len(q) : q[i] < e
    BY <1>0, <1>1 DEF Elements
  <2> HIDE DEF a
  <2>3. ASSUME NEW i \in 1..(Len(q) + 1), NEW j \in 1..(Len(q) + 1), i < j
        PROVE  a[i] < a[j]
    <3>1. i \in 1..Len(q)
      BY <1>0, <2>3
    <3>2. CASE j \in 1..Len(q)
      BY <1>0, <2>1, <2>3, <3>1, <3>2 DEF Ascending
    <3>3. CASE j = Len(q) + 1
      BY <2>1, <2>2, <3>1, <3>3
    <3> QED
      BY <1>0, <3>2, <3>3
  <2> QED
    BY <2>1, <2>3 DEF Ascending, a
<1>2. ASSUME q # <<>>
      PROVE  /\ Ascending(Tail(q))
             /\ \A x \in Elements(Tail(q)) : Head(q) < x
  <2> DEFINE t == Tail(q)
  <2>1. /\ Head(q) = q[1] /\ Len(q) \in Nat \ {0} /\ DOMAIN t = 1..(Len(q) - 1)
        /\ \A i \in 1..(Len(q) - 1) : t[i] = q[i + 1]
    BY <1>2, EmptySeq, LenProperties, HeadTailProperties
  <2> HIDE DEF t
  <2>0. ASSUME NEW i \in 1..Len(q), NEW j \in 1..Len(q), i < j
        PROVE  q[i] < q[j]
    BY <1>0, <2>0 DEF Ascending
  <2>2. Ascending(t)
    <3>1. SUFFICES ASSUME NEW i \in 1..(Len(q) - 1), NEW j \in 1..(Len(q) - 1), i < j
                   PROVE  t[i] < t[j]
      BY <2>1 DEF Ascending
    <3>2. i + 1 \in 1..Len(q) /\ j + 1 \in 1..Len(q) /\ i + 1 < j + 1
      BY <2>1, <3>1
    <3>3. q[i + 1] < q[j + 1]
      BY <2>0, <3>2
    <3> QED
      BY <2>1, <3>3
  <2>3. ASSUME NEW i \in 1..(Len(q) - 1)
        PROVE  q[1] < t[i]
    <3>1. 1 \in 1..Len(q) /\ i + 1 \in 1..Len(q) /\ 1 < i + 1
      BY <2>1
    <3>2. q[1] < q[i + 1]
      BY <2>0, <3>1
    <3> QED
      BY <2>1, <3>2
  <2> QED
    BY <2>1, <2>2, <2>3 DEF Elements, t
<1> QED
  BY <1>0, <1>1, <1>2

LEMMA HandleMsgOrder == TypeOK /\ OrderInv /\ taker_handle_msg => OrderInv'
<1> SUFFICES ASSUME TypeOK, OrderInv, NEW n \in 1..sent.taker, takes_msg(n),
                    link' = to_maker(taker.conn, Msg(n)), UNCHANGED <<maker, sent, handed>>,
                    taker' = [taker EXCEPT !.pc = "loop", !.hand = 0, !.inbox = inbox_left,
                                           !.cache = unchecked_msg_cache(@, n)]
             PROVE  OrderInv'
  BY DEF taker_handle_msg
<1>1. PICK d \in Conn : d = taker.conn
  BY Typed
<1>2. /\ Sent \in SUBSET Nat /\ taker.cache \in Seq(Sent) /\ sent.taker \in Nat
  BY Typed
<1>3. /\ taker'.conn = d /\ taker'.pc = "loop" /\ taker'.hand = 0 /\ taker'.again = taker.again
      /\ taker'.inbox = inbox_left /\ taker'.cache = Append(Without(taker.cache, n), n)
  BY <1>1 DEF TypeOK, TakerOK, unchecked_msg_cache
<1>4. ConnectionsInOrder /\ NumberedOK /\ CacheOK /\ NothingMissing
  BY DEF OrderInv
<1>5. /\ Written = 1..(n - 1) /\ n \in Sent /\ taker.pc # "reconnect" /\ taker.again = <<>>
      /\ inbox_left \in Seq(Sent) /\ n = sent.taker - Len(inbox_left)
      /\ \A i \in DOMAIN inbox_left : inbox_left[i] = sent.taker - Len(inbox_left) + i
  BY <1>4, TakesNext
<1>6. NumberedOK'
  BY <1>3, <1>5 DEF NumberedOK
<1>7. Written' = 1..n
  <2>1. Waiting' = Len(inbox_left) /\ Len(inbox_left) \in Nat
    BY <1>3, <1>5, LenProperties DEF Waiting
  <2> QED
    BY <1>2, <1>5, <2>1 DEF Written
<1>8. Elements(<<>>) = {} /\ Ascending(<<>>)
  BY DEF Elements, Ascending
<1>9. link[d].alive => Written \subseteq Coming(d)
  BY <1>1, <1>4, <1>5, <1>8 DEF NothingMissing
<1>10. Msg(n) \in Packet(Sent) /\ Carried(Msg(n)) = {n}
  BY <1>2, <1>5, Packets, Carries
<1>11. /\ ConnectionsInOrder' /\ link'[d].alive = link[d].alive
       /\ Coming(d) \subseteq Coming(d)' /\ (link[d].alive => n \in Coming(d)')
  <2>1. link' = to_maker(d, Msg(n))
    BY <1>1
  <2>2. link[d].alive => \A k \in Carried(Msg(n)) : 1..(k - 1) \subseteq Coming(d)
    BY <1>5, <1>9, <1>10
  <2> HIDE DEF Written
  <2> QED
    BY <1>4, <1>10, <2>1, <2>2, WriteOrder
<1>12. 1..n = 1..(n - 1) \cup {n}
  BY <1>2, <1>5
<1>13. CacheOK'
  <2> DEFINE w == Without(taker.cache, n)
  <2>1. /\ w \in Seq(Sent) /\ Elements(w) \subseteq 1..(n - 1) /\ Ascending(w)
        /\ 1..(n - 1) \subseteq handed \cup Elements(w)
    <3>1. /\ Elements(taker.cache) \subseteq 1..(n - 1) /\ Ascending(taker.cache)
          /\ 1..(n - 1) \subseteq handed \cup Elements(taker.cache)
      BY <1>4, <1>5 DEF CacheOK
    <3>2. n \notin 1..(n - 1)
      BY <1>2, <1>5
    <3> QED
      BY <1>2, <3>1, <3>2, WithoutQueue
  <2> HIDE DEF w
  <2>2. Elements(Append(w, n)) = Elements(w) \cup {n}
    BY <1>5, <2>1, AppendQueue
  <2>3. \A x \in Elements(w) : x < n
    BY <1>2, <1>5, <2>1
  <2>4. Ascending(Append(w, n))
    BY <1>2, <1>5, <2>1, <2>3, AscendingQueue
  <2> USE DEF w
  <2>5. /\ Ascending(taker'.cache) /\ Elements(taker'.cache) \subseteq 1..n
        /\ 1..n \subseteq handed \cup Elements(taker'.cache)
    BY <1>3, <1>12, <2>1, <2>2, <2>4
  <2> QED
    BY <1>3, <1>5, <1>7, <1>8, <2>5 DEF CacheOK
<1>14. NothingMissing'
  <2>1. link[d].alive => 1..n \subseteq Coming(d)'
    BY <1>5, <1>9, <1>11, <1>12
  <2>2. Coming(d)' = Coming(taker.conn)'
    BY <1>1, <1>3 DEF Coming, Read
  <2> QED
    BY <1>3, <1>7, <1>11, <2>1, <2>2 DEF NothingMissing
<1> QED
  BY <1>6, <1>11, <1>13, <1>14 DEF OrderInv

LEMMA HandleMsgFailsOrder == TypeOK /\ OrderInv /\ taker_handle_msg_fails => OrderInv'
<1> SUFFICES ASSUME TypeOK, OrderInv, NEW n \in 1..sent.taker, takes_msg(n),
                    UNCHANGED <<maker, link, sent, handed>>,
                    taker' = [taker EXCEPT !.pc = "reconnect", !.hand = n, !.inbox = inbox_left]
             PROVE  OrderInv'
  BY DEF taker_handle_msg_fails
<1>1. /\ taker'.pc = "reconnect" /\ taker'.hand = n /\ taker'.inbox = inbox_left
      /\ taker'.again = taker.again /\ taker'.cache = taker.cache
  BY DEF TypeOK, TakerOK
<1>2. ConnectionsInOrder /\ NumberedOK /\ CacheOK
  BY DEF OrderInv
<1>3. /\ Written = 1..(n - 1) /\ inbox_left \in Seq(Sent) /\ n = sent.taker - Len(inbox_left)
      /\ \A i \in DOMAIN inbox_left : inbox_left[i] = sent.taker - Len(inbox_left) + i
  BY <1>2, TakesNext
<1>4. NumberedOK'
  BY <1>1, <1>3 DEF NumberedOK
<1>5. Written' = Written
  <2>1. sent.taker \in Nat /\ Len(inbox_left) \in Nat
    BY <1>3, Typed, LenProperties
  <2>2. Waiting' = Len(inbox_left) + 1
    BY <1>1, <2>1 DEF Waiting
  <2>3. sent.taker - Waiting' = n - 1
    <3>1. n = sent.taker - Len(inbox_left)
      BY <1>3
    <3> QED
      BY <2>1, <2>2, <3>1
  <2> QED
    BY <1>3, <2>3 DEF Written
<1>6. ConnectionsInOrder' /\ CacheOK'
  BY <1>1, <1>2, <1>5, QueuesFrame, CacheFrame
<1> QED
  BY <1>1, <1>4, <1>6 DEF OrderInv, NothingMissing

LEMMA TakerBridgeOrder ==
    TypeOK /\ ReceiptsTrue /\ OrderInv /\ taker_handle_bridge => OrderInv'
<1> SUFFICES ASSUME TypeOK, ReceiptsTrue, OrderInv, taker_handle_bridge PROVE OrderInv'
  OBVIOUS
<1> DEFINE p == Head(taker.bridge)
<1>1. PICK d \in Conn : d = taker.conn
  BY Typed
<1>2. /\ UNCHANGED <<maker, sent, handed>> /\ taker.bridge # <<>>
      /\ taker_forwards(p) \/ taker_receipt(p) \/ taker_shutdown(p)
  BY DEF taker_handle_bridge
<1>3. /\ taker.bridge \in Seq(Packet(Replied)) /\ p \in Packet(Replied)
      /\ p.kind = "receipt" => p.n \in handed
  <2>1. taker.bridge \in Seq(Packet(Replied)) /\ Confirmed(taker.bridge, handed)
    BY DEF TypeOK, TakerOK, ReceiptsTrue
  <2> QED
    BY <1>2, <2>1, Queues, ConfirmedQueue
<1>4. /\ taker'.inbox = taker.inbox /\ taker'.hand = taker.hand /\ taker'.again = taker.again
      /\ taker'.conn = taker.conn
  BY <1>2 DEF TypeOK, TakerOK, taker_forwards, taker_receipt, taker_shutdown
<1>5. ConnectionsInOrder /\ NumberedOK /\ CacheOK /\ NothingMissing
  BY DEF OrderInv
<1>6. NumberedOK' /\ Written' = Written
  BY <1>2, <1>4, <1>5, NumbersFrame
<1>7. CASE taker_forwards(p)
  <2>1. link' = to_maker(d, Receipt(p.n)) /\ taker'.cache = taker.cache /\ taker'.pc = taker.pc
    BY <1>1, <1>7 DEF taker_forwards, TypeOK, TakerOK
  <2>2. Receipt(p.n) \in Packet(Sent) /\ Carried(Receipt(p.n)) = {}
    <3>1. p.n \in Replied
      BY <1>3, <1>7, Packets DEF taker_forwards
    <3>2. p.n \in Nat
      BY <3>1 DEF Replied
    <3> QED
      BY <3>2, Packets, Carries
  <2>3. /\ ConnectionsInOrder' /\ \A c \in Conn : link'[c].alive = link[c].alive
        /\ \A c \in Conn : Coming(c) \subseteq Coming(c)'
    <3>1. link[d].alive => \A n \in Carried(Receipt(p.n)) : 1..(n - 1) \subseteq Coming(d)
      BY <2>2
    <3> HIDE DEF p
    <3> QED
      BY <1>2, <1>5, <2>1, <2>2, <3>1, WriteOrder
  <2>4. link'[taker.conn].alive = link[taker.conn].alive
    BY <1>1, <2>3
  <2>5. CacheOK'
    BY <1>2, <1>4, <1>5, <1>6, <2>1, CacheFrame
  <2>6. NothingMissing'
    BY <1>1, <1>4, <1>5, <1>6, <2>1, <2>3, <2>4, MissingFrame
  <2> QED
    BY <1>6, <2>3, <2>5, <2>6 DEF OrderInv
<1>8. CASE taker_receipt(p)
  <2>1. /\ taker'.cache = Without(taker.cache, p.n) /\ taker'.pc = taker.pc /\ link' = link
        /\ p.n \in handed
    BY <1>3, <1>8 DEF taker_receipt, TypeOK, TakerOK
  <2>2. ConnectionsInOrder' /\ \A c \in Conn : Coming(c) \subseteq Coming(c)'
    BY <1>2, <1>5, <2>1, QueuesFrame
  <2>3. CacheOK'
    <3>1. taker.cache \in Seq(Sent) /\ Sent \subseteq Nat
      BY Typed
    <3>2. /\ Elements(taker'.cache) \subseteq Elements(taker.cache)
          /\ Elements(taker.cache) \ {p.n} \subseteq Elements(taker'.cache)
          /\ Ascending(taker.cache) => Ascending(taker'.cache)
      <4> HIDE DEF p
      <4> QED
        BY <2>1, <3>1, WithoutQueue
    <3> QED
      BY <1>2, <1>4, <1>5, <1>6, <2>1, <3>2 DEF CacheOK
  <2>4. NothingMissing'
    BY <1>1, <1>4, <1>5, <1>6, <2>1, <2>2, MissingFrame
  <2> QED
    BY <1>6, <2>2, <2>3, <2>4 DEF OrderInv
<1>9. CASE taker_shutdown(p)
  <2>1. taker'.cache = taker.cache /\ taker'.pc = "reconnect" /\ link' = link
    BY <1>9 DEF taker_shutdown, TypeOK, TakerOK
  <2>2. ConnectionsInOrder' /\ CacheOK'
    BY <1>2, <1>4, <1>5, <1>6, <2>1, QueuesFrame, CacheFrame
  <2> QED
    BY <1>6, <2>1, <2>2 DEF OrderInv, NothingMissing
<1> QED
  BY <1>2, <1>7, <1>8, <1>9

LEMMA ReconnectOrder == TypeOK /\ OrderInv /\ reconnect_peer => OrderInv'
<1> SUFFICES ASSUME TypeOK, OrderInv, NEW c \in Conn, Unused(c), taker.pc = "reconnect",
                    UNCHANGED <<sent, handed>>,
                    taker' = [taker EXCEPT !.pc = "resend", !.again = taker.cache,
                                           !.conn = c, !.reads = TRUE],
                    maker' = [maker EXCEPT ![c] = run_from_listener],
                    link' = [link EXCEPT ![taker.conn] = LeftBehind(@), ![c] = Open]
             PROVE  OrderInv'
  BY DEF reconnect_peer
<1>1. /\ taker'.inbox = taker.inbox /\ taker'.hand = taker.hand /\ taker'.conn = c
      /\ taker'.again = taker.cache /\ taker'.cache = taker.cache
  BY DEF TypeOK, TakerOK
<1>2. ConnectionsInOrder /\ NumberedOK /\ CacheOK
  BY DEF OrderInv
<1>3. maker[c] = Gone /\ link[c].toM = <<>> /\ c # taker.conn
  <2>1. maker[c] = Gone /\ c # taker.conn
    BY DEF Unused
  <2>2. maker[c].st = "gone"
    BY <2>1 DEF Gone
  <2> QED
    BY <2>1, <2>2, Typed
<1>4. \A e \in Conn : maker'[e].bridge = maker[e].bridge /\ link'[e].toM = link[e].toM
  <2>1. MakerOK /\ LinkOK /\ taker.conn \in Conn
    BY DEF TypeOK, TakerOK
  <2>2. \A e \in Conn : maker'[e].bridge = maker[e].bridge
    BY <1>3, <2>1 DEF MakerOK, Gone, run_from_listener
  <2>3. \A e \in Conn : link'[e].toM = link[e].toM
    BY <1>3, <2>1 DEF LinkOK, LeftBehind, Open
  <2> QED
    BY <2>2, <2>3
<1>5. ConnectionsInOrder'
  BY <1>2, <1>4, QueuesFrame
<1>6. NumberedOK' /\ Written' = Written
  BY <1>1, <1>2, NumbersFrame
<1>7. CacheOK' /\ Written \subseteq handed \cup Elements(taker.cache)
  BY <1>1, <1>2, <1>6 DEF CacheOK
<1>8. NothingMissing'
  <2>1. handed \subseteq Coming(taker.conn)'
    BY DEF Coming, Read
  <2> QED
    BY <1>1, <1>6, <1>7, <2>1 DEF NothingMissing
<1> QED
  BY <1>5, <1>6, <1>7, <1>8 DEF OrderInv

LEMMA ResendOrder ==
    TypeOK /\ OrderInv /\ (resend_cached \/ resend_fails \/ reconnected) => OrderInv'
<1> SUFFICES ASSUME TypeOK, OrderInv, resend_cached \/ resend_fails \/ reconnected PROVE OrderInv'
  OBVIOUS
<1>1. PICK d \in Conn : d = taker.conn
  BY Typed
<1>2. /\ UNCHANGED <<maker, sent, handed>> /\ taker.pc = "resend"
      /\ taker'.inbox = taker.inbox /\ taker'.hand = taker.hand
      /\ taker'.cache = taker.cache /\ taker'.conn = taker.conn
  BY DEF TypeOK, TakerOK, resend_cached, resend_fails, reconnected
<1>3. ConnectionsInOrder /\ NumberedOK /\ CacheOK /\ NothingMissing
  BY DEF OrderInv
<1>4. NumberedOK' /\ Written' = Written
  BY <1>2, <1>3, NumbersFrame
<1>5. Elements(<<>>) = {} /\ Ascending(<<>>)
  BY DEF Elements, Ascending
<1>6. CASE resend_cached
  <2> DEFINE q == taker.again
             n == Head(q)
             t == Tail(q)
  <2>1. /\ q \in Seq(Sent) /\ q # <<>> /\ Sent \in SUBSET Nat
        /\ Ascending(q) /\ Elements(q) \subseteq Written
    BY <1>3, <1>6, Typed DEF resend_cached, CacheOK
  <2>2. link' = to_maker(d, Msg(n)) /\ taker'.again = t /\ taker'.pc = "resend"
    BY <1>1, <1>6 DEF resend_cached, TypeOK, TakerOK
  <2>3. link[d].alive => Written \subseteq Coming(d) \cup Elements(q)
    BY <1>1, <1>2, <1>3 DEF NothingMissing
  <2> HIDE DEF q
  <2>4. /\ n \in Sent /\ n \in Nat /\ Elements(q) = {n} \cup Elements(t) /\ Ascending(t)
        /\ \A x \in Elements(t) : n < x
    BY <2>1, TailQueue, AscendingQueue
  <2> HIDE DEF n, t
  <2>5. link[d].alive => 1..(n - 1) \subseteq Coming(d)
    <3>1. n \in Written
      BY <2>1, <2>4
    <3>2. 1..(n - 1) \subseteq Written
      <4>1. sent.taker - Waiting \in Int
        BY Typed
      <4>2. n <= sent.taker - Waiting
        BY <2>4, <3>1, <4>1 DEF Written
      <4> QED
        BY <2>4, <4>1, <4>2 DEF Written
    <3>3. \A k \in 1..(n - 1) : k \notin Elements(q)
      <4>1. SUFFICES ASSUME NEW k \in 1..(n - 1), k \in Elements(t) PROVE FALSE
        BY <2>4
      <4>2. n < k
        BY <2>4, <4>1
      <4> QED
        BY <2>4, <4>2
    <3> QED
      BY <2>3, <3>2, <3>3
  <2>6. Msg(n) \in Packet(Sent) /\ Carried(Msg(n)) = {n}
    BY <2>4, Packets, Carries
  <2>7. /\ ConnectionsInOrder' /\ link'[d].alive = link[d].alive
        /\ Coming(d) \subseteq Coming(d)' /\ (link[d].alive => n \in Coming(d)')
    <3>1. link[d].alive => \A k \in Carried(Msg(n)) : 1..(k - 1) \subseteq Coming(d)
      BY <2>5, <2>6
    <3> QED
      BY <1>2, <1>3, <2>2, <2>6, <3>1, WriteOrder
  <2>8. CacheOK'
    BY <1>2, <1>3, <1>4, <2>1, <2>2, <2>4 DEF CacheOK
  <2>9. NothingMissing'
    <3>1. link'[d].alive => Written \subseteq Coming(d)' \cup Elements(t)
      BY <2>3, <2>4, <2>7
    <3>2. Coming(d)' = Coming(taker.conn)'
      BY <1>1, <1>2 DEF Coming, Read
    <3> QED
      BY <1>1, <1>2, <1>4, <2>2, <3>1, <3>2 DEF NothingMissing
  <2> QED
    BY <1>4, <2>7, <2>8, <2>9 DEF OrderInv
<1>7. CASE resend_fails
  <2>1. taker'.pc = "reconnect" /\ taker'.again = <<>> /\ link' = link
    BY <1>7 DEF resend_fails, TypeOK, TakerOK
  <2>2. ConnectionsInOrder' /\ CacheOK'
    BY <1>2, <1>3, <1>4, <1>5, <2>1, QueuesFrame DEF CacheOK
  <2> QED
    BY <1>4, <2>1, <2>2 DEF OrderInv, NothingMissing
<1>8. CASE reconnected
  <2>1. taker'.again = taker.again /\ link' = link
    BY <1>8 DEF reconnected, TypeOK, TakerOK
  <2>2. ConnectionsInOrder' /\ CacheOK' /\ \A c \in Conn : Coming(c) \subseteq Coming(c)'
    BY <1>2, <1>3, <1>4, <2>1, QueuesFrame, CacheFrame
  <2>3. NothingMissing'
    BY <1>1, <1>2, <1>3, <1>4, <2>1, <2>2, MissingFrame
  <2> QED
    BY <1>4, <2>2, <2>3 DEF OrderInv
<1> QED
  BY <1>6, <1>7, <1>8

LEMMA TakerReadsOrder == TypeOK /\ OrderInv /\ (taker_reads \/ taker_reader_ends) => OrderInv'
<1> SUFFICES ASSUME TypeOK, OrderInv, taker_reads \/ taker_reader_ends PROVE OrderInv'
  OBVIOUS
<1>1. /\ UNCHANGED <<maker, sent, handed>> /\ taker'.inbox = taker.inbox
      /\ taker'.hand = taker.hand /\ taker'.cache = taker.cache /\ taker'.conn = taker.conn
      /\ taker'.again = taker.again /\ taker'.pc = taker.pc
  BY DEF TypeOK, TakerOK, taker_reads, taker_reader_ends
<1>2. \A c \in Conn : link'[c].toM = link[c].toM /\ link'[c].alive = link[c].alive
  <2>1. LinkOK /\ taker.conn \in Conn
    BY DEF TypeOK, TakerOK
  <2>2. CASE taker_reads
    <3>1. link' = [link EXCEPT ![taker.conn].toT = Tail(@)]
      BY <2>2 DEF taker_reads
    <3> QED
      BY <2>1, <3>1 DEF LinkOK
  <2>3. CASE taker_reader_ends
    BY <2>3 DEF taker_reader_ends
  <2> QED
    BY <2>2, <2>3
<1>3. ConnectionsInOrder /\ NumberedOK /\ CacheOK /\ NothingMissing /\ taker.conn \in Conn
  BY Typed DEF OrderInv
<1>4. NumberedOK' /\ Written' = Written
  BY <1>1, <1>3, NumbersFrame
<1>5. ConnectionsInOrder' /\ CacheOK' /\ \A c \in Conn : Coming(c) \subseteq Coming(c)'
  BY <1>1, <1>2, <1>3, <1>4, QueuesFrame, CacheFrame
<1>6. NothingMissing'
  BY <1>1, <1>2, <1>3, <1>4, <1>5, MissingFrame
<1> QED
  BY <1>4, <1>5, <1>6 DEF OrderInv

\* The maker's steps leave the taker and what it has sent alone.
LEMMA MakerFrame ==
    ASSUME TypeOK, OrderInv, UNCHANGED taker, sent'.taker = sent.taker,
           handed \subseteq handed', ConnectionsInOrder',
           \A c \in Conn : link'[c].alive => link[c].alive /\ Coming(c) \subseteq Coming(c)'
    PROVE  OrderInv'
<1>1. NumberedOK /\ CacheOK /\ NothingMissing /\ taker.conn \in Conn
  BY Typed DEF OrderInv
<1>2. NumberedOK' /\ Written' = Written
  BY <1>1, NumbersFrame
<1>3. CacheOK'
  BY <1>1, <1>2, CacheFrame
<1>4. NothingMissing'
  <2>1. PICK d \in Conn : d = taker.conn
    BY <1>1
  <2>2. Coming(d)' = Coming(taker.conn)'
    BY <2>1 DEF Coming, Read
  <2> QED
    BY <1>1, <1>2, <2>1, <2>2 DEF NothingMissing
<1> QED
  BY <1>2, <1>3, <1>4 DEF OrderInv

LEMMA MakerMainOrder ==
    ASSUME TypeOK, OrderInv, NEW c \in Conn,
           \/ MakerSwapSends \/ farcasterd_handles
           \/ maker_starts(c) \/ maker_handle_msg(c) \/ maker_handle_msg_fails(c)
    PROVE  OrderInv'
<1>1. MakerOK /\ LinkOK
  BY DEF TypeOK
<1>2. UNCHANGED <<taker, handed>> /\ sent'.taker = sent.taker
  BY DEF MakerSwapSends, farcasterd_handles, maker_starts, maker_handle_msg,
         maker_handle_msg_fails, TypeOK, SentOK
<1>3. \A e \in Conn : maker'[e].bridge = maker[e].bridge
  <2> USE <1>1 DEF MakerOK
  <2>1. CASE MakerSwapSends
    <3>1. CASE UNCHANGED maker
      BY <3>1
    <3>2. CASE maker' = [maker EXCEPT ![swap.peer].inbox = Append(@, sent.maker + 1)]
      <4>1. swap.peer \in Conn
        BY DEF TypeOK, SwapOK
      <4> QED
        BY <3>2, <4>1
    <3> QED
      BY <2>1, <3>1, <3>2 DEF MakerSwapSends
  <2>2. CASE farcasterd_handles
    <3> DEFINE d == Head(fd).conn
    <3>1. d \in Conn
      BY <2>2, Queues DEF TypeOK, QueueOK, farcasterd_handles
    <3>2. CASE PeerdReconnected(d)
      BY <3>1, <3>2 DEF PeerdReconnected
    <3>3. CASE handle_failed_connection(d)
      BY <3>1, <3>3 DEF handle_failed_connection
    <3> QED
      BY <2>2, <3>2, <3>3 DEF farcasterd_handles
  <2>3. CASE maker_starts(c)
    BY <2>3 DEF maker_starts
  <2>4. CASE maker_handle_msg(c)
    BY <2>4 DEF maker_handle_msg
  <2>5. CASE maker_handle_msg_fails(c)
    BY <2>5 DEF maker_handle_msg_fails
  <2> QED
    BY <2>1, <2>2, <2>3, <2>4, <2>5
<1>4. \A e \in Conn : link'[e].toM = link[e].toM /\ link'[e].alive = link[e].alive
  <2>1. CASE maker_handle_msg(c)
    <3>1. /\ Head(maker[c].inbox) \in Replied
          /\ link' = to_taker(c, Msg(Head(maker[c].inbox)))
      BY <1>1, <2>1, Queues DEF maker_handle_msg, MakerOK
    <3>2. Msg(Head(maker[c].inbox)) \in Packet(Replied)
      BY <3>1, Packets
    <3> QED
      BY <1>1, <3>1, <3>2, Writes
  <2>2. CASE UNCHANGED link
    BY <2>2
  <2> QED
    BY <2>1, <2>2 DEF MakerSwapSends, farcasterd_handles, maker_starts, maker_handle_msg_fails
<1>5. ConnectionsInOrder' /\ \A e \in Conn : Coming(e) \subseteq Coming(e)'
  BY <1>2, <1>3, <1>4, QueuesFrame DEF OrderInv
<1> QED
  BY <1>2, <1>4, <1>5, MakerFrame

LEMMA MakerReadsOrder ==
    ASSUME TypeOK, OrderInv, NEW c \in Conn, maker_reads(c) \/ maker_reader_ends(c)
    PROVE  OrderInv'
<1>1. UNCHANGED <<taker, sent, handed>>
  BY DEF maker_reads, maker_reader_ends
<1>2. MakerOK /\ LinkOK /\ ConnectionsInOrder
  BY DEF TypeOK, OrderInv
<1>3. \A e \in Conn : link'[e].alive = link[e].alive
  <2>1. CASE maker_reads(c)
    BY <1>2, <2>1 DEF LinkOK, maker_reads
  <2>2. CASE maker_reader_ends(c)
    BY <2>2 DEF maker_reader_ends
  <2> QED
    BY <2>1, <2>2
<1>4. ASSUME NEW p \in Packet(Sent), NEW t \in Seq(Packet(Sent)),
             maker' = [maker EXCEPT ![c].bridge = Append(@, p)] \/
                maker' = [maker EXCEPT ![c].reads = FALSE, ![c].bridge = Append(@, p)],
             \A e \in Conn : link'[e].toM = IF e = c THEN t ELSE link[e].toM,
             \A n \in Carried(p) : 1..(n - 1) \subseteq Read(c),
             InOrder(t, Read(c) \cup Carried(p)),
             Coming(c) = Read(c) \cup Carried(p) \cup Msgs(t)
      PROVE  OrderInv'
  <2>1. \A e \in Conn : maker'[e].bridge = IF e = c THEN Append(maker[c].bridge, p)
                                           ELSE maker[e].bridge
    BY <1>2, <1>4 DEF MakerOK
  <2>2. /\ maker[c].bridge \in Seq(Packet(Sent)) /\ InOrder(maker[c].bridge, handed)
        /\ \A n \in Carried(p) : 1..(n - 1) \subseteq handed \cup Msgs(maker[c].bridge)
    BY <1>2, <1>4 DEF MakerOK, ConnectionsInOrder, Read
  <2> DEFINE b == maker[c].bridge
  <2>3. Msgs(Append(b, p)) = Msgs(b) \cup Carried(p) /\ InOrder(Append(b, p), handed)
    <3>1. /\ b \in Seq(Packet(Sent)) /\ InOrder(b, handed)
          /\ \A n \in Carried(p) : 1..(n - 1) \subseteq handed \cup Msgs(b)
      BY <2>2
    <3> HIDE DEF b
    <3>2. Msgs(Append(b, p)) = Msgs(b) \cup Carried(p)
      BY <3>1, MsgsQueue
    <3>3. InOrder(Append(b, p), handed)
      BY <3>1, InOrderQueue
    <3> QED
      BY <3>2, <3>3
  <2>4. \A e \in Conn : Read(e)' = IF e = c THEN Read(c) \cup Carried(p) ELSE Read(e)
    BY <1>1, <2>1, <2>3 DEF Read
  <2>5. \A e \in Conn : Coming(e)' = Coming(e)
    <3>1. Coming(c)' = Coming(c)
      BY <1>4, <2>4 DEF Coming
    <3>2. \A e \in Conn : e # c => Coming(e)' = Coming(e)
      BY <1>4, <2>4 DEF Coming
    <3> QED
      BY <3>1, <3>2
  <2>6. ASSUME NEW e \in Conn
        PROVE  InOrder(maker'[e].bridge, handed') /\ InOrder(link'[e].toM, Read(e)')
    <3>1. CASE e = c
      BY <1>1, <1>4, <2>1, <2>3, <2>4, <3>1
    <3>2. CASE e # c
      BY <1>1, <1>2, <1>4, <2>1, <2>4, <3>2 DEF ConnectionsInOrder
    <3> QED
      BY <3>1, <3>2
  <2> QED
    BY <1>1, <1>3, <2>5, <2>6, MakerFrame DEF ConnectionsInOrder
<1> DEFINE q == link[c].toM
<1>5. q \in Seq(Packet(Sent)) /\ InOrder(q, Read(c))
  BY <1>2 DEF LinkOK, ConnectionsInOrder
<1>6. CASE maker_reads(c)
  <2> DEFINE p == Head(q)
             t == Tail(q)
  <2>1. /\ maker' = [maker EXCEPT ![c].bridge = Append(@, p)] /\ q # <<>>
        /\ \A e \in Conn : link'[e].toM = IF e = c THEN t ELSE link[e].toM
    BY <1>2, <1>6 DEF maker_reads, LinkOK
  <2> DEFINE H == Read(c)
  <2>2. /\ p \in Packet(Sent) /\ t \in Seq(Packet(Sent))
        /\ Msgs(q) = Carried(p) \cup Msgs(t)
        /\ InOrder(t, H \cup Carried(p)) /\ \A n \in Carried(p) : 1..(n - 1) \subseteq H
    <3> HIDE DEF q, H
    <3> QED
      BY <1>5, <2>1, Queues, MsgsQueue, InOrderQueue DEF H
  <2>3. Coming(c) = Read(c) \cup Carried(p) \cup Msgs(t)
    BY <2>2 DEF Coming
  <2> QED
    BY <1>4, <2>1, <2>2, <2>3
<1>7. CASE maker_reader_ends(c)
  <2> DEFINE p == PeerReceiverRuntimeShutdown
  <2>1. p \in Packet(Sent) /\ Carried(p) = {}
    BY Packets, Carries
  <2>2. /\ maker' = [maker EXCEPT ![c].reads = FALSE, ![c].bridge = Append(@, p)]
        /\ \A e \in Conn : link'[e].toM = IF e = c THEN q ELSE link[e].toM
    BY <1>7 DEF maker_reader_ends
  <2>3. Coming(c) = Read(c) \cup Carried(p) \cup Msgs(q)
    BY <2>1 DEF Coming
  <2>4. InOrder(q, Read(c) \cup Carried(p)) /\ \A n \in Carried(p) : 1..(n - 1) \subseteq Read(c)
    BY <1>5, <2>1
  <2> QED
    BY <1>4, <1>5, <2>1, <2>2, <2>3, <2>4
<1> QED
  BY <1>6, <1>7

\* What the maker's main loop takes from its bridge, and hands on if it is a message.
LEMMA MakerBridgeOrder ==
    ASSUME TypeOK, OrderInv, NEW c \in Conn, maker_handle_bridge(c)
    PROVE  /\ OrderInv'
           /\ handed' = handed \cup Carried(Head(maker[c].bridge))
           /\ \A n \in Carried(Head(maker[c].bridge)) : n \in Sent /\ 1..(n - 1) \subseteq handed
<1> DEFINE b == maker[c].bridge
           p == Head(b)
           t == Tail(b)
<1>1. /\ UNCHANGED <<taker, sent>> /\ b # <<>>
      /\ \/ maker_forwards(c, p) \/ maker_confirm_fails(c, p)
         \/ maker_receipt(c, p) \/ maker_shutdown(c, p)
  BY DEF maker_handle_bridge
<1>2. MakerOK /\ LinkOK /\ ConnectionsInOrder /\ Sent \in SUBSET Nat
  BY Typed DEF TypeOK, OrderInv
<1>3. b \in Seq(Packet(Sent)) /\ InOrder(b, handed)
  BY <1>2 DEF MakerOK, ConnectionsInOrder
<1>4. /\ p \in Packet(Sent) /\ t \in Seq(Packet(Sent)) /\ Msgs(b) = Carried(p) \cup Msgs(t)
      /\ InOrder(t, handed \cup Carried(p)) /\ \A n \in Carried(p) : 1..(n - 1) \subseteq handed
  <2> HIDE DEF b
  <2> QED
    BY <1>1, <1>3, Queues, MsgsQueue, InOrderQueue
<1>5. /\ Carried(p) \subseteq Sent /\ (p.kind = "msg" => Carried(p) = {p.n})
      /\ (p.kind # "msg" => Carried(p) = {})
  BY <1>2, <1>4, Carries
<1>6. handed' = handed \cup Carried(p)
  BY <1>1, <1>5 DEF maker_forwards, maker_confirm_fails, hands_on, maker_receipt,
                    maker_shutdown, Msg
<1>7. \A e \in Conn : maker'[e].bridge = IF e = c THEN t ELSE maker[e].bridge
  <2> USE <1>2 DEF MakerOK
  <2>1. CASE maker_forwards(c, p)
    BY <2>1 DEF maker_forwards
  <2>2. CASE maker_receipt(c, p)
    BY <2>2 DEF maker_receipt
  <2>3. CASE maker_shutdown(c, p)
    BY <2>3 DEF maker_shutdown
  <2>4. CASE maker_confirm_fails(c, p)
    BY <2>4 DEF maker_confirm_fails
  <2> QED
    BY <1>1, <2>1, <2>2, <2>3, <2>4
<1>8. \A e \in Conn : link'[e].toM = link[e].toM /\ link'[e].alive = link[e].alive
  <2>1. CASE maker_forwards(c, p)
    <3>1. link' = to_taker(c, Receipt(p.n)) /\ p.n \in Nat
      BY <1>2, <1>4, <2>1, Packets DEF maker_forwards
    <3>2. Receipt(p.n) \in Packet(Replied)
      BY <3>1, Packets
    <3> QED
      BY <1>2, <3>1, <3>2, Writes
  <2>2. CASE maker_confirm_fails(c, p) \/ maker_receipt(c, p) \/ maker_shutdown(c, p)
    BY <2>2 DEF maker_confirm_fails, maker_receipt, maker_shutdown
  <2> QED
    BY <1>1, <2>1, <2>2
<1>9. /\ \A e \in Conn : Read(e) \subseteq Read(e)' /\ Coming(e) \subseteq Coming(e)'
  <2>1. \A e \in Conn : Read(e) \subseteq Read(e)'
    BY <1>4, <1>6, <1>7 DEF Read
  <2> QED
    BY <1>8, <2>1 DEF Coming
<1>10. ASSUME NEW e \in Conn
       PROVE  InOrder(maker'[e].bridge, handed') /\ InOrder(link'[e].toM, Read(e)')
  <2>1. InOrder(maker[e].bridge, handed) /\ InOrder(link[e].toM, Read(e))
    BY <1>2 DEF ConnectionsInOrder
  <2>2. InOrder(maker[e].bridge, handed') /\ InOrder(link[e].toM, Read(e)')
    BY <1>6, <1>9, <2>1, InOrderMore
  <2>3. InOrder(t, handed')
    BY <1>4, <1>6
  <2> QED
    BY <1>7, <1>8, <2>2, <2>3
<1>11. OrderInv'
  BY <1>1, <1>6, <1>8, <1>9, <1>10, MakerFrame DEF ConnectionsInOrder
<1> QED
  BY <1>4, <1>5, <1>6, <1>11

\* A connection that ends loses what is last on it.
LEMMA EndsOrder ==
    ASSUME TypeOK, OrderInv, NEW c \in Conn, maker_terminates(c) \/ Break(c)
    PROVE  OrderInv'
<1>1. UNCHANGED <<taker, sent, handed>>
  BY DEF maker_terminates, Break
<1>2. MakerOK /\ LinkOK /\ ConnectionsInOrder
  BY DEF TypeOK, OrderInv
<1>3. \A H : InOrder(<<>>, H)
  BY DEF InOrder
<1>4. CASE maker_terminates(c)
  <2>1. \A e \in Conn : maker'[e].bridge = IF e = c THEN <<>> ELSE maker[e].bridge
    BY <1>2, <1>4 DEF MakerOK, maker_terminates, Gone
  <2>2. \A e \in Conn : /\ link'[e].toM = IF e = c THEN <<>> ELSE link[e].toM
                        /\ link'[e].alive = IF e = c THEN FALSE ELSE link[e].alive
    BY <1>2, <1>4 DEF LinkOK, maker_terminates
  <2>3. \A e \in Conn : e # c => Read(e)' = Read(e) /\ Coming(e)' = Coming(e)
    BY <1>1, <2>1, <2>2 DEF Read, Coming
  <2>4. ConnectionsInOrder'
    BY <1>1, <1>2, <1>3, <2>1, <2>2, <2>3 DEF ConnectionsInOrder
  <2> QED
    BY <1>1, <2>2, <2>3, <2>4, MakerFrame
<1>5. CASE Break(c)
  <2>1. PICK i \in 0..Len(link[c].toM) :
          \A e \in Conn : /\ link'[e].toM = IF e = c THEN SubSeq(link[c].toM, 1, i) ELSE link[e].toM
                          /\ link'[e].alive = IF e = c THEN FALSE ELSE link[e].alive
    BY <1>2, <1>5 DEF LinkOK, Break
  <2>2. maker' = maker /\ \A e \in Conn : Read(e)' = Read(e)
    BY <1>1, <1>5 DEF Break, Read
  <2>3. \A e \in Conn : e # c => Coming(e)' = Coming(e)
    BY <2>1, <2>2 DEF Coming
  <2>4. InOrder(SubSeq(link[c].toM, 1, i), Read(c))
    <3> DEFINE q == link[c].toM
               H == Read(c)
    <3>1. q \in Seq(Packet(Sent)) /\ InOrder(q, H) /\ i \in 0..Len(q)
      BY <1>2 DEF LinkOK, ConnectionsInOrder
    <3> HIDE DEF q, H
    <3>2. InOrder(SubSeq(q, 1, i), H)
      BY <3>1, InOrderQueue
    <3> QED
      BY <3>2 DEF q, H
  <2>5. ASSUME NEW e \in Conn
        PROVE  InOrder(maker'[e].bridge, handed') /\ InOrder(link'[e].toM, Read(e)')
    <3>1. InOrder(maker[e].bridge, handed) /\ InOrder(link[e].toM, Read(e))
      BY <1>2 DEF ConnectionsInOrder
    <3> QED
      BY <1>1, <2>1, <2>2, <2>4, <3>1
  <2> QED
    BY <1>1, <2>1, <2>3, <2>5, MakerFrame DEF ConnectionsInOrder
<1> QED
  BY <1>4, <1>5

LEMMA InitOrder == Init => OrderInv
<1> SUFFICES ASSUME Init PROVE OrderInv
  OBVIOUS
<1>1. /\ taker.inbox = <<>> /\ taker.hand = 0 /\ taker.cache = <<>> /\ taker.again = <<>>
      /\ sent.taker = 0
      /\ \A c \in Conn : maker[c].bridge = <<>> /\ link[c].toM = <<>>
  BY DEF Init, Open, Closed, Gone, run_from_listener
<1>2. Len(<<>>) = 0 /\ DOMAIN <<>> = {}
  OBVIOUS
<1>3. Written = {}
  BY <1>1, <1>2 DEF Written, Waiting
<1>4. NumberedOK
  BY <1>1, <1>2 DEF NumberedOK
<1>5. CacheOK /\ NothingMissing
  BY <1>1, <1>2, <1>3 DEF CacheOK, NothingMissing, Ascending, Elements
<1>6. ConnectionsInOrder
  BY <1>1, <1>2 DEF ConnectionsInOrder, InOrder
<1> QED
  BY <1>4, <1>5, <1>6 DEF OrderInv

\* Every step keeps the order, and hands on nothing or the next message.
LEMMA OrderStep ==
    ASSUME TypeOK, ReceiptsTrue, OrderInv, [Next]_vars
    PROVE  /\ OrderInv'
           /\ \/ Connection!Send \/ Connection!Deliver
              \/ UNCHANGED <<sent.taker, handed>>
<1> USE DEF Connection!Send, Connection!Deliver
<1>1. CASE TakerSwapSends
  BY <1>1, SwapSendsOrder DEF TakerSwapSends, TypeOK, SentOK
<1>2. CASE taker_handle_msg
  BY <1>2, HandleMsgOrder DEF taker_handle_msg
<1>3. CASE taker_handle_msg_fails
  BY <1>3, HandleMsgFailsOrder DEF taker_handle_msg_fails
<1>4. CASE taker_handle_bridge
  BY <1>4, TakerBridgeOrder DEF taker_handle_bridge
<1>5. CASE reconnect_peer
  BY <1>5, ReconnectOrder DEF reconnect_peer
<1>6. CASE resend_cached \/ resend_fails \/ reconnected
  BY <1>6, ResendOrder DEF resend_cached, resend_fails, reconnected
<1>7. CASE taker_reads \/ taker_reader_ends
  BY <1>7, TakerReadsOrder DEF taker_reads, taker_reader_ends
<1>8. ASSUME NEW c \in Conn,
             \/ MakerSwapSends \/ farcasterd_handles
             \/ maker_starts(c) \/ maker_handle_msg(c) \/ maker_handle_msg_fails(c)
      PROVE  OrderInv' /\ UNCHANGED <<sent.taker, handed>>
  <2>1. UNCHANGED <<sent.taker, handed>>
    BY <1>8 DEF MakerSwapSends, farcasterd_handles, maker_starts, maker_handle_msg,
                maker_handle_msg_fails, TypeOK, SentOK
  <2> QED
    BY <1>8, <2>1, MakerMainOrder
<1>9. ASSUME NEW c \in Conn, maker_reads(c) \/ maker_reader_ends(c)
      PROVE  OrderInv' /\ UNCHANGED <<sent.taker, handed>>
  BY <1>9, MakerReadsOrder DEF maker_reads, maker_reader_ends
<1>10. ASSUME NEW c \in Conn, maker_terminates(c) \/ Break(c)
       PROVE  OrderInv' /\ UNCHANGED <<sent.taker, handed>>
  BY <1>10, EndsOrder DEF maker_terminates, Break
<1>11. ASSUME NEW c \in Conn, maker_handle_bridge(c)
       PROVE  OrderInv' /\ (Connection!Deliver \/ UNCHANGED <<sent.taker, handed>>)
  <2> DEFINE p == Head(maker[c].bridge)
  <2>1. /\ OrderInv' /\ handed' = handed \cup Carried(p)
        /\ \A n \in Carried(p) : n \in Sent /\ 1..(n - 1) \subseteq handed
    BY <1>11, MakerBridgeOrder
  <2>2. UNCHANGED sent.taker
    BY <1>11 DEF maker_handle_bridge
  <2>3. CASE Carried(p) = {}
    BY <2>1, <2>2, <2>3
  <2>4. CASE Carried(p) # {}
    <3>1. PICK n \in Nat : p = Msg(n) /\ Carried(p) = {n}
      BY <2>4, Carries DEF Carried
    <3> QED
      BY <2>1, <2>2, <3>1 DEF Sent
  <2> QED
    BY <2>1, <2>3, <2>4
<1>12. CASE UNCHANGED vars
  <2>1. \A c \in Conn : Read(c)' = Read(c) /\ Coming(c)' = Coming(c)
    BY <1>12 DEF vars, Read, Coming
  <2>2. UNCHANGED <<taker, sent, maker, link, handed>>
    BY <1>12 DEF vars
  <2>3. ConnectionsInOrder'
    BY <2>1, <2>2 DEF OrderInv, ConnectionsInOrder
  <2> QED
    BY <2>1, <2>2, <2>3, MakerFrame
<1>13. 1 \in Conn
  BY PeerLinkAssumption DEF Conn
<1> QED
  BY <1>1, <1>2, <1>3, <1>4, <1>5, <1>6, <1>7, <1>8, <1>9, <1>10, <1>11, <1>12, <1>13
  DEF Next, TakerNext, MakerNext

(***************************************************************************)
(* The queues of every connection carry messages in the order in which     *)
(* they were sent, and what unchecked_msg_cache has let go was handed on:  *)
(* the invariant the next two theorems rest on.                            *)
(***************************************************************************)
THEOREM OrderCorrect == Spec => []OrderInv
<1>1. TypeOK /\ ReceiptsTrue /\ OrderInv /\ [Next]_vars => OrderInv'
  BY OrderStep
<1> QED
  BY <1>1, InitOrder, LinkTypeCorrect, NoFalseReceipt, PTL DEF Spec

(***************************************************************************)
(* A message that the taker's swapd has sent is in the inbox, in hand, or  *)
(* in unchecked_msg_cache until a maker's peerd has handed it on, whatever *)
(* breaks while handle_msg, reconnect_peer and handle_bridge run.          *)
(***************************************************************************)
THEOREM MessagesKept == Spec => []Kept
<1>1. TypeOK /\ OrderInv => Kept
  <2> SUFFICES ASSUME TypeOK, OrderInv, NEW n \in 1..sent.taker
               PROVE  \/ n \in Elements(taker.inbox) \cup Elements(taker.cache)
                      \/ n = taker.hand \/ n \in handed
    BY DEF Kept
  <2> DEFINE len == Len(taker.inbox)
  <2>1. sent.taker \in Nat /\ len \in Nat /\ DOMAIN taker.inbox = 1..len /\ n \in Nat
    <3>1. sent.taker \in Nat /\ taker.inbox \in Seq(Sent)
      BY Typed
    <3> QED
      BY <3>1, LenProperties
  <2>2. /\ \A i \in 1..len : taker.inbox[i] = sent.taker - len + i
        /\ taker.hand # 0 => taker.hand = sent.taker - len
        /\ Written \subseteq handed \cup Elements(taker.cache)
    BY <2>1 DEF OrderInv, NumberedOK, CacheOK
  <2>3. CASE n > sent.taker - len
    <3>1. n - (sent.taker - len) \in 1..len
      BY <2>1, <2>3
    <3>2. taker.inbox[n - (sent.taker - len)] = sent.taker - len + (n - (sent.taker - len))
      BY <2>2, <3>1
    <3>3. taker.inbox[n - (sent.taker - len)] = n
      BY <2>1, <3>2
    <3> QED
      BY <2>1, <3>1, <3>3 DEF Elements
  <2>4. CASE n = sent.taker - len /\ taker.hand # 0
    BY <2>2, <2>4
  <2>5. CASE n <= sent.taker - len /\ (n # sent.taker - len \/ taker.hand = 0)
    <3>1. Waiting = len + (IF taker.hand = 0 THEN 0 ELSE 1)
      BY DEF Waiting
    <3> HIDE DEF len
    <3>2. n \in Written
      BY <2>1, <2>5, <3>1 DEF Written
    <3> QED
      BY <2>2, <3>2
  <2> QED
    BY <2>1, <2>3, <2>4, <2>5
<1> QED
  BY <1>1, LinkTypeCorrect, OrderCorrect, PTL

(***************************************************************************)
(* However often the taker's peerd connects again and sends its cache once *)
(* more (reconnect_peer), the maker's bus is handed every message for the  *)
(* first time after all earlier ones: the peerds of both sides, and all    *)
(* connections between them, implement one connection that delivers in     *)
(* order and at least once.                                                *)
(***************************************************************************)
THEOREM DeliveredInOrder == Spec => Delivered
<1>1. Init => Connection!DeliveryInit
  BY DEF Init, Connection!DeliveryInit
<1>2. TypeOK /\ ReceiptsTrue /\ OrderInv /\ [Next]_vars
      => [Connection!Send \/ Connection!Deliver]_(Connection!deliveryVars)
  BY OrderStep DEF Connection!deliveryVars
<1> QED
  BY <1>1, <1>2, LinkTypeCorrect, NoFalseReceipt, OrderCorrect, PTL
  DEF Spec, Delivered, Connection!DeliverySpec

===============================================================================
