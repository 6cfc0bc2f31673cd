--------------------------- MODULE SlirpDatagrams ---------------------------
(***************************************************************************)
(* Everything but TCP in the slirp network daemon: fragments of the        *)
(* guest's IP packets, UDP through sockets of the host, pings, the errors  *)
(* the guest is told, ARP, and the addresses it is given by DHCP.          *)
(*                                                                         *)
(* Sources, under user/slirp: ip_input.c, ip_output.c, ip_icmp.c, udp.c,   *)
(* socket.c, if.c, mbuf.c, bootp.c, slirp.c and co_main.c.  The daemon has *)
(* one thread: it takes what the guest sent, looks at the clock of its     *)
(* sockets, waits for one of them, then reads them.  Each handler is one   *)
(* step on the record net.                                                 *)
(*                                                                         *)
(* A datagram of the guest is a name; Datagram tells what is in it, and    *)
(* its data are units <<name, i>>.  A packet of Mtu units fits the link.   *)
(* The clock counts in steps of the short expiry (ten seconds), modulo     *)
(* TimeMod for the 32 bits of milliseconds in the code.  The sockets of    *)
(* the host and who answers on them are external.                          *)
(***************************************************************************)
EXTENDS Integers, Sequences, FiniteSets, SequencesExt, FiniteSetsExt

CONSTANTS
  Datagram,        (* of each name: proto, id, src, from (port), to, port,
                      size, ulen, sum (checksums are right), df, type        *)
  Boot,            (* of each DHCP request: op, options, mac                 *)
  Exchange,        (* a sequence of what may happen in a behaviour: the frames of
                      the guest (a sequence), how often each may come, the memory in mbufs, whether a port
                      is redirected, the time at the start, the bounds on
                      ticks and answers                                      *)
  Mtu, Expire, FragTtl, NbAddr, TimeMod

ASSUME DatagramsAssumption ==
  /\ Mtu \in Nat \ {0} /\ FragTtl \in Nat \ {0} /\ NbAddr \in Nat \ {0}
  /\ Expire \in Nat \ {0, 1} /\ TimeMod > Expire
  /\ \A d \in DOMAIN Datagram : Datagram[d].size > 0 /\ Datagram[d].ulen > 0
  /\ DOMAIN Boot \subseteq DOMAIN Datagram
  /\ {"none", "garbled"} \intersect DOMAIN Datagram = {}

VARIABLES
  exchange,        (* which of Exchange happens                              *)
  net,             (* the daemon                                             *)
  frames,          (* how often each of its frames came                      *)
  wall,            (* the clock of the host                                  *)
  ticks, answers   (* how often it moved on, and what came back              *)

datagramsVars == <<exchange, net, frames, wall, ticks, answers>>

This == Exchange[exchange]

ExpireFast == 1
NoSocket == 0

(* mbufs: those that are not on the free list; leaked: history, those nothing refers to.
   phase: where the main loop is.  out, whole, given and dropped: history of the last step,
   the packets to the guest, the datagrams a protocol got, those a socket of the host got,
   and the sockets that expired. *)
Started(memory, time) ==
  [phase |-> "input", mbufs |-> 0, leaked |-> 0, ipq |-> {}, udb |-> <<>>, last |-> NoSocket,
   eth |-> "broadcast", leases |-> [i \in 1..NbAddr |-> "none"], curtime |-> 0, slow |-> 0,
   doSlow |-> FALSE, selected |-> {}, out |-> <<>>, whole |-> {}, given |-> {},
   dropped |-> {}]

Quiet(s) == [s EXCEPT !.out = <<>>, !.whole = {}, !.given = {}, !.dropped = {}]

-----------------------------------------------------------------------------
(* Mbufs.  m_get finds one on the free list or allocates it. *)
HasRoom(s, n) == s.mbufs + n <= This.memory
Got(s) == [s EXCEPT !.mbufs = @ + 1]
Freed(s, n) == [s EXCEPT !.mbufs = @ - n]

(* Sockets, the newest first. *)
Ids(s) == {s.udb[i].id : i \in DOMAIN s.udb}
SocketOf(s, id) == CHOOSE so \in ToSet(s.udb) : so.id = id
Updated(s, so) ==
  [s EXCEPT !.udb = [i \in DOMAIN @ |-> IF @[i].id = so.id THEN so ELSE @[i]]]

(* idle and the next fields are history: since when nothing was sent or came, how far the
   daemon's clock was behind then, what it allowed, and whether the sum did not fit. *)
Timed(s, so, time) ==
  [so EXCEPT !.expire = (s.curtime + time) % TimeMod, !.idle = 0,
             !.behind = (wall - s.curtime) % TimeMod, !.allowed = time,
             !.wraps = s.curtime + time >= TimeMod]
Refreshed(s, so, time) == IF so.expire = 0 THEN so ELSE Timed(s, so, time)

Created(s, type, host, port) ==
  [id |-> CHOOSE i \in 1..(Len(s.udb) + 1) : i \notin Ids(s), type |-> type,
   laddr |-> host, lport |-> port, faddr |-> "any", fport |-> "any", expire |-> 0,
   connected |-> FALSE, m |-> "none", idle |-> 0, behind |-> 0, allowed |-> 0,
   wraps |-> FALSE]

udp_attach(s, so) == [s EXCEPT !.udb = <<Timed(s, so, Expire)>> \o @]

(* sofree: the packet kept for an error goes, and the cache forgets the socket. *)
Keeping(s) == {so \in ToSet(s.udb) : so.m # "none"}
udp_detach(s, ids) ==
  [s EXCEPT !.udb = SelectSeq(@, LAMBDA so : so.id \notin ids),
            !.last = IF @ \in ids THEN NoSocket ELSE @,
            !.mbufs = @ - Cardinality({so \in Keeping(s) : so.id \in ids})]

(* A redirected port is never given up, when the host has it free. *)
udp_listen(s, port, bound) ==
  IF bound THEN [s EXCEPT !.udb = <<[Created(s, "udp", "client", port) EXCEPT
                                        !.connected = TRUE]>> \o @]
           ELSE s

-----------------------------------------------------------------------------
(* To the guest. *)

Packet(kind, d, size) ==
  [kind |-> kind, d |-> d, size |-> size, to |-> "any", shown |-> "alias", peer |-> "any",
   asked |-> "any", lease |-> 0]

Piece(p, off, len, more, eth) == [p |-> p, off |-> off, len |-> len, more |-> more, eth |-> eth]
ArpFrame(kind) == Piece(Packet(kind, "none", 0), 0, 0, FALSE, "any")

(* While the guest's hardware address is not known it is asked for before each, which is then
   sent to all. *)
if_encap(s, pieces) ==
  LET framed == [i \in DOMAIN pieces |-> [pieces[i] EXCEPT !.eth = s.eth]]
  IN [s EXCEPT !.out = @ \o (IF s.eth = "broadcast"
                             THEN [j \in 1..(2 * Len(pieces)) |->
                                     IF j % 2 = 1 THEN ArpFrame("arp request")
                                     ELSE framed[j \div 2]]
                             ELSE framed)]

(* The queues of the sessions: a link that always takes a packet leaves none in them. *)
if_start(s, pieces) == Freed(if_encap(s, pieces), Len(pieces))
if_output(s, pieces) == if_start(s, pieces)

Pieces(p) ==
  LET n == (p.size + Mtu - 1) \div Mtu
      LenOf(i) == IF i < n THEN Mtu ELSE p.size - (n - 1) * Mtu
  IN [i \in 1..n |-> Piece(p, (i - 1) * Mtu, LenOf(i), i < n, "any")]

(* What does not fit is sent in pieces, all of them or, without memory, none.  The mbuf of the
   packet is freed in either case. *)
ip_output(s, p, df) ==
  LET pieces == Pieces(p)  more == Len(pieces) - 1 IN
  IF more > 0 /\ (df \/ ~HasRoom(s, more)) THEN Freed(s, 1)
  ELSE if_output([s EXCEPT !.mbufs = @ + more], pieces)

(* An error about a packet of the guest, which it leaves alone; only about the first fragment,
   never about another error. *)
IcmpFlush(d) == Datagram[d].proto = "icmp" /\ Datagram[d].type = "unreach"
icmp_error(s, d, off) ==
  IF d = "none" \/ off > 0 \/ (d \in DOMAIN Datagram /\ IcmpFlush(d)) \/ ~HasRoom(s, 1) THEN s
  ELSE ip_output(Got(s), Packet("error", d, 1), FALSE)

icmp_reflect(s, d) ==
  IF d = "garbled" THEN ip_output(s, Packet("echo", d, 1), FALSE)
  ELSE ip_output(s, Packet("echo", d, Datagram[d].size), Datagram[d].df)

(* The host as the guest addresses it, and where that is. *)
RealOf(addr) ==
  CASE addr = "alias" -> "loopback" [] addr = "dns" -> "nameserver" [] OTHER -> addr

(* From whom the guest sees an answer. *)
ShownAs(so, peer) ==
  IF so.faddr = "dns" THEN "dns"
  ELSE IF so.faddr = "alias" /\ peer = "loopback" THEN "alias" ELSE peer

udp_output2(s, p) == ip_output(s, p, FALSE)
udp_output(s, so, peer, size) ==
  udp_output2(s, [Packet("data", so.m, size) EXCEPT
                    !.to = so.lport, !.shown = ShownAs(so, peer), !.peer = peer,
                    !.asked = so.faddr])

-----------------------------------------------------------------------------
(* DHCP *)

(* The last message type before the end. *)
DhcpDecode(options) ==
  LET end == {i \in DOMAIN options : options[i] = "end"}
      types == {i \in DOMAIN options :
                  /\ options[i] \notin {"pad", "end", "other"}
                  /\ \A j \in end : i < j}
  IN IF types = {} THEN "none" ELSE options[CHOOSE i \in types : \A j \in types : j <= i]

LowestOf(S) == CHOOSE i \in S : \A j \in S : i <= j
find_addr(s, mac) == {i \in 1..NbAddr : s.leases[i] = mac}
get_new_addr(s) == {i \in 1..NbAddr : s.leases[i] = "none"}

(* A discover always takes a new address; without one, the mbuf of the reply stays behind. *)
bootp_reply(s, d) ==
  LET mac  == Boot[d].mac
      type == DhcpDecode(Boot[d].options)
      known == [s EXCEPT !.eth = mac]
      had  == IF type = "discover" THEN {} ELSE find_addr(s, mac)
      free == get_new_addr(s)
      addr == IF had # {} THEN LowestOf(had) ELSE LowestOf(free)
      lease == [known EXCEPT !.leases[addr] = mac]
      kind == IF type = "discover" THEN "offer" ELSE "ack"
  IN IF type \notin {"none", "discover", "request"} THEN s
     ELSE IF ~HasRoom(s, 1) THEN known
     ELSE IF had \union free = {} THEN [Got(known) EXCEPT !.leaked = @ + 1]
     ELSE udp_output2(Got(lease), [Packet(kind, d, 1) EXCEPT !.lease = addr])

bootp_input(s, d) == IF Boot[d].op = "request" THEN bootp_reply(s, d) ELSE s

-----------------------------------------------------------------------------
(* UDP and ICMP from the guest.  x: the datagram, with the units that arrived; host: whether
   the host has a socket for it and takes what it is sent. *)

Truncated(x) == SubSeq(x.units, 1, Datagram[x.d].ulen)

(* The socket used last, else the newest one, of the port of the guest. *)
Owns(so, u) == so.lport = u.from /\ so.laddr = u.src
Located(s, u) ==
  IF s.last # NoSocket /\ Owns(SocketOf(s, s.last), u) THEN s.last
  ELSE LET mine == {i \in DOMAIN s.udb : Owns(s.udb[i], u)}
       IN IF mine = {} THEN NoSocket ELSE s.udb[LowestOf(mine)].id

sosendto(s, so, x) ==
  LET sent == [Refreshed(s, so, Expire) EXCEPT !.connected = TRUE]
  IN [Updated(s, sent) EXCEPT
        !.given = @ \union {[d |-> x.d, units |-> Truncated(x), port |-> so.lport,
                             real |-> RealOf(so.faddr)]}]

(* What was sent is kept for an error that the socket may still tell.  One that could not be
   sent has its headers restored twice: it then begins before the datagram, garbled. *)
KeepForError(s, id, d) ==
  LET so == SocketOf(s, id)
  IN [Updated(s, [so EXCEPT !.m = d]) EXCEPT !.mbufs = IF so.m = "none" THEN @ ELSE @ - 1]

Addressed(so, u) == [so EXCEPT !.faddr = u.to, !.fport = u.port]

UdpSound(x) == Datagram[x.d].ulen <= Len(x.units) /\ Datagram[x.d].sum

udp_input(s, x, host) ==
  LET u     == Datagram[x.d]
      found == Located(s, u)
      fresh == Created(s, "udp", u.src, u.from)
      s1    == IF found = NoSocket THEN udp_attach(s, fresh) ELSE [s EXCEPT !.last = found]
      id    == IF found = NoSocket THEN fresh.id ELSE found
      so    == Addressed(SocketOf(s1, id), u)
      s2    == IF host.takes THEN sosendto(s1, so, x)
               ELSE icmp_error(Updated(s1, so), x.d, 0)
  IN IF ~UdpSound(x) THEN Freed(s, 1)
     ELSE IF u.port = "bootps" THEN Freed(bootp_input(s, x.d), 1)
     ELSE IF found = NoSocket /\ ~host.opens THEN Freed(s, 1)
     ELSE KeepForError(s2, id, IF host.takes THEN x.d ELSE "garbled")

(* A ping to another host becomes a packet of a socket of its own to the echo port, which is
   of the discard port of the guest. *)
icmp_input(s, x, host) ==
  LET u  == Datagram[x.d]
      so == [Addressed(Created(s, "icmp", u.src, "discard"), [u EXCEPT !.port = "echo"]) EXCEPT
               !.connected = TRUE, !.m = x.d]
  IN IF Len(x.units) < u.ulen \/ ~u.sum \/ u.type # "echo" THEN Freed(s, 1)
     ELSE IF u.to = "alias" THEN icmp_reflect(s, x.d)
     ELSE IF ~host.opens THEN Freed(s, 1)
     ELSE IF ~host.takes
     THEN LET t == udp_attach(s, so) IN udp_detach(icmp_error(t, x.d, 0), {so.id})
     ELSE udp_attach(s, so)

Delivered(s, x, host) ==
  LET t == [s EXCEPT !.whole = @ \union {x}] IN
  CASE Datagram[x.d].proto = "udp" -> udp_input(t, x, host)
    [] Datagram[x.d].proto = "icmp" -> icmp_input(t, x, host)
    [] OTHER -> Freed(t, 1)

-----------------------------------------------------------------------------
(* Fragments *)

KeyOf(f) == LET u == Datagram[f.d]
            IN [id |-> u.id, src |-> u.src, to |-> u.to, proto |-> u.proto]
QueueOf(s, f) == {q \in s.ipq : q.key = KeyOf(f)}
EndOf(g) == g.off + g.len
UnitsOf(frags) ==
  FlattenSeq([j \in DOMAIN frags |-> [i \in 1..frags[j].len |-> <<frags[j].d, frags[j].off + i>>]])

QueuedMbufs(qs) == Cardinality(UNION {{<<q.key, j>> : j \in 0..Len(q.frags)} : q \in qs})
ip_freef(s, qs) == Freed([s EXCEPT !.ipq = @ \ qs], QueuedMbufs(qs))

(* The incoming fragment is cut by the one before it, or is of no use; those after it are cut
   by it, or go.  (One that goes is freed before it is taken off the queue, and found there by
   its own links, which lie in its data and which the free list leaves as they are.) *)
Preceding(q, f) == Cardinality({j \in DOMAIN q.frags : q.frags[j].off <= f.off})
CutBefore_LengthKept(q, f) ==
  LET k == Preceding(q, f)
  IN IF k > 0 /\ EndOf(q.frags[k]) > f.off THEN [f EXCEPT !.off = EndOf(q.frags[k])] ELSE f
CutBefore(q, f) ==
  LET k == Preceding(q, f)
      i == IF k = 0 THEN 0 ELSE EndOf(q.frags[k]) - f.off
  IN IF i > 0 THEN [f EXCEPT !.off = @ + i, !.len = @ - i] ELSE f
CutAfter(later, end) ==
  LET left == SelectSeq(later, LAMBDA g : EndOf(g) > end)
  IN [j \in DOMAIN left |->
        IF left[j].off < end THEN [left[j] EXCEPT !.off = end, !.len = EndOf(left[j]) - end]
        ELSE left[j]]
Inserted(q, f) ==
  LET k == Preceding(q, f)  g == CutBefore(q, f)
  IN SubSeq(q.frags, 1, k) \o <<g>> \o
       CutAfter(SubSeq(q.frags, k + 1, Len(q.frags)), EndOf(g))

CompleteWith(frags) ==
  /\ frags[1].off = 0
  /\ \A j \in 2..Len(frags) : frags[j].off = EndOf(frags[j - 1])
  /\ ~frags[Len(frags)].more

(* The header of the queue is an mbuf of its own. *)
Stored(s, f) ==
  LET frag == [d |-> f.d, off |-> f.off, len |-> f.len, more |-> f.more]
      q == CHOOSE r \in QueueOf(s, f) : TRUE
      held == Inserted(q, frag)
      gone == Len(q.frags) + 1 - Len(held)
  IN IF QueueOf(s, f) = {}
     THEN IF HasRoom(s, 1)
          THEN [Got(s) EXCEPT !.ipq = @ \union {[key |-> KeyOf(f), ttl |-> FragTtl,
                                                 frags |-> <<frag>>]}]
          ELSE Freed(s, 1)
     ELSE IF CutBefore(q, frag).len <= 0 THEN Freed(s, 1)
     ELSE Freed([s EXCEPT !.ipq = (@ \ {q}) \union {[q EXCEPT !.frags = held]}], gone)

(* A complete one becomes one mbuf, the first of them. *)
ip_reass(s, f, host) ==
  LET t == Stored(s, f)
      done == {q \in QueueOf(t, f) : CompleteWith(q.frags)}
      q == CHOOSE r \in done : TRUE
  IN IF done = {} THEN t
     ELSE Delivered(Got(ip_freef(t, {q})), [d |-> q.frags[1].d, units |-> UnitsOf(q.frags)], host)

(* A packet below the size of a header is left behind.  The reserved bit makes one look like a
   fragment that it is not. *)
ip_input(s, f, host) ==
  LET self == [d |-> f.d, units |-> UnitsOf(<<f>>)] IN
  CASE f.header = "small" -> [s EXCEPT !.leaked = @ + 1]
    [] f.header = "wrong" -> Freed(s, 1)
    [] f.header = "ttl" -> Freed(icmp_error(s, f.d, f.off), 1)
    [] f.header = "good" /\ (f.more \/ f.off > 0) -> ip_reass(s, f, host)
    [] f.header = "good" /\ ~f.more /\ f.off = 0 -> Delivered(s, self, host)
    [] f.header = "reserved" ->
         Delivered(ip_freef(s, QueueOf(s, f)), self, host)

ip_slowtimo(s) ==
  LET aged == {[q EXCEPT !.ttl = @ - 1] : q \in s.ipq}
  IN ip_freef([s EXCEPT !.ipq = aged], {q \in aged : q.ttl = 0})

arp_input(s, f) ==
  CASE f.header = "request" /\ f.to \in {"dns", "alias"} ->
         [s EXCEPT !.out = Append(@, ArpFrame("arp reply"))]
    [] f.header = "reply" /\ f.to = "client" -> [s EXCEPT !.eth = f.d]
    [] OTHER -> s

slirp_input(s, f, host) ==
  CASE f.eth = "arp" -> arp_input(s, f)
    [] f.eth = "ip" -> IF HasRoom(s, 1) THEN ip_input(Got(s), f, host) ELSE s
    [] OTHER -> s

-----------------------------------------------------------------------------
(* The main loop *)

StartsWith(x) ==
  /\ exchange = x
  /\ wall = This.start /\ ticks = 0 /\ answers = 0
  /\ frames = [i \in DOMAIN This.frames |-> 0]
  /\ \E bound \in BOOLEAN :
       LET s == Started(This.memory, wall)
       IN net = IF This.redirect THEN udp_listen(s, "served", bound) ELSE s

DatagramsInit == \E x \in DOMAIN Exchange : StartsWith(x)

(* co_reactor_select hands on what the guest sent, until there is no more. *)
FrameArrives(i) ==
  /\ net.phase = "input" /\ frames[i] < This.copies
  /\ frames' = [frames EXCEPT ![i] = @ + 1]
  /\ \E opens, takes \in BOOLEAN :
       net' = slirp_input(Quiet(net), This.frames[i], [opens |-> opens, takes |-> takes])
  /\ UNCHANGED <<exchange, wall, ticks, answers>>

(* slirp_select_fill *)
IsExpired(so) == so.expire # 0 /\ so.expire <= net.curtime
Fill ==
  /\ net.phase = "input"
  /\ LET over == {so \in ToSet(net.udb) : IsExpired(so)}
         s == udp_detach(Quiet(net), {so.id : so \in over})
     IN net' = [s EXCEPT
                  !.phase = "select", !.dropped = over,
                  !.doSlow = s.ipq # {} \/ \E so \in ToSet(s.udb) : so.expire # 0,
                  !.selected = {so.id : so \in {o \in ToSet(s.udb) : o.connected}}]
  /\ UNCHANGED <<exchange, frames, wall, ticks, answers>>

(* The clock is read, and the timer runs if there was anything for it before. *)
Poll ==
  /\ net.phase = "select"
  /\ LET s == [Quiet(net) EXCEPT !.phase = "read", !.curtime = wall]
     IN net' = IF net.doSlow /\ wall # net.slow
               THEN [ip_slowtimo(s) EXCEPT !.slow = wall] ELSE s
  /\ UNCHANGED <<exchange, frames, wall, ticks, answers>>

(* What lies before a garbled packet may or may not look like one an error is sent about. *)
ErrorAbout(s, kept, legible) ==
  IF kept = "garbled" /\ ~legible THEN s ELSE icmp_error(s, kept, 0)

(* A ping's socket has done its work with whatever comes; an answer that is refused on Windows
   is one. *)
PingAnswered(s, so, kind, legible) ==
  IF kind = "error" THEN udp_detach(ErrorAbout(s, so.m, legible), {so.id})
  ELSE udp_detach(icmp_reflect(Updated(s, [so EXCEPT !.m = "none"]), so.m), {so.id})

UdpAnswered(s, so, kind, peer, size, legible) ==
  IF ~HasRoom(s, 1) THEN s
  ELSE IF kind # "data" THEN Freed(ErrorAbout(Got(s), so.m, legible), 1)
  ELSE LET again == Refreshed(s, so, IF so.fport = "domain" THEN ExpireFast ELSE Expire)
       IN udp_output(Updated(Got(s), again), again, peer, size)

sorecvfrom(id) ==
  /\ net.phase = "read" /\ id \in net.selected /\ id \in Ids(net)
  /\ answers < This.answers /\ answers' = answers + 1
  /\ \E kind \in {"data", "reset", "error"}, peer \in {"loopback", "nameserver", "net"},
        size \in {1, Mtu + 1}, legible \in BOOLEAN :
       LET so == SocketOf(net, id)  s == [Quiet(net) EXCEPT !.selected = @ \ {id}] IN
       /\ so.type = "icmp" \/ kind # "data" => size = 1
       /\ so.type = "icmp" \/ kind # "data" => peer = "net"
       /\ so.m # "garbled" => legible
       /\ net' = IF so.type = "icmp" THEN PingAnswered(s, so, kind, legible)
                 ELSE UdpAnswered(s, so, kind, peer, size, legible)
  /\ UNCHANGED <<exchange, frames, wall, ticks>>

LoopsOn ==
  /\ net.phase = "read"
  /\ net' = [Quiet(net) EXCEPT !.phase = "input", !.selected = {}]
  /\ UNCHANGED <<exchange, frames, wall, ticks, answers>>

Tick ==
  /\ ticks < This.ticks /\ ticks' = ticks + 1
  /\ wall' = (wall + 1) % TimeMod
  /\ net' = [Quiet(net) EXCEPT !.udb = [i \in DOMAIN @ |-> [@[i] EXCEPT !.idle = @ + 1]]]
  /\ UNCHANGED <<exchange, frames, answers>>

DatagramsNext ==
  \/ \E i \in DOMAIN frames : FrameArrives(i)
  \/ Fill \/ Poll \/ LoopsOn \/ Tick
  \/ \E id \in net.selected : sorecvfrom(id)

DatagramsSpec == DatagramsInit /\ [][DatagramsNext]_datagramsVars

-----------------------------------------------------------------------------
DatagramsTypeOK ==
  /\ exchange \in DOMAIN Exchange
  /\ net.phase \in {"input", "select", "read"}
  /\ net.mbufs \in 0..This.memory /\ net.leaked \in 0..net.mbufs
  /\ net.last \in Ids(net) \union {NoSocket}
  /\ net.curtime \in 0..(TimeMod - 1) /\ wall \in 0..(TimeMod - 1)

(* What a protocol gets is one datagram of the guest, whole, in whatever order, overlap and
   number its fragments came; and the fragments that wait are in order and apart. *)
WholeDatagrams ==
  /\ \A x \in net.whole : x.units = [i \in 1..Datagram[x.d].size |-> <<x.d, i>>]
  /\ \A q \in net.ipq : \A j \in DOMAIN q.frags :
       /\ q.frags[j].len > 0
       /\ j > 1 => EndOf(q.frags[j - 1]) <= q.frags[j].off

(* An mbuf that is not free is a fragment, the head of a queue, or kept by a socket, or it is
   one of the two kinds that are left behind. *)
MbufsHeld == net.mbufs = net.leaked + QueuedMbufs(net.ipq) + Cardinality(Keeping(net))

(* A datagram leaves through the socket of the port it came from, for the place that its
   address stands for. *)
LeavesByItsPort ==
  \A x \in net.given :
    /\ Datagram[x.d].from = x.port /\ RealOf(Datagram[x.d].to) = x.real
    /\ Len(x.units) = Datagram[x.d].ulen

(* The pieces of a packet to the guest follow each other and are all of it. *)
Ips == SelectSeq(net.out, LAMBDA o : o.p.kind \notin {"arp request", "arp reply"})
PiecesWhole ==
  \A i \in DOMAIN Ips :
    /\ Ips[i].off + Ips[i].len = Ips[i].p.size <=> ~Ips[i].more
    /\ Ips[i].len \in 1..Mtu
    /\ IF i = 1 THEN Ips[i].off = 0 ELSE Ips[i].off = Ips[i - 1].off + Ips[i - 1].len

(* An answer of the one whom the guest asked last on that port is shown as from the address it
   asked.  One of somebody else may not be: the nameserver's address is put on every answer,
   and one from this machine keeps the loopback address when another was asked since. *)
AnswersShown ==
  \A i \in DOMAIN Ips :
    LET p == Ips[i].p IN
    p.kind = "data" /\ p.peer = RealOf(p.asked) => p.shown = p.asked

(* An echo is of a ping; or of a datagram from the discard port, which finds the socket of a
   ping as its own, and of what precedes it in memory when it could not be sent. *)
EchoesArePings ==
  \A i \in DOMAIN Ips :
    LET p == Ips[i].p IN
    p.kind = "echo" =>
      \/ p.d = "garbled" /\ \E d \in DOMAIN Datagram : Datagram[d].from = "discard"
      \/ Datagram[p.d].proto = "icmp" \/ Datagram[p.d].from = "discard"

(* A socket is given up only after its time without traffic, and a redirected port never; but
   the daemon reads its clock once a round, and so counts from when it read it last (from 0
   before the first time), and a sum that does not fit is over at once. *)
ExpiresWhenIdle ==
  \A so \in net.dropped : so.wraps \/ so.idle + so.behind >= so.allowed

(* An address in a DHCP answer is leased to who asked, and an acknowledged one is the first
   that this one ever had, whatever was offered since. *)
LeasesKept ==
  \A i \in DOMAIN Ips :
    LET p == Ips[i].p IN
    p.kind \in {"offer", "ack"} =>
      /\ net.leases[p.lease] = Boot[p.d].mac
      /\ p.kind = "ack" => p.lease = LowestOf(find_addr(net, Boot[p.d].mac))

DatagramsAgree ==
  /\ WholeDatagrams /\ MbufsHeld /\ LeavesByItsPort /\ PiecesWhole /\ AnswersShown
  /\ EchoesArePings /\ ExpiresWhenIdle /\ LeasesKept

=============================================================================
