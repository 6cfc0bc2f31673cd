------------------------------ MODULE SlirpTcp ------------------------------
(***************************************************************************)
(* One TCP connection through the slirp network daemon.  The guest's       *)
(* segments end in the daemon: it answers them with a TCP of its own and   *)
(* relays the two byte streams to and from a socket of the host.           *)
(*                                                                         *)
(* Sources, under user/slirp: tcp_input.c, tcp_output.c, tcp_subr.c,       *)
(* tcp_timer.c, sbuf.c, socket.c, slirp.c and co_main.c.  The daemon has   *)
(* one thread; each handler is one step and works on the connection's      *)
(* record, conn.  The TCP of the guest and the peer of the host's socket   *)
(* are external: they follow the protocol and may fail.                    *)
(*                                                                         *)
(* A stream is a sequence of units, numbered from 1; sequence numbers      *)
(* count units, a SYN and a FIN one each, from 0.  All units fit into one  *)
(* segment, so the congestion window, which is at least one segment, never *)
(* limits, and a unit is at least half of any window of the guest, so      *)
(* silly-window avoidance never holds one back.  Urgent data, the emulated *)
(* protocols and the daemon's control addresses are left out.              *)
(***************************************************************************)
EXTENDS Integers, Sequences, FiniteSets

CONSTANTS
  Connection,      (* who opens it, the units the guest and the host have, and
                      the guest's receive buffer                             *)
  RcvSpace, SndSpace,      (* so_rcv.sb_datalen, so_snd.sb_datalen           *)
  NetRoom          (* segments on the way in a direction                     *)

ASSUME SlirpAssumption ==
  /\ Connection \subseteq [opener : {"guest", "host"}, guest : Nat, host : Nat,
                               space : 1..2]
  /\ NetRoom \in Nat \ {0}
  /\ RcvSpace \in Nat \ {0} /\ SndSpace \in Nat \ {0, 1}

VARIABLES
  conn,            (* struct socket and struct tcpcb; out: what was sent     *)
  guestTcp,        (* the guest's TCP                                        *)
  toSlirp,         (* its segments on the way                                *)
  peer,            (* the host's socket and the peer behind it               *)
  aborted          (* history: the connection was given up, or broken        *)

slirpVars == <<conn, guestTcp, toSlirp, peer, aborted>>

MinOf(a, b) == IF a < b THEN a ELSE b
MaxOf(a, b) == IF a < b THEN b ELSE a
Upto(n) == [i \in 1..n |-> i]
Drop(s, n) == SubSeq(s, n + 1, Len(s))

(* tcp_newtcpcb, tcp_sendseqinit and tcp_rcvseqinit.  so: the flags of so_state; held and
   finHeld: the reassembly queue, as the units and the FIN that are in it; out: segments on
   the way to the guest; given: what the host's socket has taken; ended and lost: history, how
   the connection ended and what it had not written then.  iss: "known", or, when the loop
   has given up waiting for the connect, where the number of the guest's SYN lies from
   rcv_nxt, which then is still the 0 of a cleared record. *)
Fresh(state, flags, rcv) ==
  [state |-> state, so |-> flags, una |-> 0, nxt |-> 0, max |-> 0, wnd |-> 0,
   wl1 |-> 0, wl2 |-> 0, rcv |-> rcv, adv |-> rcv, held |-> {}, finHeld |-> 0,
   acknow |-> FALSE, delack |-> FALSE, sentfin |-> FALSE, timers |-> {},
   rcvbuf |-> <<>>, sndbuf |-> <<>>, needoutput |-> FALSE,
   iss |-> "known", out |-> <<>>, given |-> <<>>, ended |-> "no", lost |-> <<>>]

Nobody == Fresh("none", {}, 0)
Live == conn.state \notin {"none", "gone"}
Before(state) == state \in {"LISTEN", "SYN_SENT", "SYN_RECEIVED"}
AfterCloseWait(state) ==
  state \in {"FIN_WAIT_1", "CLOSING", "LAST_ACK", "FIN_WAIT_2", "TIME_WAIT"}

SlirpInit ==
  /\ conn = Nobody /\ toSlirp = <<>> /\ aborted = FALSE
  /\ guestTcp = [units |-> 0, space |-> 1, state |-> "closed", una |-> 0, nxt |-> 0,
                 edge |-> 0, rcv |-> 0, finished |-> FALSE, got |-> <<>>, unread |-> 0,
                 eof |-> FALSE]
  /\ peer = [units |-> 0, state |-> "closed", wrote |-> 0, read |-> 0, eof |-> FALSE]

-----------------------------------------------------------------------------
(* tcp_output *)

Segment(flags, seq, ack, data, win) ==
  [flags |-> flags, seq |-> seq, ack |-> ack, data |-> data, win |-> win]

(* slirp_output: the message to the guest is discardable. *)
Emit(c, seg) == IF Len(c.out) < NetRoom THEN [c EXCEPT !.out = Append(@, seg)] ELSE c

OutFlags(state) ==
  CASE state = "CLOSED" -> {"RST", "ACK"}
    [] state = "SYN_SENT" -> {"SYN"}
    [] state = "SYN_RECEIVED" -> {"SYN", "ACK"}
    [] state \in {"FIN_WAIT_1", "CLOSING", "LAST_ACK"} -> {"FIN", "ACK"}
    [] OTHER -> {"ACK"}

Space(c) == RcvSpace - Len(c.rcvbuf)

(* What there is to send, within the window, or one unit beyond a closed one when forced;
   a closed window takes back what was sent into it. *)
Window(c, force) == IF force /\ c.wnd = 0 THEN 1 ELSE c.wnd
Allowed(c, force) == MinOf(Len(c.sndbuf), Window(c, force)) - (c.nxt - c.una)
Sendable(c, force) == MaxOf(0, Allowed(c, force))
Pulled(c, force) ==
  LET opened == IF force /\ c.wnd > 0 THEN [c EXCEPT !.timers = @ \ {"PERSIST"}] ELSE c
  IN IF Allowed(c, force) < 0 /\ Window(c, force) = 0
     THEN [opened EXCEPT !.timers = @ \ {"REXMT"}, !.nxt = c.una] ELSE opened

(* No FIN before the last unit of the buffer. *)
FlagsNow(c, force) ==
  LET d == Pulled(c, force) IN
  OutFlags(c.state) \ (IF d.nxt + Sendable(c, force) < d.una + Len(d.sndbuf) \/
                          (force /\ c.wnd = 0 /\ c.nxt - c.una < Len(c.sndbuf))
                       THEN {"FIN"} ELSE {})

MustSend(c, force) ==
  LET d == Pulled(c, force)  flags == FlagsNow(c, force) IN
  \/ Sendable(c, force) > 0
  \/ Space(c) > 0 /\ 2 * (Space(c) - (c.adv - c.rcv)) >= RcvSpace
  \/ c.acknow
  \/ flags \intersect {"SYN", "RST"} # {}
  \/ "FIN" \in flags /\ (~c.sentfin \/ d.nxt = d.una)

(* A SYN starts over, and a FIN that was sent keeps its number. *)
Transmitted(c, force) ==
  LET d == Pulled(c, force)  flags == FlagsNow(c, force)  len == Sendable(c, force)
      first == IF "SYN" \in flags THEN 0
               ELSE IF "FIN" \in flags /\ c.sentfin /\ d.nxt = d.max THEN d.nxt - 1 ELSE d.nxt
      probes == force /\ "PERSIST" \in d.timers
      next == first + len + Cardinality(flags \intersect {"SYN", "FIN"})
      win == MaxOf(Space(c), c.adv - c.rcv)
      seq == IF len > 0 \/ flags \intersect {"SYN", "FIN"} # {} \/ "PERSIST" \in d.timers
             THEN first ELSE d.max
      data == SubSeq(c.sndbuf, c.nxt - c.una + 1, c.nxt - c.una + len)
      timed == IF "REXMT" \notin d.timers /\ next # d.una
               THEN (d.timers \ {"PERSIST"}) \union {"REXMT"} ELSE d.timers
      seen == [d EXCEPT !.adv = c.rcv + win, !.acknow = FALSE, !.delack = FALSE]
      after == IF probes THEN [seen EXCEPT !.nxt = first, !.max = MaxOf(@, first + len)]
               ELSE [seen EXCEPT !.nxt = next, !.max = MaxOf(@, next), !.timers = timed,
                                 !.sentfin = @ \/ "FIN" \in flags]
      (* without the template of tcp_template a segment has no address, and is lost *)
  IN IF c.iss # "known" THEN after ELSE Emit(after, Segment(flags, seq, c.rcv, data, win))

(* With units to send, a closed window and nothing to wait for, the persist timer starts. *)
Waiting(c, force) ==
  LET d == Pulled(c, force) IN
  IF d.sndbuf # <<>> /\ d.timers \intersect {"REXMT", "PERSIST"} = {}
  THEN [d EXCEPT !.timers = @ \union {"PERSIST"}] ELSE d

Output(c, force) == IF MustSend(c, force) THEN Transmitted(c, force) ELSE Waiting(c, force)
tcp_output(c) == Output(c, FALSE)

-----------------------------------------------------------------------------
(* socket.c and the ends of a connection *)

(* tcp_close frees the socket and the buffers, whatever is in them. *)
tcp_close(c) ==
  [Fresh("gone", {}, 0) EXCEPT !.iss = c.iss, !.out = c.out, !.given = c.given, !.lost = c.rcvbuf,
                               !.ended = "broken"]
Closed(c) == [tcp_close(c) EXCEPT !.ended = "orderly"]   \* both streams have ended

(* tcp_drop resets the guest once it has a template for the segment. *)
tcp_drop(c) ==
  IF c.state = "SYN_SENT" \/ "CONNECTING" \in c.so THEN tcp_close(c)
  ELSE tcp_close(tcp_output([c EXCEPT !.state = "CLOSED"]))

soisfconnected(c) ==
  [c EXCEPT !.so = (@ \ {"CONNECTING", "FWDRAIN", "NOFDREF"}) \union {"CONNECTED"}]

(* Both ends gone: the socket is not selected any more. *)
sofcantrcvmore(c) ==
  [c EXCEPT !.so = IF "CANTSEND" \in @ THEN {"NOFDREF"} ELSE @ \union {"CANTRCV"}]
sofcantsendmore(c) ==
  [c EXCEPT !.so = IF "CANTRCV" \in @ THEN {"NOFDREF"} ELSE @ \union {"CANTSEND"}]

sofwdrain(c) ==
  IF c.rcvbuf # <<>> THEN [c EXCEPT !.so = @ \union {"FWDRAIN"}] ELSE sofcantsendmore(c)

(* The socket has no more to give or to take: the FIN for the guest. *)
tcp_sockclosed(c) ==
  IF c.state = "SYN_SENT" THEN tcp_close(c)
  ELSE tcp_output([c EXCEPT !.state = CASE @ \in {"SYN_RECEIVED", "ESTABLISHED"} -> "FIN_WAIT_1"
                                        [] @ = "CLOSE_WAIT" -> "LAST_ACK"
                                        [] OTHER -> @])

CanSend(c) == "CONNECTED" \in c.so /\ "CANTSEND" \notin c.so
CanRcv(c)  == "CONNECTED" \in c.so /\ "CANTRCV" \notin c.so
-----------------------------------------------------------------------------
(* sbappend: with so_rcv empty the data is sent on at once, as much as the socket takes;
   the rest has to wait behind what is there. *)
sbappend_Always(c, data, room) ==
  LET n == MinOf(Len(data), room)
  IN [c EXCEPT !.given = @ \o SubSeq(data, 1, n), !.rcvbuf = @ \o Drop(data, n)]
sbappend(c, data, room) ==
  LET n == IF c.rcvbuf = <<>> THEN MinOf(Len(data), room) ELSE 0
  IN [c EXCEPT !.given = @ \o SubSeq(data, 1, n), !.rcvbuf = @ \o Drop(data, n)]

(* tcp_respond to a segment that has no place here, which leaves the connection as it is. *)
Refused(c, s) ==
  Emit(c, IF "ACK" \in s.flags THEN Segment({"RST"}, s.ack, 0, <<>>, 0)
          ELSE Segment({"RST", "ACK"}, 0,
                       s.seq + Len(s.data) + Cardinality(s.flags \intersect {"SYN"}), <<>>, 0))

DropAfterAck(c, s) == IF "RST" \in s.flags THEN c ELSE tcp_output([c EXCEPT !.acknow = TRUE])

-----------------------------------------------------------------------------
(* tcp_input, in the order of its parts.  First what was received before is cut off the
   segment, then what is beyond the window. *)

End(s) == s.seq + Len(s.data)
Earlier(c, s) == c.rcv > s.seq
NoSyn(c, s) ==
  IF Earlier(c, s) /\ "SYN" \in s.flags
  THEN [s EXCEPT !.flags = @ \ {"SYN"}, !.seq = @ + 1] ELSE s
Stale(c, s) ==
  LET t == NoSyn(c, s)
  IN Earlier(c, s) /\ (c.rcv > End(t) \/ (c.rcv = End(t) /\ "FIN" \notin t.flags))
LeftCut(c, s) ==
  LET t == NoSyn(c, s)  n == MinOf(MaxOf(0, c.rcv - t.seq), Len(t.data))
  IN [t EXCEPT !.data = Drop(@, n), !.seq = @ + n,
               !.flags = @ \ (IF Stale(c, s) THEN {"FIN"} ELSE {})]

RcvWnd(c) == MaxOf(Space(c), c.adv - c.rcv)
Excess(c, s) == End(s) - (c.rcv + RcvWnd(c))
AtClosedEdge(c, s) == RcvWnd(c) = 0 /\ s.seq = c.rcv
RightCut(c, s) ==
  IF Excess(c, s) <= 0 THEN s
  ELSE [s EXCEPT !.data = SubSeq(@, 1, Len(@) - MinOf(Excess(c, s), Len(@))),
                 !.flags = @ \ {"FIN"}]

(* A window that is smaller than what is acknowledged wraps around, to one that is larger
   than any stream. *)
Huge == 1000
Less(wnd, n) == IF n <= wnd THEN wnd - n ELSE Huge

(* New data is acknowledged: the timers, the buffer, and our FIN, if it was all. *)
FinAcked(c, ack) == ack - c.una > Len(c.sndbuf)
Acknowledged(c, ack) ==
  LET n == MinOf(ack - c.una, Len(c.sndbuf)) IN
  [c EXCEPT !.timers = IF ack = c.max THEN @ \ {"REXMT"}
                       ELSE IF "PERSIST" \in @ THEN @ ELSE @ \union {"REXMT"},
            !.needoutput = @ \/ ack = c.max,
            !.sndbuf = Drop(@, n), !.wnd = Less(@, n), !.una = ack, !.nxt = MaxOf(@, ack)]

TimeWait(c) == [c EXCEPT !.state = "TIME_WAIT", !.timers = {"2MSL"}]

AfterFinAck(c) ==
  CASE c.state = "FIN_WAIT_1" ->
         [c EXCEPT !.state = "FIN_WAIT_2",
                   !.timers = @ \union (IF "CANTRCV" \in c.so THEN {"2MSL"} ELSE {})]
    [] c.state = "CLOSING" -> TimeWait(c)
    [] c.state = "LAST_ACK" -> Closed(c)
    [] OTHER -> c

(* step6: the window, unless the segment is older than the one it was last taken from. *)
Windowed(c, s) ==
  IF /\ "ACK" \in s.flags
     /\ \/ c.wl1 < s.seq
        \/ c.wl1 = s.seq /\ (c.wl2 < s.ack \/ (c.wl2 = s.ack /\ s.win > c.wnd))
  THEN [c EXCEPT !.wnd = s.win, !.wl1 = s.seq, !.wl2 = s.ack, !.needoutput = TRUE]
  ELSE c

(* tcp_reass: what is out of order waits; a run from rcv_nxt on goes to the host, unless it
   takes no more.  (A segment of the guest that begins beyond rcv_nxt is one unit or a FIN,
   so the queue is a set of them.) *)
Queued(c, s, fin) ==
  [c EXCEPT !.acknow = TRUE, !.held = @ \union s.seq..(End(s) - 1),
            !.finHeld = IF fin THEN End(s) ELSE @]
Run(c) == CHOOSE n \in 0..Cardinality(c.held) :
  c.rcv + n \notin c.held /\ \A i \in c.rcv..(c.rcv + n - 1) : i \in c.held
Presented(c, room) ==
  LET next == c.rcv + Run(c)  data == [i \in 1..Run(c) |-> c.rcv + i - 1]
      d == IF "CANTSEND" \in c.so THEN c ELSE sbappend(c, data, room)
  IN [d EXCEPT !.rcv = next, !.held = {i \in @ : i >= next},
               !.finHeld = IF @ = next THEN 0 ELSE @]

Finished(c) ==
  LET d == [sofwdrain(c) EXCEPT !.acknow = TRUE, !.rcv = @ + 1]
  IN CASE d.state = "ESTABLISHED" -> [d EXCEPT !.state = "CLOSE_WAIT"]
       [] d.state = "FIN_WAIT_1"  -> [d EXCEPT !.state = "CLOSING"]
       [] d.state = "FIN_WAIT_2"  -> TimeWait(d)
       [] OTHER -> d

(* TCP_REASS looks for the FIN in the segment's header, where it still is. *)
Texted(c, s, header, room) ==
  LET fin == "FIN" \in header.flags
      inOrder == s.seq = c.rcv /\ c.held = {} /\ c.finHeld = 0 /\ c.state = "ESTABLISHED"
      d == Queued(c, s, fin)
      now == IF inOrder THEN [sbappend(c, s.data, room) EXCEPT !.rcv = End(s), !.delack = TRUE]
             ELSE Presented(d, room)
      ended == IF inOrder THEN fin ELSE d.finHeld # 0 /\ now.finHeld = 0
  IN IF (s.data = <<>> /\ "FIN" \notin s.flags) \/ c.state = "TIME_WAIT" THEN c
     ELSE IF ended THEN Finished(now) ELSE now

DesiredOutput(c) ==
  LET d == [c EXCEPT !.needoutput = FALSE]
  IN IF c.needoutput \/ c.acknow THEN tcp_output(d) ELSE d

Step6(c, s, header, room) == DesiredOutput(Texted(Windowed(c, s), s, header, room))

(* A duplicate acknowledgment of what is outstanding: the third has the first segment sent
   again, later ones send on; count: "few", "third" or "more". *)
Duplicate(c, s) ==
  /\ c.state \notin {"none", "gone", "SYN_SENT", "SYN_RECEIVED"} /\ "ACK" \in s.flags
  /\ s.data = <<>> /\ s.win = c.wnd /\ s.ack = c.una /\ "REXMT" \in c.timers
DupAcked(c, count) ==
  LET d == tcp_output([c EXCEPT !.timers = @ \ {"REXMT"}, !.nxt = c.una])
  IN IF count = "third" THEN [d EXCEPT !.nxt = MaxOf(@, c.nxt)] ELSE tcp_output(c)

AckStep(c, s, header, room, count) ==
  CASE c.state = "SYN_RECEIVED" /\ (s.ack < c.una \/ s.ack > c.max) -> Refused(c, s)
    [] c.state = "SYN_RECEIVED" ->
         LET d == [soisfconnected(c) EXCEPT !.state = "ESTABLISHED", !.una = s.ack,
                                            !.wl1 = s.seq - 1]
         IN Step6(Acknowledged(d, s.ack), s, header, room)
    [] Duplicate(c, s) /\ count # "few" -> DupAcked(c, count)
    [] c.state # "SYN_RECEIVED" /\ s.ack <= c.una /\ ~(Duplicate(c, s) /\ count # "few") ->
         Step6(c, s, header, room)
    [] c.state # "SYN_RECEIVED" /\ s.ack > c.max -> DropAfterAck(c, s)
    [] OTHER ->
         LET d == Acknowledged(c, s.ack)
             e == IF FinAcked(c, s.ack) THEN AfterFinAck(d) ELSE d
         IN IF e.state = "gone" THEN e
            ELSE IF c.state = "TIME_WAIT" THEN DropAfterAck(e, s)
            ELSE Step6(e, s, header, room)

Processed(c, s, room, count) ==
  LET t == LeftCut(c, s)
      u == RightCut(c, t)
      d == IF Stale(c, s) THEN [c EXCEPT !.acknow = TRUE] ELSE c
      e == IF Excess(c, t) > 0 /\ AtClosedEdge(c, t) THEN [d EXCEPT !.acknow = TRUE] ELSE d
  IN CASE "NOFDREF" \in c.so /\ AfterCloseWait(c.state) /\ t.data # <<>> ->
            Refused(tcp_close(d), t)
       [] Excess(c, t) > 0 /\ Excess(c, t) >= Len(t.data) /\ ~AtClosedEdge(c, t) ->
            DropAfterAck(d, t)
       [] "RST" \in s.flags -> tcp_close(e)
       [] "SYN" \in u.flags -> Refused(tcp_drop(e), u)
       [] "ACK" \notin s.flags -> e
       [] OTHER -> AckStep(e, u, s, room, count)

(* Header prediction: the next segment of an established connection, nothing special. *)
Predicted(c, s) ==
  /\ c.state = "ESTABLISHED" /\ s.flags = {"ACK"} /\ s.seq = c.rcv
  /\ s.win > 0 /\ s.win = c.wnd /\ c.nxt = c.max
PredictedAck(c, s)  == Predicted(c, s) /\ s.data = <<>> /\ s.ack \in (c.una + 1)..c.max
PredictedData(c, s) ==
  /\ Predicted(c, s) /\ s.data # <<>> /\ s.ack = c.una
  /\ c.held = {} /\ c.finHeld = 0 /\ Len(s.data) <= Space(c)

SynSent(c, s) ==
  CASE "ACK" \in s.flags /\ (s.ack <= 0 \/ s.ack > c.max) -> Refused(c, s)
    [] "RST" \in s.flags -> IF "ACK" \in s.flags THEN tcp_drop(c) ELSE c
    [] "SYN" \notin s.flags -> c
    [] OTHER ->
         LET acked == "ACK" \in s.flags
             d == [c EXCEPT !.timers = @ \ {"REXMT"}, !.rcv = s.seq + 1, !.adv = s.seq + 1,
                            !.acknow = TRUE, !.wl1 = s.seq,
                            !.una = IF acked THEN s.ack ELSE @,
                            !.nxt = IF acked THEN MaxOf(@, s.ack) ELSE @]
             e == IF acked THEN [soisfconnected(d) EXCEPT !.state = "ESTABLISHED"]
                  ELSE [d EXCEPT !.state = "SYN_RECEIVED"]
         IN Step6(e, [s EXCEPT !.seq = @ + 1, !.flags = @ \ {"SYN"}], s, 0)

(* A SYN, which is all the guest sends, to a connection that is not connecting any more and
   was never taken up: old, not expected yet, or an error, by its number. *)
Unexpected(c, s) ==
  CASE c.iss = "behind" -> [c EXCEPT !.acknow = TRUE]
    [] c.iss = "beyond" -> DropAfterAck(c, s)
    [] c.iss = "within" -> Refused(tcp_drop(c), s)

tcp_input(c, s, room, count) ==
  [CASE "CONNECTING" \in c.so -> c
     [] c.iss # "known" -> Unexpected(c, s)
     [] c.state = "SYN_SENT" -> SynSent(c, s)
     [] PredictedAck(c, s) ->
          LET d == [Acknowledged(c, s.ack) EXCEPT !.wnd = c.wnd]
          IN IF d.sndbuf # <<>> THEN tcp_output(d) ELSE d
     [] PredictedData(c, s) ->
          [sbappend(c, s.data, room) EXCEPT !.rcv = End(s), !.delack = TRUE]
     [] OTHER -> Processed(c, s, room, count)
   EXCEPT !.needoutput = FALSE]

-----------------------------------------------------------------------------
(* The daemon's loop: segments of the guest, then the host's socket, as select finds it. *)

Room(s) == IF peer.state = "open" THEN 0..Len(s.data) + Cardinality(conn.held) ELSE {0}
Count(s) == IF Duplicate(conn, [s EXCEPT !.data = <<>>]) THEN {"few", "third", "more"} ELSE {"few"}
SynSegment(space) == Segment({"SYN"}, 0, 0, <<>>, space)

(* The first SYN has the daemon connect, which may fail at once (the guest is told with a reset
   or by ICMP); a segment for a connection there is not, or not any more, is refused.  (The
   guest opens one connection.) *)
SlirpInput ==
  /\ toSlirp # <<>> /\ toSlirp' = Tail(toSlirp)
  /\ LET s == Head(toSlirp) IN
     \/ /\ conn.state = "none" /\ s.flags = {"SYN"}
        /\ \/ /\ conn' = [Fresh("SYN_RECEIVED", {"CONNECTING"}, 0) EXCEPT !.out = conn.out]
              /\ peer' = [peer EXCEPT !.state = "connecting"] /\ UNCHANGED aborted
           \/ /\ conn' \in {Refused(tcp_close(conn), s), tcp_close(conn)}
              /\ aborted' = TRUE /\ UNCHANGED peer
     \/ /\ ~Live /\ s.flags # {"SYN"}
        /\ conn' = Refused(conn, s) /\ UNCHANGED <<peer, aborted>>
     \/ /\ conn.state = "gone" /\ s.flags = {"SYN"} /\ UNCHANGED <<conn, peer, aborted>>
     \/ /\ Live
        /\ \E room \in Room(s), count \in Count(s) :   \* room: what a send takes
             conn' = tcp_input(conn, s, room, count)
        /\ UNCHANGED <<peer, aborted>>
  /\ UNCHANGED guestTcp

(* tcp_input goes on once the connect is over.  The flag goes before the socket is tried:
   when sending nothing to it would block, or it is not connected, the loop goes on to the
   next socket and never selects this one again. *)
PollConnected ==
  /\ "CONNECTING" \in conn.so
  /\ \/ /\ peer' = [peer EXCEPT !.state = "open"] /\ UNCHANGED aborted
        /\ conn' = tcp_output([conn EXCEPT !.so = {}, !.rcv = 1, !.adv = 1, !.acknow = TRUE])
     \/ /\ conn' = Refused(tcp_close(conn), SynSegment(guestTcp.space)) /\ aborted' = TRUE
        /\ peer' = [peer EXCEPT !.state = "closed"]
     \/ \E place \in {"behind", "within", "beyond"}, state \in {"connecting", "open"} :
          /\ conn' = [conn EXCEPT !.so = {}, !.iss = place]
          /\ peer' = [peer EXCEPT !.state = state] /\ UNCHANGED aborted
  /\ UNCHANGED <<guestTcp, toSlirp>>

(* tcp_connect: the listening socket of a redirected port has a connection. *)
PollAccept ==
  /\ conn.state = "none" /\ guestTcp.state = "closed"
  /\ \E k \in Connection :
       /\ k.opener = "host"
       /\ guestTcp' = [guestTcp EXCEPT !.units = k.guest, !.space = k.space]
       /\ peer' = [peer EXCEPT !.units = k.host, !.state = "open"]
  /\ conn' = tcp_output(Fresh("SYN_SENT", {"NOFDREF"}, 0))
  /\ UNCHANGED <<toSlirp, aborted>>

(* soread, for as much as there is room, or the end of the peer's stream. *)
PollRead ==
  /\ CanRcv(conn) /\ 2 * Len(conn.sndbuf) < SndSpace
  /\ LET there == peer.wrote - peer.read IN
     \/ /\ peer.state = "open"
        /\ \E n \in 1..MinOf(there, SndSpace - Len(conn.sndbuf)) :
             /\ conn' = tcp_output([conn EXCEPT !.sndbuf = @ \o [i \in 1..n |-> peer.read + i]])
             /\ peer' = [peer EXCEPT !.read = @ + n]
     \/ /\ peer.state = "reset" \/ (there = 0 /\ peer.eof)
        /\ conn' = tcp_sockclosed(sofcantrcvmore(conn)) /\ UNCHANGED peer
  /\ UNCHANGED <<guestTcp, toSlirp, aborted>>

(* sowrite; nothing tells the guest of the room there is now. *)
PollWrite ==
  /\ CanSend(conn) /\ conn.rcvbuf # <<>>
  /\ \/ /\ peer.state = "open"
        /\ \E n \in 1..Len(conn.rcvbuf) :
             LET d == [conn EXCEPT !.given = @ \o SubSeq(conn.rcvbuf, 1, n),
                                   !.rcvbuf = Drop(@, n)]
             IN conn' = IF "FWDRAIN" \in d.so /\ d.rcvbuf = <<>> THEN sofcantsendmore(d) ELSE d
     \/ peer.state = "reset" /\ conn' = tcp_sockclosed(sofcantsendmore(conn))
  /\ UNCHANGED <<guestTcp, toSlirp, peer, aborted>>

-----------------------------------------------------------------------------
(* tcp_fasttimo, and tcp_slowtimo with tcp_timers: how long a timer has run is left open. *)

FastTimo ==
  /\ conn.delack
  /\ conn' = tcp_output([conn EXCEPT !.delack = FALSE, !.acknow = TRUE])
  /\ UNCHANGED <<guestTcp, toSlirp, peer, aborted>>

Rexmt ==
  /\ "REXMT" \in conn.timers
  /\ \/ conn' = tcp_output([conn EXCEPT !.nxt = conn.una]) /\ UNCHANGED aborted
     \/ conn' = tcp_drop(conn) /\ aborted' = TRUE      \* too often
  /\ UNCHANGED <<guestTcp, toSlirp, peer>>

Persist ==
  /\ "PERSIST" \in conn.timers
  /\ conn' = Output(conn, TRUE)
  /\ UNCHANGED <<guestTcp, toSlirp, peer, aborted>>

(* Without keep-alives the timer only ends what was never established. *)
Keep ==
  /\ Live /\ Before(conn.state)
  /\ conn' = tcp_drop(conn) /\ aborted' = TRUE
  /\ UNCHANGED <<guestTcp, toSlirp, peer>>

TwoMsl ==
  /\ "2MSL" \in conn.timers
  /\ \/ conn.state = "TIME_WAIT" /\ conn' = Closed(conn) /\ UNCHANGED aborted
     \/ conn.state # "TIME_WAIT" /\ conn' = tcp_close(conn) /\ aborted' = TRUE   \* idle
  /\ UNCHANGED <<guestTcp, toSlirp, peer>>

-----------------------------------------------------------------------------
(* The host's socket and its peer. *)

PeerWrites ==
  /\ peer.state = "open" /\ ~peer.eof /\ peer.wrote < peer.units
  /\ peer' = [peer EXCEPT !.wrote = @ + 1] /\ UNCHANGED <<conn, guestTcp, toSlirp, aborted>>

PeerEnds ==
  /\ peer.state = "open" /\ ~peer.eof
  /\ peer' = [peer EXCEPT !.eof = TRUE] /\ UNCHANGED <<conn, guestTcp, toSlirp, aborted>>

PeerResets ==
  /\ peer.state = "open" /\ Live
  /\ peer' = [peer EXCEPT !.state = "reset"] /\ aborted' = TRUE
  /\ UNCHANGED <<conn, guestTcp, toSlirp>>

-----------------------------------------------------------------------------
(* The guest's TCP.  Segments go through a queue that discards what it has no room for. *)

Arrive(g, s) ==
  /\ guestTcp' = g
  /\ toSlirp' = IF Len(toSlirp) < NetRoom THEN Append(toSlirp, s) ELSE toSlirp

OfGuest(g, flags, seq, data) == Segment(flags, seq, g.rcv, data, g.space - g.unread)
AckOf(g) == OfGuest(g, {"ACK"}, g.nxt, <<>>)
Units(g) == IF g.finished THEN g.nxt - 2 ELSE g.nxt - 1    \* sent so far

GuestConnects ==
  /\ conn.state = "none" /\ guestTcp.state = "closed"
  /\ \E k \in Connection :
       /\ k.opener = "guest"
       /\ Arrive([guestTcp EXCEPT !.units = k.guest, !.space = k.space, !.state = "syn_sent",
                                  !.nxt = 1], SynSegment(k.space))
       /\ peer' = [peer EXCEPT !.units = k.host]
  /\ UNCHANGED <<conn, aborted>>

(* Within the window, or a probe of a closed one. *)
GuestSends ==
  /\ guestTcp.state = "open" /\ ~guestTcp.finished /\ guestTcp.nxt <= guestTcp.units
  /\ guestTcp.nxt < guestTcp.edge \/ (guestTcp.nxt = guestTcp.edge /\ guestTcp.una = guestTcp.nxt)
  /\ Arrive([guestTcp EXCEPT !.nxt = @ + 1],
            OfGuest(guestTcp, {"ACK"}, guestTcp.nxt, <<guestTcp.nxt>>))
  /\ UNCHANGED <<conn, peer, aborted>>

GuestFinishes ==
  /\ guestTcp.state = "open" /\ ~guestTcp.finished
  /\ Arrive([guestTcp EXCEPT !.nxt = @ + 1, !.finished = TRUE],
            OfGuest(guestTcp, {"FIN", "ACK"}, guestTcp.nxt, <<>>))
  /\ UNCHANGED <<conn, peer, aborted>>

(* All that is not acknowledged, in one segment. *)
GuestResends ==
  /\ guestTcp.una < guestTcp.nxt
  /\ \/ /\ guestTcp.state = "open"
        /\ Arrive(guestTcp,
                  OfGuest(guestTcp, {"ACK"} \union (IF guestTcp.finished THEN {"FIN"} ELSE {}),
                          guestTcp.una, [i \in 1..(Units(guestTcp) + 1 - guestTcp.una) |->
                                           guestTcp.una + i - 1]))
     \/ guestTcp.state = "syn_sent" /\ Arrive(guestTcp, SynSegment(guestTcp.space))
     \/ guestTcp.state = "syn_rcvd" /\ Arrive(guestTcp, OfGuest(guestTcp, {"SYN", "ACK"}, 0, <<>>))
  /\ UNCHANGED <<conn, peer, aborted>>

GuestReads ==
  /\ guestTcp.unread > 0
  /\ LET g == [guestTcp EXCEPT !.unread = 0] IN Arrive(g, AckOf(g))
  /\ UNCHANGED <<conn, peer, aborted>>

GuestAborts ==
  /\ guestTcp.state = "open" /\ Live
  /\ Arrive([guestTcp EXCEPT !.state = "dead"], OfGuest(guestTcp, {"RST"}, guestTcp.nxt, <<>>))
  /\ aborted' = TRUE /\ UNCHANGED <<conn, peer>>

(* What a segment does to an open guest: the acknowledgment and the window, then the units
   that come next and fit, and the FIN after the last. *)
Taken(g, s) ==
  LET skip == g.rcv - s.seq
      fits == IF skip < 0 \/ skip > Len(s.data) THEN <<>>
              ELSE SubSeq(Drop(s.data, skip), 1,
                          MinOf(Len(s.data) - skip, g.space - g.unread))
      fin == "FIN" \in s.flags /\ ~g.eof /\ g.rcv + Len(fits) = End(s)
  IN [g EXCEPT !.una = IF s.ack \in (g.una + 1)..g.nxt THEN s.ack ELSE @,
               !.edge = MaxOf(@, s.ack + s.win),
               !.got = @ \o fits, !.unread = @ + Len(fits), !.eof = @ \/ fin,
               !.rcv = @ + Len(fits) + (IF fin THEN 1 ELSE 0)]

Replying(g, s) == s.data # <<>> \/ s.flags \intersect {"SYN", "FIN"} # {}

GuestReceives ==
  /\ conn.out # <<>> /\ conn' = [conn EXCEPT !.out = Tail(@)]
  /\ LET s == Head(conn.out)
         opened == [guestTcp EXCEPT !.state = "open", !.una = 1, !.rcv = 1, !.edge = s.ack + s.win]
     IN CASE "RST" \in s.flags ->
               /\ guestTcp' = IF s.seq = guestTcp.rcv \/ guestTcp.state = "syn_sent"
                              THEN [guestTcp EXCEPT !.state = "dead"] ELSE guestTcp
               /\ UNCHANGED <<toSlirp, aborted>>
          [] guestTcp.state = "closed" ->
               LET g == [guestTcp EXCEPT !.state = "syn_rcvd", !.nxt = 1, !.rcv = 1]
               IN \/ Arrive(g, OfGuest(g, {"SYN", "ACK"}, 0, <<>>)) /\ UNCHANGED aborted
                  \/ /\ Arrive([guestTcp EXCEPT !.state = "dead"],
                               Segment({"RST", "ACK"}, 0, 1, <<>>, 0))
                     /\ aborted' = TRUE
          [] guestTcp.state = "syn_sent" ->
               Arrive(opened, AckOf(opened)) /\ UNCHANGED aborted
          [] guestTcp.state = "dead" ->
               Arrive(guestTcp, Segment({"RST"}, s.ack, 0, <<>>, 0)) /\ UNCHANGED aborted
          [] OTHER ->
               LET acked == guestTcp.state = "syn_rcvd" /\ "ACK" \in s.flags /\ s.ack = 1
                   g == Taken(IF acked THEN [guestTcp EXCEPT !.state = "open"] ELSE guestTcp, s)
               IN /\ IF Replying(guestTcp, s) THEN Arrive(g, AckOf(g))
                     ELSE guestTcp' = g /\ UNCHANGED toSlirp
                  /\ UNCHANGED aborted
  /\ UNCHANGED peer

-----------------------------------------------------------------------------

SlirpNext ==
  \/ SlirpInput \/ PollConnected \/ PollAccept \/ PollRead \/ PollWrite
  \/ FastTimo \/ Rexmt \/ Persist \/ Keep \/ TwoMsl
  \/ PeerWrites \/ PeerEnds \/ PeerResets
  \/ GuestConnects \/ GuestSends \/ GuestFinishes \/ GuestResends \/ GuestReads \/ GuestAborts
  \/ GuestReceives

SlirpSpec == SlirpInit /\ [][SlirpNext]_slirpVars

-----------------------------------------------------------------------------

SegmentOK(s) ==
  /\ s.flags \subseteq {"SYN", "ACK", "FIN", "RST"} /\ s.seq \in Nat /\ s.ack \in Nat
  /\ s.data \in Seq(Nat) /\ s.win \in Nat

(* Every variable of the connection has its type, and the queues their bounds. *)
SlirpTypeOK ==
  /\ conn.state \in {"none", "gone", "SYN_SENT", "SYN_RECEIVED", "ESTABLISHED", "CLOSE_WAIT",
                     "FIN_WAIT_1", "FIN_WAIT_2", "CLOSING", "LAST_ACK", "TIME_WAIT"}
  /\ conn.so \subseteq {"NOFDREF", "CONNECTING", "CONNECTED", "CANTRCV", "CANTSEND", "FWDRAIN"}
  /\ conn.iss \in {"known", "behind", "within", "beyond"}
  /\ conn.timers \subseteq {"REXMT", "PERSIST", "2MSL"}
  /\ {conn.una, conn.nxt, conn.max, conn.wnd, conn.rcv, conn.adv} \subseteq Nat
  /\ Len(conn.out) <= NetRoom /\ Len(toSlirp) <= NetRoom
  /\ \A i \in 1..Len(conn.out) : SegmentOK(conn.out[i])
  /\ \A i \in 1..Len(toSlirp) : SegmentOK(toSlirp[i])
  /\ guestTcp.state \in {"closed", "syn_sent", "syn_rcvd", "open", "dead"}
  /\ peer.state \in {"closed", "connecting", "open", "reset"}
  /\ aborted \in BOOLEAN

FinReceived(c) == c.state \in {"CLOSE_WAIT", "CLOSING", "LAST_ACK", "TIME_WAIT"}
HostSeesEnd(c) ==
  \/ "CANTSEND" \in c.so \/ ("NOFDREF" \in c.so /\ ~Before(c.state))
  \/ c.ended = "orderly"

(* Unless an end or the host's connection gave up: what was acknowledged to the guest is with
   the host or in so_rcv, in the order it was sent, which never holds more than it has room
   for; what was read from the host is in so_snd or acknowledged; each side is told of the end
   of the other's stream when it has the whole of it, but for what an orderly end threw away
   with so_rcv; and the daemon breaks the connection itself only when it had given up waiting
   for the connect and a repeated SYN happened to lie in the window that begins at 0: until
   then nobody has been told anything, and nothing has been taken or given. *)
SlirpExact ==
  LET taken == conn.given \o conn.rcvbuf \o conn.lost IN
  /\ guestTcp.got = Upto(Len(guestTcp.got))
  /\ aborted \/
     /\ conn.ended = "broken" => conn.iss = "within"
     /\ conn.iss # "known" =>
          taken = <<>> /\ guestTcp.state \in {"syn_sent", "dead"} /\ guestTcp.got = <<>>
     /\ taken = Upto(Len(taken))
     /\ Live /\ conn.rcv > 0 =>
          /\ conn.rcv = 1 + Len(taken) + (IF FinReceived(conn) THEN 1 ELSE 0)
          /\ Len(conn.rcvbuf) <= RcvSpace /\ conn.adv - conn.rcv <= Space(conn)
     /\ Live /\ conn.una > 0 =>
          conn.una + Len(conn.sndbuf)
            \in {peer.read + 1} \union (IF conn.sentfin THEN {peer.read + 2} ELSE {})
     /\ HostSeesEnd(conn) => guestTcp.finished /\ Len(taken) = Units(guestTcp)
     /\ guestTcp.eof => peer.eof /\ Len(guestTcp.got) = peer.wrote

=============================================================================
