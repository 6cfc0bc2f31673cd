------------------------------ MODULE Masquerade -----------------------------
(***************************************************************************)
(* What the TAP driver answers itself: in point-to-point mode ARP queries  *)
(* for the remote network, and, as a DHCP server that is not there, the    *)
(* host's own requests for the address of the card.                        *)
(*                                                                         *)
(* Sources: tapdrvr.c (AdapterTransmit up to the queue, the ioctls, writes, *)
(* ResetTapAdapterState) and dhcp.c of os/winnt/kernel/tap-win32.  The     *)
(* process that configures the card and the host's network stack are       *)
(* external.  NDIS transmits one packet after the other, on a thread of    *)
(* its own, while an ioctl is on its way: nothing is locked.  The queues   *)
(* that take what is not answered are in the module TapDriver.             *)
(***************************************************************************)
EXTENDS Integers, Sequences, FiniteSets

CONSTANTS
  Host,            (* IP addresses; "zero" is one more                      *)
  Course,          (* what the process does, one sequence of requests of which
                      happens                                               *)
  Frame            (* what the host transmits                               *)

ETHERNET_HEADER_SIZE == 14
IP_HEADER_SIZE == 20

Mac == {"none", "own", "gateway", "server", "broadcast"}   \* GenerateRelatedMAC 1 and 2

Requested ==
  [does : {"open", "close", "short"}]
    \union [does : {"tun"}, local : Host, net : SUBSET Host, sound : BOOLEAN]
    \union [does : {"masq"}, addr : Host, server : Host]
    \union [does : {"options", "write"}, length : Nat]

ASSUME MasqueradeAssumption ==
  /\ "zero" \notin Host
  /\ \A c \in DOMAIN Course : Course[c] \in Seq(Requested)
  /\ \A f \in Frame :
       /\ f.kind \in {"arp", "boot", "ip", "other"} /\ f.dest \in Mac /\ f.sound \in BOOLEAN
       /\ f.from \in Host \union {"zero"} /\ f.to \in Host /\ f.ciaddr \in Host \union {"zero"}

VARIABLES
  course,          (* what the process has still to do                      *)
  ioctl,           (* how far its request is                                *)
  ptp,             (* m_TapOpens, m_tun, m_localIP, the remote network (a set of
                      addresses), TapToUser.dest                            *)
  dhcp,            (* the m_dhcp_ fields                                     *)
  transmit,        (* AdapterTransmit: where it is, its frame, its answer   *)
  handed,          (* what the host was handed for this frame               *)
  written,         (* what became of the last write to the device           *)
  lived            (* history: what this opening of the device has seen     *)

masqueradeVars == <<course, ioctl, ptp, dhcp, transmit, handed, written, lived>>

-----------------------------------------------------------------------------
(* DHCP messages. *)

DHCP_OPTIONS_BUFFER_SIZE == 256
BAD_DHCPREQUEST_NAK_THRESHOLD == 3
DHCP_USER_SUPPLIED_OPTIONS_BUFFER_SIZE == 256

(* SetDHCPOpt: once an option did not fit, no other is written. *)
SetDHCPOpt(m, len) ==
  CASE m.overflow -> m
    [] ~m.overflow /\ m.length + len <= DHCP_OPTIONS_BUFFER_SIZE -> [m EXCEPT !.length = @ + len]
    [] OTHER -> [m EXCEPT !.overflow = TRUE]
SetDHCPOpt0(m)  == SetDHCPOpt(m, 1)
SetDHCPOpt8(m)  == SetDHCPOpt(m, 3)
SetDHCPOpt32(m) == SetDHCPOpt(m, 6)

(* The options of an answer: its type and the server, for all but a NAK the lease, the netmask
   and what the process supplied, and the end. *)
Options(type, user) ==
  LET head == SetDHCPOpt32(SetDHCPOpt8([length |-> 0, overflow |-> FALSE]))
      body == SetDHCPOpt(SetDHCPOpt32(SetDHCPOpt32(head)), user)
  IN SetDHCPOpt0(IF type = "nak" THEN head ELSE body)

(* The type is in the first option that is neither padding nor another message; "end" is none,
   and neither is one that is cut off. *)
GetDHCPMessageType(options) ==
  LET told == {i \in DOMAIN options : options[i] \notin {"pad", "other"}} IN
  IF told = {} THEN "none" ELSE options[CHOOSE i \in told : \A j \in told : i <= j]

(* Addressed to everybody or to the server, from the client's port of this card. *)
DHCPMessageOurs(f) == f.ours /\ f.dest \in {"broadcast", dhcp.mac}

BuildDHCPPre(f, type) ==
  [kind |-> type, mac |-> dhcp.mac,
   dest |-> IF type = "nak" \/ f.dest = "broadcast" THEN "broadcast" ELSE "own",
   addr |-> IF type = "nak" THEN "zero" ELSE dhcp.addr, server |-> transmit.server,
   user |-> transmit.user]

-----------------------------------------------------------------------------
(* ARP. *)

Silence == [kind |-> "nothing", mac |-> "none", dest |-> "none", addr |-> "zero",
            server |-> "zero", user |-> 0]
Reply(f, mac) == [Silence EXCEPT !.kind = "arp", !.mac = mac, !.dest = "own", !.addr = f.to]

(* ProcessARP takes what it recognises, and answers if there is memory. *)
ProcessARP(f, adapter, network) ==
  f.sound /\ f.dest = "broadcast" /\ f.from = adapter /\ f.to \in network /\ f.to # adapter

InjectPacket(answer) == handed' \in {answer, Silence}

-----------------------------------------------------------------------------
(* The process. *)

Everywhere == Host \union {"zero"}     \* the network 0 with the netmask 0
NoPtp  == [open |-> FALSE, tun |-> FALSE, local |-> "zero", net |-> Everywhere, header |-> "none"]
NoDhcp == [on |-> FALSE, arp |-> FALSE, mac |-> "none", addr |-> "zero", server |-> "zero",
           options |-> 0, discover |-> FALSE, bad |-> 0]

(* History of a new opening: a frame that is on its way is mixed up with it. *)
Afresh ==
  [asked |-> FALSE, blind |-> 0, moved |-> FALSE, mixed |-> transmit.at # "idle",
   straddled |-> transmit.at # "idle"]
Meanwhile == [lived EXCEPT !.mixed = transmit.at # "idle"]

ResetTapAdapterState_BadKept(open) ==
  /\ ptp' = [NoPtp EXCEPT !.open = open] /\ dhcp' = [NoDhcp EXCEPT !.bad = dhcp.bad]
  /\ lived' = Afresh
ResetTapAdapterState(open) ==
  ptp' = [NoPtp EXCEPT !.open = open] /\ dhcp' = NoDhcp /\ lived' = Afresh

Request    == Head(course)
InRequest(step, what) == course # <<>> /\ Request.does = what /\ ioctl = step
Onward(step) == ioctl' = step /\ UNCHANGED <<course, transmit, handed>>
Done       == ioctl' = "start" /\ course' = Tail(course) /\ UNCHANGED <<transmit, handed>>
Unaltered  == UNCHANGED <<ptp, dhcp>>

OpenDevice == InRequest("start", "open") /\ ResetTapAdapterState(TRUE) /\ Done

(* The device counts as closed before its state is reset. *)
CloseDevice ==
  \/ /\ InRequest("start", "close") /\ Onward("reset")
     /\ ptp' = [ptp EXCEPT !.open = FALSE] /\ UNCHANGED <<dhcp, lived>>
  \/ InRequest("reset", "close") /\ ResetTapAdapterState(FALSE) /\ Done

(* The remote network may enclose the address of the server: its ARP is then answered like
   that of the others there. *)
CheckIfDhcpAndTunMode ==
  IF ptp.tun /\ dhcp.on /\ dhcp.server \in ptp.net
  THEN /\ dhcp' = [dhcp EXCEPT !.mac = ptp.header, !.arp = FALSE]
       /\ lived' = [Meanwhile EXCEPT !.moved = FALSE]
  ELSE UNCHANGED dhcp /\ lived' = Meanwhile
Check(what) == InRequest("check", what) /\ CheckIfDhcpAndTunMode /\ UNCHANGED ptp /\ Done

(* TAP_IOCTL_CONFIG_TUN; CONFIG_POINT_TO_POINT is that with a network of one address.  It is
   off meanwhile, and stays off when the network does not fit its netmask. *)
ConfigTun ==
  \/ /\ InRequest("start", "tun") /\ Onward("addresses")
     /\ ptp' = [ptp EXCEPT !.tun = FALSE]
     /\ lived' = [Meanwhile EXCEPT !.moved = @ \/ (dhcp.on /\ ~dhcp.arp)]
     /\ UNCHANGED dhcp
  \/ /\ InRequest("addresses", "tun")
     /\ ptp' = [ptp EXCEPT !.local = Request.local, !.net = Request.net]
     /\ IF Request.sound THEN Onward("headers") ELSE Done
     /\ lived' = Meanwhile /\ UNCHANGED dhcp
  \/ /\ InRequest("headers", "tun") /\ Onward("check")
     /\ ptp' = [ptp EXCEPT !.header = "gateway", !.tun = TRUE]
     /\ lived' = Meanwhile /\ UNCHANGED dhcp
  \/ Check("tun")

(* TAP_IOCTL_CONFIG_DHCP_MASQ keeps what it has seen of requests. *)
ConfigDhcpMasq ==
  \/ /\ InRequest("start", "masq") /\ Onward("fields")
     /\ dhcp' = [dhcp EXCEPT !.on = FALSE, !.arp = FALSE, !.options = 0]
     /\ lived' = Meanwhile /\ UNCHANGED ptp
  \/ /\ InRequest("fields", "masq") /\ Onward("enable")
     /\ dhcp' = [dhcp EXCEPT !.addr = Request.addr, !.server = Request.server, !.mac = "server"]
     /\ lived' = [Meanwhile EXCEPT !.straddled = @ \/ transmit.at # "idle"] /\ UNCHANGED ptp
  \/ /\ InRequest("enable", "masq") /\ Onward("check")
     /\ dhcp' = [dhcp EXCEPT !.on = TRUE, !.arp = TRUE]
     /\ lived' = [Meanwhile EXCEPT !.moved = FALSE] /\ UNCHANGED ptp
  \/ Check("masq")

(* TAP_IOCTL_CONFIG_DHCP_SET_OPT: without options meanwhile. *)
SetOptions ==
  \/ /\ InRequest("start", "options") /\ lived' = Meanwhile /\ UNCHANGED ptp
     /\ IF Request.length <= DHCP_USER_SUPPLIED_OPTIONS_BUFFER_SIZE /\ dhcp.on
        THEN dhcp' = [dhcp EXCEPT !.options = 0] /\ Onward("copy")
        ELSE UNCHANGED dhcp /\ Done
  \/ /\ InRequest("copy", "options") /\ Done
     /\ dhcp' = [dhcp EXCEPT !.options = Request.length]
     /\ lived' = Meanwhile /\ UNCHANGED ptp

(* An ioctl whose input is too short is refused. *)
RefuseShort == InRequest("start", "short") /\ Done /\ Unaltered /\ lived' = Meanwhile

(* IRP_MJ_WRITE: a frame goes to the host as it is, in point-to-point mode a packet behind a
   header of the driver's; what is too short does not. *)
WriteDevice ==
  /\ InRequest("start", "write") /\ Done /\ Unaltered /\ lived' = Meanwhile
  /\ \/ written' = "refused"     \* no MDL, no mapping, or the interface is down
     \/ /\ ~ptp.tun
        /\ written' = IF Request.length >= ETHERNET_HEADER_SIZE THEN "frame" ELSE "refused"
     \/ /\ ptp.tun
        /\ written' = IF Request.length >= IP_HEADER_SIZE THEN ptp.header ELSE "refused"

Handle == OpenDevice \/ CloseDevice \/ ConfigTun \/ ConfigDhcpMasq \/ SetOptions \/ RefuseShort

-----------------------------------------------------------------------------
(* A packet of the host. *)

NoFrame     == [kind |-> "none"]
NothingSent == [at |-> "idle", frame |-> NoFrame, type |-> "none", server |-> "zero", user |-> 0,
                overflow |-> FALSE, length |-> 0]
Takes(at)  == [transmit EXCEPT !.at = at]
Consumed   == transmit' = NothingSent
Configured == UNCHANGED <<course, ioctl, ptp, dhcp>>
Passing    == transmit.frame

(* Without a process that has the device open it is dropped. *)
Transmit(f) ==
  /\ transmit.at = "idle" /\ ptp.open
  /\ transmit' = [NothingSent EXCEPT !.at = "dhcp", !.frame = f]
  /\ handed' = Silence /\ lived' = [lived EXCEPT !.mixed = FALSE] /\ Configured

(* Should the answer be an OFFER, an ACK, or a NAK? *)
Verdict(f, type) ==
  CASE type = "discover" -> "offer"
    [] type = "request" /\ (\/ f.ciaddr \notin {"zero", dhcp.addr} \/ ~dhcp.discover
                            \/ dhcp.bad >= BAD_DHCPREQUEST_NAK_THRESHOLD) -> "nak"
    [] OTHER -> "ack"

Counted(n) == IF n < BAD_DHCPREQUEST_NAK_THRESHOLD + 1 THEN n + 1 ELSE n     \* bound

(* ProcessDHCP up to the verdict: what is broken is dropped, what is not for the server is not. *)
ProcessDHCP(f) ==
  LET type == GetDHCPMessageType(f.options) IN
  IF f.options = <<>> \/ ~f.sound THEN Consumed /\ UNCHANGED lived
  ELSE IF ~DHCPMessageOurs(f) THEN transmit' = Takes("tun") /\ UNCHANGED lived
  ELSE IF ~f.request \/ type \notin {"discover", "request"} THEN Consumed /\ UNCHANGED lived
  ELSE /\ transmit' = [Takes("options") EXCEPT !.type = Verdict(f, type)]
       /\ lived' = [lived EXCEPT
            !.asked = @ \/ type = "discover",
            !.blind = IF type = "request" /\ f.ciaddr # dhcp.addr THEN Counted(@) ELSE @]

Masquerades ==
  /\ transmit.at = "dhcp" /\ Configured
  /\ \/ /\ dhcp.on /\ Passing.kind = "arp" /\ dhcp.arp
        /\ ProcessARP(Passing, dhcp.addr, {dhcp.server})
        /\ InjectPacket(Reply(Passing, dhcp.mac)) /\ Consumed /\ UNCHANGED lived
     \/ dhcp.on /\ Passing.kind = "boot" /\ ProcessDHCP(Passing) /\ UNCHANGED handed
     \/ /\ \/ ~dhcp.on
           \/ Passing.kind = "arp" /\ ~(dhcp.arp /\ ProcessARP(Passing, dhcp.addr, {dhcp.server}))
           \/ Passing.kind \in {"ip", "other"}
        /\ transmit' = Takes("tun") /\ UNCHANGED <<handed, lived>>

(* SendDHCPMsg, if there is memory: first the options, *)
SetOptionsOf ==
  /\ transmit.at = "options" /\ Configured /\ UNCHANGED <<handed, lived>>
  /\ \/ transmit' = Takes("note")
     \/ LET m == Options(transmit.type, dhcp.options) IN
        transmit' = [Takes("send") EXCEPT !.server = dhcp.server, !.user = dhcp.options,
                                          !.overflow = m.overflow, !.length = m.length]

(* then the rest, unless the options did not fit. *)
SendDHCPMsg ==
  /\ transmit.at = "send" /\ transmit' = Takes("note") /\ Configured /\ UNCHANGED lived
  /\ IF transmit.overflow THEN UNCHANGED handed
     ELSE InjectPacket(BuildDHCPPre(Passing, transmit.type))

(* The end of ProcessDHCP. *)
NoteRequest ==
  /\ transmit.at = "note" /\ Consumed /\ handed' = Silence
  /\ UNCHANGED <<course, ioctl, ptp, lived>>
  /\ dhcp' = [dhcp EXCEPT
       !.discover = @ \/ transmit.type = "offer",
       !.bad = IF transmit.type # "offer" /\ Passing.ciaddr # dhcp.addr THEN Counted(@) ELSE @]

(* In point-to-point mode ARP is answered or dropped, and only packets to the gateway go on. *)
PointToPoint ==
  \/ /\ transmit.at = "tun" /\ transmit' = Takes(IF ptp.tun THEN "ptp" ELSE "queue")
     /\ Configured /\ UNCHANGED <<handed, lived>>
  \/ /\ transmit.at = "ptp" /\ Configured /\ UNCHANGED lived
     /\ \/ /\ Passing.kind = "arp" /\ Consumed
           /\ IF ProcessARP(Passing, ptp.local, ptp.net)
              THEN InjectPacket(Reply(Passing, ptp.header)) ELSE UNCHANGED handed
        \/ Passing.kind = "other" /\ Consumed /\ UNCHANGED handed
        \/ /\ Passing.kind \in {"ip", "boot"} /\ UNCHANGED handed
           /\ transmit' = IF ptp.header # "none" /\ Passing.dest = ptp.header
                          THEN Takes("queue as tun") ELSE NothingSent

PassOn ==
  /\ transmit.at \in {"queue", "queue as tun"} /\ Consumed
  /\ Configured /\ UNCHANGED <<handed, lived>>

-----------------------------------------------------------------------------
TakesCourse(c) ==
  /\ course = c
  /\ ioctl = "start" /\ ptp = NoPtp /\ dhcp = NoDhcp /\ transmit = NothingSent
  /\ handed = Silence /\ written = "nothing"
  /\ lived = [asked |-> FALSE, blind |-> 0, moved |-> FALSE, mixed |-> FALSE, straddled |-> FALSE]
MasqueradeInit == \E c \in DOMAIN Course : TakesCourse(Course[c])

MasqueradeNext ==
  \/ WriteDevice
  \/ Handle /\ UNCHANGED written
  \/ (\E f \in Frame : Transmit(f)) /\ UNCHANGED written
  \/ (Masquerades \/ SetOptionsOf \/ SendDHCPMsg \/ NoteRequest \/ PointToPoint \/ PassOn)
       /\ UNCHANGED written

-----------------------------------------------------------------------------
PtpRecords ==
  [open : BOOLEAN, tun : BOOLEAN, local : Everywhere, net : SUBSET Everywhere, header : Mac]
BadCounts == 0..(BAD_DHCPREQUEST_NAK_THRESHOLD + 1)
DhcpRecords ==
  [on : BOOLEAN, arp : BOOLEAN, mac : Mac, addr : Everywhere, server : Everywhere,
   options : Nat, discover : BOOLEAN, bad : BadCounts]
TransmitRecords ==
  [at : {"idle", "dhcp", "options", "send", "note", "tun", "ptp", "queue", "queue as tun"},
   frame : Frame \union {NoFrame}, type : {"none", "offer", "ack", "nak"}, server : Everywhere,
   user : Nat, overflow : BOOLEAN, length : Nat]
HandedRecords ==
  [kind : {"nothing", "arp", "offer", "ack", "nak"}, mac : Mac, dest : Mac, addr : Everywhere,
   server : Everywhere, user : Nat]
LivedRecords ==
  [asked : BOOLEAN, blind : BadCounts, moved : BOOLEAN, mixed : BOOLEAN, straddled : BOOLEAN]

MasqueradeTypeOK ==
  /\ course \in Seq(Requested)
  /\ ioctl \in {"start", "reset", "addresses", "headers", "check", "fields", "enable", "copy"}
  /\ ptp \in PtpRecords /\ dhcp \in DhcpRecords /\ transmit \in TransmitRecords
  /\ handed \in HandedRecords /\ lived \in LivedRecords
  /\ transmit.at # "idle" => transmit.frame \in Frame
  /\ written \in {"nothing", "refused", "frame"} \union Mac

(* Unless a frame was on its way while the device was opened, closed or given an address, what
   the server remembers is what it was asked since the device was opened. *)
Deciding == transmit.at \in {"options", "send", "note"}
SessionRemembered ==
  ~lived.straddled /\ ~Deciding => dhcp.discover = lived.asked /\ dhcp.bad = lived.blind

(* And it says no exactly to a client that wants another address, was not offered one since
   the device was opened, or after three requests that did not name it, however often the
   server was configured since. *)
VerdictJust ==
  Deciding /\ transmit.type # "offer" /\ ~lived.straddled =>
    (transmit.type = "nak" <=>
       \/ Passing.ciaddr \notin {"zero", dhcp.addr} \/ ~lived.asked
       \/ lived.blind >= BAD_DHCPREQUEST_NAK_THRESHOLD + (IF Passing.ciaddr = "zero" THEN 1 ELSE 0))

(* An answer fits its buffer with all that the process supplied, so too long options, which
   the ioctl takes, mean no lease at all; and unless an ioctl ran meanwhile it tells
   what is configured. *)
AnswerWhole ==
  handed.kind \in {"offer", "ack"} =>
    /\ transmit.length <= DHCP_OPTIONS_BUFFER_SIZE
    /\ handed.user <= DHCP_OPTIONS_BUFFER_SIZE - 22
    /\ transmit.at = "note" /\ ~lived.mixed =>
         /\ handed.mac = dhcp.mac /\ handed.addr = dhcp.addr /\ handed.server = dhcp.server
         /\ handed.user = dhcp.options

(* Whom the host finds when it asks for the address of the server: the one that answers DHCP, or
   nobody, after the remote network no longer encloses it, or if that network knows the card
   by another address. *)
ServerAnswers ==
  CASE dhcp.arp -> dhcp.mac
    [] ~dhcp.arp /\ ptp.tun /\ ptp.local = dhcp.addr /\ dhcp.server \in ptp.net -> ptp.header
    [] OTHER -> "nobody"
ServerFound ==
  dhcp.on /\ ioctl = "start" =>
    ServerAnswers = dhcp.mac \/ (ServerAnswers = "nobody" /\ (lived.moved \/ ptp.local # dhcp.addr))

(* What is the server's is not passed on to the process, and in point-to-point mode only
   packets to the gateway are; what a process writes then has a header. *)
NotPassedOn ==
  /\ transmit.at \in {"queue", "queue as tun"} /\ dhcp.on /\ ~lived.mixed =>
       ~(Passing.kind = "boot" /\ Passing.ours /\ Passing.dest \in {"broadcast", dhcp.mac})
  /\ transmit.at = "queue as tun" => Passing.dest = "gateway"
  /\ written \in Mac => written = "gateway"

MasqueradeExact ==
  SessionRemembered /\ VerdictJust /\ AnswerWhole /\ ServerFound /\ NotPassedOn
=============================================================================
