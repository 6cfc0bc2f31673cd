--------------------------- MODULE MCGuestDevices ---------------------------
(* Two monitors for the parts that monitors share, one volume and one conet unit, and the
   log of the driver with one descriptor.  The first writer only logs for the driver, the
   second inside a call on the descriptor, too. *)
EXTENDS GuestDevices

CONSTANTS w1, w2, m1, m2

LogOwners == [w \in {w1, w2} |-> IF w = w1 THEN {"driver"} ELSE {"h", "driver"}]

(* Connections through slirp: the guest sends two units, both sides send, the host sends two,
   into one or the other size of window. *)
C(who, sent, given, space) ==
  [opener |-> who, guest |-> sent, host |-> given, space |-> space]
Connections ==
  {C("guest", 2, 0, 1), C("guest", 1, 0, 1), C("guest", 0, 2, 1), C("guest", 0, 2, 2),
   C("host", 1, 1, 1), C("host", 0, 1, 2)}

(* Command lines: a parameter is in an @file, a switch on the line itself. *)
P(word, key, n, value) == [word |-> word, key |-> key, n |-> n, value |-> value, file |-> TRUE]
S(word) == [word |-> word, key |-> "none", n |-> 0, value |-> <<>>, file |-> FALSE]
MCKernel == P("kernel", "none", 0, <<"vmlinux">>)
MCEth == <<P("eth", "index", 0, <<"slirp">>), P("eth", "index", 1, <<"tuntap", "name", "mac">>)>>
MCDisk ==
  {P("cobd", "index", 0, <<"path">>), P("cobd", "none", 0, <<"path">>),
   P("hd", "text", 0, <<":cobd">>), P("sd", "text", 0, <<"path">>), P("hd", "text", 0, <<"path">>)}
MCDevice ==
  {P("eth", "index", 0, <<"tuntap", "name", "mac">>),
   P("eth", "index", 1, <<"pcap-bridge", "long", "mac">>),
   P("scsi", "index", 1, <<"disk", "path", "huge">>), P("scsi", "index", 0, <<"disk", "long">>),
   P("pci", "none", 0, <<"noacpi">>), P("pci", "index", 0, <<"1", "scsi">>),
   P("cofs", "index", 1, <<"path">>), P("initrd", "none", 0, <<"path">>),
   P("ttys", "index", 0, <<"COM1", "mode">>), P("exec", "index", 0, <<"long">>),
   P("mem", "none", 0, <<"64">>), P("mem", "text", 0, <<"4M">>),
   P("cocon", "none", 0, <<"some", "some", "large">>), P("color", "none", 0, <<"red", "blue">>),
   P("setcobd", "none", 0, <<"async">>),
   P("color", "none", 0, <<"long">>), P("root", "none", 0, <<"path">>)}
MCSlot ==
  {P("pci", "index", 0, <<"0", "network", "0">>), P("pci", "none", 0, <<"0", "network", "1">>),
   P("pci", "index", 1, <<"0", "network", "0">>)}
MCSwitch == {S(s) : s \in Dashed \ {"-c"}} \union {S("word")}

CommandLines ==
  {<<MCKernel, a, b>> : a \in MCDisk, b \in MCDisk}
    \union {<<MCKernel, a, b>> : a \in MCDevice, b \in MCDevice}
    \union {<<MCKernel>> \o MCEth \o <<a, b>> : a \in MCSlot, b \in MCSlot}
    \union {<<a, b, MCKernel>> : a \in MCSwitch, b \in MCSwitch}
    \union {<<S("-c"), S("word")>>,
            <<S("--install-service"), S("name"), MCKernel, P("root", "none", 0, <<"path">>)>>}

(* Datagrams of the guest, and what happens with them: a frame may come as often as its
   exchange says, in any order. *)
D(proto, id, from, to, port, size) ==
  [proto |-> proto, id |-> id, src |-> "client", from |-> from, to |-> to, port |-> port,
   size |-> size, ulen |-> size, sum |-> TRUE, df |-> FALSE, type |-> "echo"]
Datagrams ==
  [big    |-> D("udp", 1, "p", "net", "any", 3),
   other  |-> D("udp", 1, "q", "alias", "any", 2),
   ask    |-> D("udp", 2, "p", "dns", "domain", 1),
   again  |-> D("udp", 3, "p", "alias", "any", 1),
   cut    |-> [D("udp", 4, "q", "net", "any", 2) EXCEPT !.ulen = 1],
   spoilt |-> [D("udp", 5, "q", "net", "any", 1) EXCEPT !.sum = FALSE],
   long   |-> [D("udp", 6, "q", "net", "any", 1) EXCEPT !.ulen = 2],
   second |-> [D("udp", 7, "p", "net", "any", 1) EXCEPT !.src = "second"],
   served |-> D("udp", 8, "served", "net", "any", 1),
   ping   |-> D("icmp", 1, "any", "net", "any", 2),
   near   |-> D("icmp", 2, "any", "alias", "any", 3),
   fixed  |-> [D("icmp", 3, "any", "alias", "any", 3) EXCEPT !.df = TRUE],
   told   |-> [D("icmp", 4, "any", "net", "any", 1) EXCEPT !.type = "unreach"],
   nine   |-> D("udp", 9, "discard", "net", "any", 1),
   tcp    |-> D("other", 1, "p", "net", "any", 1),
   find1  |-> D("udp", 10, "bootpc", "all", "bootps", 1),
   take1  |-> D("udp", 11, "bootpc", "all", "bootps", 1),
   take2  |-> D("udp", 12, "bootpc", "all", "bootps", 1),
   old2   |-> D("udp", 13, "bootpc", "all", "bootps", 1),
   nak    |-> D("udp", 14, "bootpc", "all", "bootps", 1)]
B(mac, options) == [op |-> "request", options |-> options, mac |-> mac]
Boots ==
  [find1 |-> B("mac1", <<"pad", "discover", "end", "request">>),
   take1 |-> B("mac1", <<"other", "request", "end">>),
   take2 |-> B("mac2", <<"request">>), old2 |-> B("mac2", <<>>),
   nak   |-> [B("mac2", <<"release">>) EXCEPT !.op = "reply"]]

F(d, off, len, more) ==
  [eth |-> "ip", header |-> "good", d |-> d, off |-> off, len |-> len, more |-> more, to |-> "any"]
W(d) == F(d, 0, Datagrams[d].size, FALSE)
H(d, header) == [W(d) EXCEPT !.header = header]
A(op, to, mac) == [W("ask") EXCEPT !.eth = "arp", !.header = op, !.to = to, !.d = mac]
X(fs, copies, memory) ==
  [frames |-> fs, copies |-> copies, memory |-> memory, redirect |-> FALSE, start |-> 5,
   ticks |-> 0, answers |-> 0]
Exchanges ==
  <<(* fragments of two datagrams with one id, in any order, twice, overlapping; a lack of mbufs *)
   X(<<F("big", 0, 1, TRUE), F("big", 1, 1, TRUE), F("big", 0, 2, TRUE),
      F("big", 1, 2, FALSE), F("other", 0, 1, TRUE), F("other", 1, 1, FALSE)>>, 1, 4),
   X(<<F("big", 0, 1, TRUE), F("big", 1, 1, TRUE), F("big", 2, 1, FALSE)>>, 2, 5),
   [X(<<F("big", 0, 1, TRUE), F("big", 1, 2, FALSE), H("big", "ttl"),
       [F("big", 1, 2, FALSE) EXCEPT !.header = "ttl"]>>, 1, 4) EXCEPT !.ticks = 2],
   (* one port of the guest, three places, the answers *)
   [X(<<W("big"), W("ask"), W("again"), W("second")>>, 1, 7) EXCEPT !.answers = 2],
   (* expiry, short and long, around the end of the clock *)
   [X(<<W("ask"), H("ask", "reserved")>>, 1, 5) EXCEPT !.answers = 1, !.ticks = 4, !.start = 4],
   [X(<<W("served"), W("other")>>, 1, 5) EXCEPT !.answers = 1, !.ticks = 3, !.start = 6, !.redirect = TRUE],
   (* pings, and a datagram that finds the socket of one *)
   [X(<<W("ping"), W("nine"), W("told"), H("ping", "ttl"), H("told", "ttl")>>, 1, 5)
      EXCEPT !.answers = 2],
   (* headers; ARP, and answers of this machine *)
   X(<<H("ask", "small"), H("ask", "wrong"), W("cut"), W("spoilt"), W("long"), W("tcp")>>, 1, 3),
   X(<<[W("ask") EXCEPT !.eth = "other"], A("request", "dns", "mac1"), A("request", "client", "mac1"),
      A("reply", "client", "mac1"), W("near"), W("fixed"), W("nak")>>, 1, 3),
   (* DHCP *)
   X(<<W("find1"), W("take1"), W("take2"), W("old2")>>, 2, 4)>>

(* Programs that are started at one driver, which is there before or not, and what may fail. *)
Do(does, version) == [does |-> does, version |-> version]
Scenes ==
  LET i == Do("install", "new")  r == Do("remove", "new")  s == Do("status", "new")
      n == Do("daemon", "new")   o == Do("daemon", "old")
      Play(commands, before, faults) ==
        [commands |-> commands, driver |-> before, faults |-> faults]
  IN <<Play(<<n, n, n>>, "new", {}), Play(<<n, n, n>>, "new", {"registry", "monitor"}),
       Play(<<r, n, n, i>>, "new", {}), Play(<<i, i, r, s>>, "none", {"start"}),
       Play(<<r, i, n, o>>, "old", {}), Play(<<i, n, r>>, "none", {"load"}),
       Play(<<i, r, s>>, "none", {"access", "create", "open"})>>

(* What the host transmits through a TAP card, and what a process asks of it. *)
Sends(kind, dest, from, to) ==
  [kind |-> kind, dest |-> dest, from |-> from, to |-> to, sound |-> TRUE, ours |-> TRUE,
   request |-> TRUE, options |-> <<>>, ciaddr |-> "zero"]
Lease(dest, options, ciaddr) ==
  [Sends("boot", dest, "a", "s") EXCEPT !.options = options, !.ciaddr = ciaddr]
Packets ==
  {Sends("arp", "broadcast", "a", "s"), Sends("arp", "broadcast", "zero", "a"),
   Sends("arp", "broadcast", "a", "b"), Sends("ip", "gateway", "a", "b"),
   Sends("other", "own", "a", "a"),
   Lease("broadcast", <<"pad", "discover", "end">>, "zero"),
   Lease("broadcast", <<"other", "request">>, "zero"), Lease("server", <<"request">>, "a"),
   Lease("gateway", <<"request", "end">>, "a"), Lease("broadcast", <<>>, "zero"),
   [Lease("broadcast", <<"request">>, "zero") EXCEPT !.request = FALSE],
   [Lease("gateway", <<"request">>, "zero") EXCEPT !.ours = FALSE]}
Courses ==
  LET open == [does |-> "open"]  close == [does |-> "close"]
      Tun(remote, sound) == [does |-> "tun", local |-> "a", net |-> remote, sound |-> sound]
      Masq(addr) == [does |-> "masq", addr |-> addr, server |-> "s"]
      Opt(n)  == [does |-> "options", length |-> n]
      Give(n) == [does |-> "write", length |-> n]
  IN <<<<open, Masq("a"), Tun({"b", "s"}, TRUE), Tun({"b"}, TRUE), close>>,
       <<open, Tun({"b", "s"}, TRUE), Masq("a"), Give(19), Give(20), [does |-> "short"],
         Tun({"s"}, FALSE)>>,
       <<open, Give(13), Give(19), Masq("a"), Opt(234), Opt(235), Opt(257)>>,
       <<open, Opt(1), Masq("a"), Masq("b"), close, open, Masq("a")>>>>

(* The values of the constants.  TLC evaluates a definition that the .cfg names every time it
   is used, and one that such a definition names only once. *)
MCLogOwner == LogOwners
MCConnection == Connections
MCCommandLine == CommandLines
MCDatagram == Datagrams
MCBoot == Boots
MCExchange == Exchanges
MCScene == Scenes
MCFrame == Packets
MCCourse == Courses

(* What is not followed further: a connection whose ends both have finished when there was more
   than one unit to send, and a broken one after some of it was sent; a console that an overlap
   misled; a section whose count a stale store overwrote or that was freed early; block devices
   once a monitor was told an rc of the other, when a guest has reset its device or both were
   told one; conet after two kinds of mishap; a TAP card that is opened again after more than
   one read or packet; of cofs an open directory, a lookup that waits, and a mishap once the
   numbers are given out; and a card that got an address under a frame after requests that were
   wrong. *)
Followed ==
  /\ mishaps \intersect {"refcount", "early free"} = {}
  /\ Cardinality(conetMishaps) < 2
  /\ peer.eof /\ guestTcp.finished => guestTcp.units + peer.units <= 1
  /\ aborted => guestTcp.nxt <= 1 /\ peer.wrote = 0
  /\ ~torn
  /\ wrongRc # {} => Cardinality(wrongRc) < 2 /\ \A m \in BlkMonitor : resets[m] = 0
  /\ tapSession = 2 => tapReads + tapSent <= 1
  /\ (\E n \in Ino : dirOpens[n] > 0) => nextIno < MaxIno
  /\ waiting.ino # 0 \/ cofsMishaps # {} => nextIno <= MaxIno
  /\ lived.straddled => lived.blind = 0

(* The run about the size of a block device. *)
Sizing == exercised = "block"
=============================================================================
