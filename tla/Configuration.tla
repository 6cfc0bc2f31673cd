---------------------------- MODULE Configuration ----------------------------
(***************************************************************************)
(* How colinux-daemon reads its command line: the parameters it takes from *)
(* the line and from @files, the switches, the options and devices of the  *)
(* configuration, the rest that goes to the guest's boot line, what the    *)
(* daemon is then told to do, and the processes it launches for the        *)
(* configured devices.                                                     *)
(*                                                                         *)
(* Sources: user/cmdline.c, user/config.c, user/daemon.c, common/config.h, *)
(* os/winnt/user/daemon/cmdline.c and main.c.                              *)
(*                                                                         *)
(* A parameter is [word, key, n, value, file]: the switch, or the prefix   *)
(* before '=' that the parser looks for and the kind of key between the    *)
(* prefix and '=' ("none", "index" n, "text" that is no number, or "long", *)
(* more than the key's buffer holds), the comma-separated fields of the    *)
(* value, and whether it stands in an @file.                               *)
(***************************************************************************)
EXTENDS Integers, Sequences, FiniteSets, FiniteSetsExt, SequencesExt

CONSTANTS
  CommandLine,    (* bound: the command lines tried                        *)
  LastUnit,       (* every kind of device has units 0..LastUnit            *)
  BootRoom,       (* parameters the boot line has room for                 *)
  MaxText         (* bound: characters of the @file that is scanned        *)

Parameter ==
  [word : STRING, key : {"none", "index", "text", "long"}, n : Nat, value : Seq(STRING),
   file : BOOLEAN]

ASSUME ConfigAssumption ==
  /\ LastUnit \in Nat /\ BootRoom \in Nat
  /\ CommandLine \subseteq Seq(Parameter)

VARIABLES
  line,           (* the parameters, in the order they are given           *)
  argv,           (* cmdline->argv: positions in line, 0 once taken        *)
  stage,          (* the parser that runs next, or how it all ended        *)
  parsed,         (* rc of parse_config_args                               *)
  chosen,         (* the switches that were found                          *)
  conf,           (* co_config_t: the position each setting came from      *)
  child,          (* the processes launched for devices                    *)
  fate,           (* history: what became of each parameter                *)
  scan            (* get_params_list at work on the text of an @file       *)

configVars == <<line, argv, stage, parsed, chosen, conf, child, fate, scan>>

Plain     == {"--install-driver", "--remove-driver", "--status-driver", "-d", "-k", "-h"}
Optional  == {"--install-service", "--remove-service", "--run-service"}
Mandatory == {"-c", "-p", "-t", "-v"}
Dashed    == Plain \union Optional \union Mandatory \union {"-x"}   \* and one nobody knows
Option    == {"kernel", "mem", "setcobd", "initrd", "color", "cocon", "cursor"}
Kind      == {"scsi", "cobd", "eth", "cofs", "ttys", "exec"}
Prefix    == {"sd", "hd"}
Unit      == 0..LastUnit
PciSlot      == Unit \X {"0", "1"}       \* PCI device and function

NoUnit == [from |-> 0, fields |-> <<>>]

ParserOrder ==
  <<"--install-service", "--remove-service", "--run-service", "--install-driver",
    "--remove-driver", "--status-driver", "-c", "-p", "-t", "-d", "-k", "-v", "-h", "kernel">>
ConfigOrder ==
  <<"mem", "scsi", "setcobd", "cobd", "sd", "hd", "eth", "cofs", "pci", "initrd", "ttys",
    "exec", "color", "cocon", "cursor", "boot">>
Order    == ParserOrder \o ConfigOrder
After(s) == Order[CHOOSE i \in 2..Len(Order) : Order[i - 1] = s]

ConfigInit ==
  /\ line = <<>> /\ stage = "files"
  /\ argv = <<>> /\ parsed = TRUE /\ chosen = {} /\ child = <<>>
  /\ conf = [unit |-> [k \in Kind |-> [n \in Unit |-> NoUnit]],
             alias |-> [n \in Unit |-> 0], pci |-> [s \in PciSlot |-> NoUnit],
             option |-> [o \in Option |-> 0], boot |-> <<>>]
  /\ fate = <<>>
  /\ scan = [text |-> <<>>, state |-> "INIT", start |-> 0, found |-> <<>>]

Arg(i)      == line[argv[i]]
Found(word) == {i \in DOMAIN argv : argv[i] # 0 /\ Arg(i).word = word}
First(word) == Min(Found(word))

(* The parameters at these places of argv are taken. *)
Take(places, how) ==
  /\ argv' = [i \in DOMAIN argv |-> IF i \in places THEN 0 ELSE argv[i]]
  /\ fate' = [p \in DOMAIN fate |-> IF \E i \in places : argv[i] = p THEN how ELSE fate[p]]

Goto(next) == stage' = next

(* What is left of args without the entries that are gone. *)
Without(args, gone) ==
  LET kept[i \in 0..Len(args)] ==
        IF i = 0 THEN <<>>
        ELSE IF args[i] \in gone THEN kept[i - 1] ELSE Append(kept[i - 1], args[i])
  IN kept[Len(args)]

-----------------------------------------------------------------------------
(* get_params_list: a table of states and character classes.               *)

Char == {"letter", "=", "quote", " ", "newline", "#", "other"}   \* letters, digits and '.' alike

Goes(state, c) ==
  IF state = "COMMENT" THEN IF c = "newline" THEN "INIT" ELSE "COMMENT"
  ELSE IF c = "#" THEN "COMMENT"
  ELSE IF state \in {"INIT", "WHITESPACE"} THEN
    CASE c = "letter" -> "PARAM"
      [] c \in {" ", "newline"} -> "WHITESPACE"
      [] OTHER -> "INIT"
  ELSE IF c \in {"newline", "end"} THEN "INIT"
  ELSE IF state = "EQUAL_STR" THEN IF c = "quote" THEN "PARAM" ELSE "EQUAL_STR"
  ELSE CASE c = " " -> "INIT"
         [] c = "quote" -> "EQUAL_STR"
         [] c = "=" -> "EQUAL"
         [] OTHER -> state

InParameter == {"PARAM", "EQUAL", "EQUAL_STR"}

ScanChar(c) ==
  LET next == Goes(scan.state, c)
      at   == Len(scan.text) + 1
      starts == scan.state \notin InParameter /\ next = "PARAM"
      ends   == scan.state \in InParameter /\ next \notin InParameter
  IN /\ stage = "scan" \/ stage = "files"
     /\ c \in Char => Len(scan.text) < MaxText
     /\ scan' = [text |-> Append(scan.text, c), state |-> next,
                 start |-> IF starts THEN at ELSE IF ends THEN 0 ELSE scan.start,
                 found |-> IF ends THEN Append(scan.found, <<scan.start, at - 1>>)
                                   ELSE scan.found]
     /\ Goto(IF c = "end" THEN "scanned" ELSE "scan")
     /\ UNCHANGED <<line, argv, parsed, chosen, conf, child, fate>>

(* co_cmdline_params_alloc, with eval_params_file for an @file.  A parameter of an @file that
   there is no memory for is passed over, and the call succeeds all the same; one of the
   command line itself makes it fail. *)
ParamsAlloc ==
  /\ stage = "files"
  /\ \/ \E given \in CommandLine :
          \E failed \in {{}} \union {{p} : p \in {q \in DOMAIN given : given[q].file}} :
             /\ line' = given
             /\ argv' = Without([p \in DOMAIN given |-> p], failed)
             /\ fate' = [p \in DOMAIN given |-> IF p \in failed THEN "no memory" ELSE "unread"]
             /\ Goto(Order[1])
     \/ Goto("error") /\ UNCHANGED <<line, argv, fate>>
  /\ UNCHANGED <<parsed, chosen, conf, child, scan>>

-----------------------------------------------------------------------------
(* Switches.                                                               *)

Switch(s) ==
  /\ stage = s /\ s \in Plain
  /\ IF Found(s) = {} THEN UNCHANGED <<argv, fate, chosen>>
     ELSE Take({First(s)}, "switch") /\ chosen' = chosen \union {s}
  /\ Goto(After(s))
  /\ UNCHANGED <<line, parsed, conf, child, scan>>

(* The next parameter, unless it was taken or is a switch; whatever it is otherwise. *)
ArgumentOf(s) ==
  {i \in {First(s) + 1} \intersect DOMAIN argv :
     argv[i] # 0 /\ Arg(i).word \notin Dashed}

(* The error of "-v" is overwritten, so a "-v" without a level stays where it is. *)
SwitchWithArgument(s) ==
  /\ stage = s /\ s \in Optional \union Mandatory
  /\ IF Found(s) # {} /\ (s \in Optional \/ ArgumentOf(s) # {})
     THEN /\ Take({First(s)} \union ArgumentOf(s), "switch")
          /\ chosen' = chosen \union {s}
          /\ Goto(After(s))
     ELSE /\ Goto(IF Found(s) = {} \/ s = "-v" THEN After(s) ELSE "error")
          /\ UNCHANGED <<argv, fate, chosen>>
  /\ UNCHANGED <<line, parsed, conf, child, scan>>

-----------------------------------------------------------------------------
(* Options that are taken once; a second one stays for the boot line.      *)

(* co_cmdline_get_next_equality with no room for a key, into a buffer of a fixed size. *)
Fetched(arg) == arg.key = "none" /\ arg.value \notin {<<>>, <<"long">>}

(* What each option accepts.  Of the three sizes of the console the last may be left out, and
   is never below the second; a number that is no number is 0. *)
Mem(value)     == value[1] # "text"
Setcobd(value) == value[1] \in {"async", "sync"}
Color(value)   == Len(value) = 2 /\ "text" \notin ToSet(value) /\ value[1] # value[2]
Cocon(value)   == Len(value) >= 2 /\ {value[1], value[2]} \intersect {"text", "small"} = {}
                    /\ "large" \notin {value[2]} \union ToSet(SubSeq(value, 3, Len(value)))
Cursor(value)  == value[1] # "large"

OptionAccepts(o, value) ==
  CASE o = "mem" -> Mem(value)
    [] o = "setcobd" -> Setcobd(value)
    [] o = "color" -> Color(value)
    [] o = "cocon" -> Cocon(value)
    [] o = "cursor" -> Cursor(value)
    [] OTHER -> TRUE

Refuse(s) == IF s = "kernel" THEN Goto("error") /\ UNCHANGED parsed
                             ELSE Goto("boot") /\ parsed' = FALSE

(* The initrd's directory becomes the last cofs unit when that is free. *)
AutoCofs(p, c) ==
  IF c.unit["cofs"][LastUnit].from # 0 THEN c
  ELSE [c EXCEPT !.unit["cofs"][LastUnit] = [from |-> p, fields |-> <<"directory">>]]

OneOption(o) ==
  /\ stage = o /\ o \in Option
  /\ IF Found(o) = {}
     THEN /\ Goto(IF o = "kernel" THEN "check" ELSE After(o))
          /\ UNCHANGED <<argv, fate, conf, parsed>>
     ELSE LET p   == argv[First(o)]
              set == [conf EXCEPT !.option[o] = p]
          IN IF Fetched(line[p]) /\ OptionAccepts(o, line[p].value)
             THEN /\ Take({First(o)}, "option")
                  /\ conf' = IF o = "initrd" THEN AutoCofs(p, set) ELSE set
                  /\ Goto(After(o)) /\ UNCHANGED parsed
             ELSE \* nobody looks at the rc of fetching a color
                  /\ UNCHANGED conf
                  /\ IF o = "color" /\ ~Fetched(line[p])
                     THEN Take({First(o)}, "ignored") /\ Goto(After(o)) /\ UNCHANGED parsed
                     ELSE Take({First(o)}, "refused") /\ Refuse(o)
  /\ UNCHANGED <<line, chosen, child, scan>>

-----------------------------------------------------------------------------
(* Devices.                                                                *)

(* split_comma_separated: a field longer than its buffer loses a character and goes on in
   the next buffer. *)
Split(value, buffers) ==
  LET Spread(field) == IF field = "long" THEN <<"cut", "rest">> ELSE <<field>>
      all == FlattenSeq([i \in DOMAIN value |-> Spread(value[i])])
  IN [i \in 1..buffers |-> IF i <= Len(all) THEN all[i] ELSE ""]

(* What a unit is given, or <<>> when its parser refuses the value. *)
PathOf(value) == <<value[1]>>

(* Every type but "pass" and "changer" is a "disk" here: its size must be in range. *)
Scsi(value) ==
  LET f == Split(value, 4) IN
  IF f[1] \in {"pass", "disk"} /\ (f[1] # "disk" \/ f[3] # "huge") THEN f ELSE <<>>

ValidMac(text)     == text \in {"", "mac"}
ValidPromisc(text) == text \in {"", "promisc", "nopromisc"}

Tuntap(value) == LET f == Split(value, 3) IN IF ValidMac(f[2]) THEN f ELSE <<>>
Slirp(value)  == LET f == Split(value, 2) IN IF ValidMac(f[1]) THEN f ELSE <<>>
Pcap(value) ==
  LET f == Split(value, 3) IN IF ValidMac(f[2]) /\ ValidPromisc(f[3]) THEN f ELSE <<>>
Ndis(value) == Pcap(value)            \* the text is a copy

Eth(value) ==
  LET rest == Tail(value) IN
  CASE value[1] = "tuntap" -> Tuntap(rest)
    [] value[1] = "pcap-bridge" -> Pcap(rest)
    [] value[1] = "ndis-bridge" -> Ndis(rest)
    [] value[1] = "slirp" -> Slirp(rest)
    [] OTHER -> <<>>

Serial(value)  == LET f == Split(value, 2) IN IF f[1] # "" THEN f ELSE <<>>
Execute(value) == LET f == Split(value, 2) IN IF f[1] # "" THEN f ELSE <<>>

Parsed(kind, value) ==
  CASE kind \in {"cobd", "cofs"} -> PathOf(value)
    [] kind = "scsi" -> Scsi(value)
    [] kind = "eth" -> Eth(value)
    [] kind = "ttys" -> Serial(value)
    [] kind = "exec" -> Execute(value)

(* Without a key the buffer for it is not written: any number that was left in it. *)
IndexOf(arg) ==
  CASE arg.key = "index" -> {arg.n} \intersect Unit
    [] arg.key = "none" -> Unit
    [] OTHER -> {}

(* A parameter that is not accepted, or for which there is no memory. *)
RefusesDevice(s) ==
  /\ Found(s) # {}
  /\ Take({First(s)}, "refused") /\ Goto("boot") /\ parsed' = FALSE
  /\ UNCHANGED <<line, chosen, conf, child, scan>>

NoMore(s) ==
  /\ Found(s) = {}
  /\ Goto(After(s))
  /\ UNCHANGED <<line, argv, parsed, chosen, conf, child, fate, scan>>

Device(kind) ==
  /\ stage = kind /\ kind \in Kind
  /\ \/ NoMore(kind) \/ RefusesDevice(kind)
     \/ /\ Found(kind) # {}
        /\ LET p == argv[First(kind)] IN
           \E n \in IndexOf(line[p]) :
             /\ line[p].value # <<>> /\ Parsed(kind, line[p].value) # <<>>
             /\ conf.unit[kind][n].from = 0
             /\ conf' = [conf EXCEPT !.unit[kind][n] =
                           [from |-> p, fields |-> Parsed(kind, line[p].value)]]
             /\ Take({First(kind)}, "unit")
             /\ UNCHANGED <<line, stage, parsed, chosen, child, scan>>

(* "hda1=:cobd0" names a unit that exists; "hda1=path" allocates one. *)
Lowest(free) == {n \in free : \A m \in free : n <= m}
AllocateByAlias_Any(c) == Lowest(Unit)   \* mutant: a unit that is in use, too
AllocateByAlias(c) == Lowest({n \in Unit : c.unit["cobd"][n].from = 0})

Alias(prefix) ==
  /\ stage = prefix /\ prefix \in Prefix
  /\ \/ NoMore(prefix) \/ RefusesDevice(prefix)
     \/ /\ Found(prefix) # {}
        /\ LET p   == argv[First(prefix)]
               arg == line[p]
           IN /\ arg.key # "long" /\ arg.value # <<>>
              /\ IF arg.value[1] = ":cobd"
                 THEN /\ arg.n \in Unit
                      /\ conf.unit["cobd"][arg.n].from # 0 /\ conf.alias[arg.n] = 0
                      /\ conf' = [conf EXCEPT !.alias[arg.n] = p]
                 ELSE \E n \in AllocateByAlias(conf) :
                        conf' = [conf EXCEPT !.alias[n] = p,
                                   !.unit["cobd"][n] = [from |-> p, fields |-> arg.value]]
              /\ Take({First(prefix)}, "alias")
              /\ UNCHANGED <<line, stage, parsed, chosen, child, scan>>

(* pciN=function,type,unit, after every device it may name. *)
Number(text) == IF text = "1" THEN 1 ELSE 0          \* atoi
Enabled(kind) == {n \in Unit : conf.unit[kind][n].from # 0}

PciDevice ==
  /\ stage = "pci"
  /\ \/ NoMore("pci") \/ RefusesDevice("pci")
     \/ /\ Found("pci") # {}
        /\ LET p == argv[First("pci")]
               f == Split(line[p].value, 3)
           IN \E d \in IndexOf(line[p]) :
                /\ line[p].value # <<>> /\ f[1] # "9"
                /\ \/ f[2] = "scsi" /\ Enabled("scsi") # {}
                   \/ f[2] = "network" /\ Number(f[3]) \in Enabled("eth")
                /\ conf' = [conf EXCEPT !.pci[<<d, IF f[1] = "1" THEN "1" ELSE "0">>] =
                              [from |-> p, fields |-> f]]
                /\ Take({First("pci")}, "slot")
                /\ UNCHANGED <<line, stage, parsed, chosen, child, scan>>

-----------------------------------------------------------------------------
(* What is left, and what the daemon does.                                 *)

(* Every parameter is freed, the ones the boot line has no room for, too. *)
FormatRemaining ==
  /\ stage = "boot"
  /\ LET rest == Without(argv, {0}) IN
     /\ conf' = [conf EXCEPT !.boot = SubSeq(rest, 1, Min({BootRoom, Len(rest)}))]
     /\ fate' = [p \in DOMAIN fate |->
                   IF \E i \in DOMAIN rest : rest[i] = p
                   THEN IF \E i \in 1..Len(rest) : i <= BootRoom /\ rest[i] = p
                        THEN "boot" ELSE "lost"
                   ELSE fate[p]]
  /\ argv' = [i \in DOMAIN argv |-> 0]
  /\ Goto(IF parsed THEN "check" ELSE "error")
  /\ UNCHANGED <<line, parsed, chosen, child, scan>>

ConfigSpecified == "-c" \in chosen \/ conf.option["kernel"] # 0
Commands == <<"--status-driver", "--install-driver", "--install-service", "--remove-service",
              "--remove-driver", "--run-service">>

(* The first command, of the order they are looked for in, or else the daemon's own work. *)
WhatToDo ==
  LET given == SelectSeq(Commands, LAMBDA s : s \in chosen)
  IN IF given = <<>> THEN "daemon" ELSE given[1]

Unparsed == {i \in DOMAIN argv : argv[i] # 0}

CheckUnparsed ==
  /\ stage = "check"
  /\ Goto(IF "-h" \in chosen \/ Unparsed # {} THEN "error"
          ELSE IF WhatToDo \in {"--install-service", "--run-service", "daemon"} /\ ~ConfigSpecified
          THEN "error"
          ELSE IF WhatToDo \in {"--run-service", "daemon"}
          THEN IF conf.option["kernel"] # 0 THEN "launch" ELSE "error"   \* "-c" is obsolete
          ELSE "command")
  /\ UNCHANGED <<line, argv, parsed, chosen, conf, child, fate, scan>>

(* One process for every device that needs one; that it could not be launched is a warning. *)
Launched == {"eth", "ttys", "exec"}

LaunchDaemons ==
  /\ stage = "launch"
  /\ \E failed \in SUBSET {d \in Launched \X Unit : d[2] \in Enabled(d[1])} :
       child' = [d \in {x \in Launched \X Unit : x[2] \in Enabled(x[1])} |->
                   IF d \in failed THEN "failed" ELSE "running"]
  /\ Goto("running")
  /\ UNCHANGED <<line, argv, parsed, chosen, conf, fate, scan>>

(* When the guest ends, the programs of exec entries are killed; the network and serial
   daemons end with the monitor. *)
KillExecutes ==
  /\ stage = "running"
  /\ \E spared \in SUBSET {d \in DOMAIN child : d[1] = "exec" /\ child[d] = "running"} :
       child' = [d \in DOMAIN child |->
                   IF d[1] = "exec" /\ child[d] = "running" /\ d \notin spared THEN "killed"
                   ELSE child[d]]
  /\ Goto("over")
  /\ UNCHANGED <<line, argv, parsed, chosen, conf, fate, scan>>

ConfigNext ==
  \/ \E c \in Char \union {"end"} : ScanChar(c)
  \/ ParamsAlloc
  \/ \E s \in Plain : Switch(s)
  \/ \E s \in Optional \union Mandatory : SwitchWithArgument(s)
  \/ \E o \in Option : OneOption(o)
  \/ \E k \in Kind : Device(k)
  \/ \E x \in Prefix : Alias(x)
  \/ PciDevice
  \/ FormatRemaining \/ CheckUnparsed \/ LaunchDaemons \/ KillExecutes

ConfigSpec == ConfigInit /\ [][ConfigNext]_configVars

-----------------------------------------------------------------------------
(* Properties.                                                             *)

(* Every variable has its type. *)
ConfigTypeOK ==
  /\ stage \in {Order[i] : i \in DOMAIN Order} \union
       {"files", "scan", "scanned", "check", "command", "launch", "running", "over", "error"}
  /\ \A i \in DOMAIN argv : argv[i] \in {0} \union DOMAIN line
  /\ parsed \in BOOLEAN
  /\ chosen \subseteq Dashed
  /\ \A k \in Kind, n \in Unit : conf.unit[k][n].from \in {0} \union DOMAIN line
  /\ conf.alias \in [Unit -> {0} \union DOMAIN line]
  /\ conf.option \in [Option -> {0} \union DOMAIN line]
  /\ \A d \in DOMAIN child : child[d] \in {"running", "failed", "killed"}
  /\ DOMAIN fate = DOMAIN line

(* Where a parameter ended up. *)
Uses(p) ==
  {<<"option", o>> : o \in {o \in Option : conf.option[o] = p}}
    \union {u \in Kind \X Unit : conf.unit[u[1]][u[2]].from = p}
    \union {<<"alias", n>> : n \in {n \in Unit : conf.alias[n] = p}}
    \union {<<"pci", s>> : s \in {s \in PciSlot : conf.pci[s].from = p}}
    \union {<<"boot", i>> : i \in {i \in DOMAIN conf.boot : conf.boot[i] = p}}

(* A taken parameter sets what it names and nothing else: an option sets its option (and the
   initrd the last cofs unit, when no parameter has it), a device parameter one unit, the one
   with its index, an alias the name of one unit, which exists, and a PCI parameter its slot,
   until a later one for the slot takes it over without a word. *)
SetsWhatItNames(p) ==
  LET arg == line[p] IN
  CASE fate[p] = "option" ->
         Uses(p) \ {<<"cofs", LastUnit>>} = {<<"option", arg.word>>}
           /\ (arg.word # "initrd" => <<"cofs", LastUnit>> \notin Uses(p))
    [] fate[p] = "unit" ->
         \E n \in Unit : Uses(p) = {<<arg.word, n>>} /\ (arg.key = "index" => n = arg.n)
    [] fate[p] = "alias" ->
         \E n \in Unit : /\ Uses(p) \ {<<"cobd", n>>} = {<<"alias", n>>}
                         /\ conf.unit["cobd"][n].from # 0
                         /\ arg.value[1] = ":cobd" => n = arg.n /\ Cardinality(Uses(p)) = 1
    [] fate[p] = "slot" ->
         \/ \E s \in PciSlot : Uses(p) = {<<"pci", s>>} /\ (arg.key = "index" => s[1] = arg.n)
         \/ Uses(p) = {} /\ \E q \in DOMAIN line : q > p /\ fate[q] = "slot"
    [] fate[p] = "boot" -> \E i \in DOMAIN conf.boot : Uses(p) = {<<"boot", i>>}
    [] OTHER -> Uses(p) = {}

(* Once the daemon knows what to do, every parameter was heeded, in the order of the line
   for those on the boot line, except one of an @file there was no memory for, a color whose
   key or length is wrong, and what the boot line has no room for. *)
NothingUnheeded ==
  stage \in {"command", "launch", "running", "over"} =>
    /\ \A p \in DOMAIN line :
         /\ fate[p] \notin {"unread", "refused"}
         /\ fate[p] = "no memory" => line[p].file
         /\ fate[p] = "ignored" => line[p].word = "color"
         /\ fate[p] = "lost" => Len(conf.boot) = BootRoom
    /\ \A i, j \in DOMAIN conf.boot : i < j => conf.boot[i] < conf.boot[j]

(* A PCI slot names a device of the configuration, and a process runs for a device only. *)
DevicesExist ==
  /\ \A s \in PciSlot :
       LET f == conf.pci[s].fields IN
       conf.pci[s].from # 0 =>
         IF f[2] = "scsi" THEN Enabled("scsi") # {} ELSE Number(f[3]) \in Enabled("eth")
  /\ stage \in {"running", "over"} =>
       DOMAIN child = {d \in Launched \X Unit : d[2] \in Enabled(d[1])}

(* The parameters found in a text: they start with a letter or digit outside a comment, end
   before a '#', a line's end or a space that is not in quotes, and leave none out. *)
Quotes(a, b) == Cardinality({k \in a..b : scan.text[k] = "quote"})
Stops(a, k)  == \/ scan.text[k] \in {"#", "newline", "end"}
                \/ scan.text[k] = " " /\ Quotes(a, k - 1) % 2 = 0
Commented(k) == \E j \in 1..(k - 1) : scan.text[j] = "#" /\ \A i \in (j + 1)..(k - 1) :
                                        scan.text[i] # "newline"
ParametersFound ==
  stage = "scanned" =>
    /\ \A i \in DOMAIN scan.found :
         LET a == scan.found[i][1]
             b == scan.found[i][2]
         IN /\ scan.text[a] = "letter" /\ ~Commented(a)
            /\ \A k \in a..b : ~Stops(a, k)
            /\ Stops(a, b + 1)
            /\ i > 1 => scan.found[i - 1][2] < a
    /\ \A k \in DOMAIN scan.text :
         scan.text[k] = "letter" /\ ~Commented(k) =>
           \E i \in DOMAIN scan.found : k \in scan.found[i][1]..scan.found[i][2]

(* The command line is understood as it was given: every parameter sets what it names and no
   other, or is refused; nothing given goes unheeded; the devices that are referred to exist. *)
ConfigExact ==
  /\ \A p \in DOMAIN line : SetsWhatItNames(p)
  /\ NothingUnheeded /\ DevicesExist /\ ParametersFound
=============================================================================
