------------------------------ MODULE Console ------------------------------
(***************************************************************************)
(* The guest's text console: the screen and scrollback buffer that the     *)
(* driver keeps as a shadow, the copy in each console process, and the     *)
(* GET_CONSOLE ioctl by which a process that attaches is told what is on   *)
(* the screen while the guest goes on writing to it.                       *)
(*                                                                         *)
(* Sources: common/console.c, kernel/monitor.c (incoming_message,          *)
(* co_monitor_user_get_console), user/console-nt/console.cpp and           *)
(* widget.cpp; the guest's side is patch/coconsole-core.diff.              *)
(*                                                                         *)
(* A process reads its messages in the order they were sent (OpenDesc), so *)
(* its copy is kept here as it will be when it has read them all.          *)
(***************************************************************************)
EXTENDS Integers, Sequences

CONSTANTS
  ConX, ConY, ConMaxY,     (* config: columns, rows of the screen and buffer *)
  ConCell,         (* what a cell can show beside nothing, which is 0       *)
  ConClient,       (* console processes                                     *)
  MaxConOps        (* bound: operations of the guest                        *)

ASSUME ConsoleAssumption ==
  /\ ConX \in Nat \ {0} /\ ConY \in Nat \ {0} /\ ConMaxY \in Nat /\ ConMaxY >= ConY
  /\ ConCell \subseteq Nat \ {0} /\ "none" \notin ConClient /\ MaxConOps \in Nat

VARIABLES
  shadow,          (* monitor->console                                      *)
  picture,         (* the console of the process that is connected          *)
  conModule,       (* the process connected as CO_MODULE_CONSOLE            *)
  conGet,          (* each GET_CONSOLE: the messages it has sent, the one it
                      has made, and whether the shadow changed since        *)
  conPending,      (* an operation the process was sent and the shadow lacks *)
  conOps,          (* bound: operations so far                              *)
  torn             (* history: an overlap misled the process that is connected *)

consoleVars == <<shadow, picture, conModule, conGet, conPending, conOps, torn>>

-----------------------------------------------------------------------------
(* co_console_t: the buffer is one array of cells, the screen its last rows. *)

NewConsole(x, y, max_y) ==
  [x |-> x, y |-> y, max_y |-> max_y, buffer |-> [i \in 0..(x * max_y - 1) |-> 0], cursor |-> 0]

screen(con) == (con.max_y - con.y) * con.x

memmove(con, dest, from, count) ==
  [con EXCEPT !.buffer = [i \in DOMAIN @ |->
     IF dest <= i /\ i < dest + count THEN @[from + i - dest] ELSE @[i]]]

Filled(con, cells, cell) ==
  [con EXCEPT !.buffer = [i \in DOMAIN @ |-> IF i \in cells THEN cell ELSE @[i]]]

(* The region from row t up to row b; all of the screen scrolls the whole buffer. *)
WholeScreen(con, m) == m.t = 0 /\ m.b = con.y
OutOfBounds(con, m) ==
  ~WholeScreen(con, m) /\ (m.b > con.max_y \/ m.t + m.lines >= con.max_y)

scroll_up(con, m) ==
  LET from == IF WholeScreen(con, m) THEN 0 ELSE screen(con) + con.x * m.t
      to   == screen(con) + con.x * m.b
      s    == con.x * m.lines
  IN Filled(memmove(con, from, from + s, to - from - s), (to - s)..(to - 1), m.cell)

scroll_down(con, m) ==
  LET from == screen(con) + con.x * m.t
      to   == screen(con) + con.x * m.b
      s    == con.x * m.lines
  IN Filled(memmove(con, from + s, from, to - from - s), from..(from + s - 1), m.cell)

(* PUTC, PUTCS and INIT_SCROLLBUFFER: cells of one row, cut off at its end. *)
putcs(con, base, rows, m) ==
  IF m.y >= rows \/ m.x >= con.x THEN con
  ELSE LET count == IF Len(m.data) > con.x - m.x THEN con.x - m.x ELSE Len(m.data)
           dest  == base + con.x * m.y + m.x
       IN [con EXCEPT !.buffer = [i \in DOMAIN @ |->
             IF dest <= i /\ i < dest + count THEN m.data[i - dest + 1] ELSE @[i]]]

clear(con, m) ==
  Filled(con, {screen(con) + con.x * t + l : t \in m.t..m.b, l \in m.l..m.r}, m.cell)

(* Row by row, from the end that is not overwritten first. *)
bmove(con, m) ==
  LET n == m.b - m.t + 1
      row(k) == IF m.y < m.t THEN k - 1 ELSE n - k
      done[k \in 0..n] ==
        IF k = 0 THEN con
        ELSE memmove(done[k - 1], screen(con) + con.x * (m.y + row(k)) + m.x,
                     screen(con) + con.x * (m.t + row(k)) + m.l, m.r - m.l + 1)
  IN done[n]

(* The operations not listed leave the console as it is; STARTUP only answers its size. *)
co_console_op(con, m) ==
  CASE m.type = "SCROLL_UP"   -> IF OutOfBounds(con, m) THEN con ELSE scroll_up(con, m)
    [] m.type = "SCROLL_DOWN" -> IF OutOfBounds(con, m) THEN con ELSE scroll_down(con, m)
    [] m.type = "PUTCS"       -> putcs(con, screen(con), con.y, m)
    [] m.type = "INIT_SCROLLBUFFER" -> putcs(con, 0, con.max_y, m)
    [] m.type = "CURSOR"      -> [con EXCEPT !.cursor = m.cursor]
    [] m.type = "CLEAR"       -> clear(con, m)
    [] m.type = "BMOVE"       -> bmove(con, m)
    [] m.type = "SWITCH"      -> Filled(con, 0..(screen(con) - 1), 0)

-----------------------------------------------------------------------------
(* What the guest's console driver can send: its virtual terminal keeps regions and
   rectangles inside the screen, and scrolls by less than the region's height. *)

Scrolls(con, cells) ==
  {m \in [type : {"SCROLL_UP", "SCROLL_DOWN"}, t : 0..(con.y - 1), b : 1..con.y,
          lines : 1..(con.y - 1), cell : cells] : m.t < m.b /\ m.lines < m.b - m.t}
Rectangles(con, type, cells) ==
  {m \in [type : {type}, t : 0..(con.y - 1), l : 0..(con.x - 1), b : 0..(con.y - 1),
          r : 0..(con.x - 1), cell : cells] : m.t <= m.b /\ m.l <= m.r}
Moves(con) ==
  {m \in [type : {"BMOVE"}, y : 0..(con.y - 1), x : 0..(con.x - 1), t : 0..(con.y - 1),
          l : 0..(con.x - 1), b : 0..(con.y - 1), r : 0..(con.x - 1)] :
     /\ m.t <= m.b /\ m.l <= m.r
     /\ m.y + m.b - m.t < con.y /\ m.x + m.r - m.l < con.x}
Puts(con, cells) ==
  [type : {"PUTCS"}, y : 0..(con.y - 1), x : 0..(con.x - 1), data : {<<c>> : c \in cells}]

GuestOp(con) ==
  Scrolls(con, {0}) \union Rectangles(con, "CLEAR", {0}) \union Moves(con)
    \union Puts(con, ConCell)
    \union [type : {"CURSOR"}, cursor : {0, 1}] \union [type : {"SWITCH"}]

-----------------------------------------------------------------------------
(* The messages of co_monitor_user_get_console.  The rows of the scrollback are taken from
   row config.y of the buffer to its end, which leaves out the oldest and ends with the
   screen; then comes the screen again, row by row, and the cursor. *)

RowOf(con, i) == [k \in 1..con.x |-> con.buffer[con.x * i + k - 1]]

GetMessages_NoCursor == ConMaxY
GetMessages == ConMaxY + 1

GetMessage(con, i) ==
  CASE i < con.max_y - con.y ->
         [type |-> "INIT_SCROLLBUFFER", y |-> con.y + i, x |-> 0, data |-> RowOf(con, con.y + i)]
    [] i \in (con.max_y - con.y)..(con.max_y - 1) ->
         [type |-> "PUTCS", y |-> i - (con.max_y - con.y), x |-> 0, data |-> RowOf(con, i)]
    [] OTHER -> [type |-> "CURSOR", cursor |-> con.cursor]

NoOp   == [type |-> "none"]
GetOver == [sent |-> GetMessages, made |-> NoOp, stale |-> FALSE]
Getting(c) == conGet[c].sent < GetMessages

ConsoleInit ==
  /\ shadow = NewConsole(ConX, ConY, ConMaxY)
  /\ picture = NewConsole(ConX, ConY, ConMaxY)
  /\ conModule = "none" /\ conGet = [c \in ConClient |-> GetOver]
  /\ conPending = NoOp /\ conOps = 0 /\ torn = FALSE

(* incoming_message, first half: the message goes to whoever is connected. *)
Sent(m) ==
  picture' = IF conModule = "none" THEN picture ELSE co_console_op(picture, m)

(* attach(): the module is taken from the process that had it; then GET_CONSOLE, in the
   course of which the messages that come in wait. *)
ConAttach(c) ==
  /\ conModule # c /\ ~Getting(c)
  /\ conModule' = c
  /\ picture' = NewConsole(ConX, ConY, ConMaxY)
  /\ conGet' = [conGet EXCEPT ![c] = [sent |-> 0, made |-> NoOp, stale |-> FALSE]]
  /\ torn' = FALSE
  /\ UNCHANGED <<shadow, conPending, conOps>>

ConDetach(c) ==
  /\ conModule = c /\ ~Getting(c)
  /\ conModule' = "none" /\ picture' = NewConsole(ConX, ConY, ConMaxY) /\ torn' = FALSE
  /\ UNCHANGED <<shadow, conGet, conPending, conOps>>

(* GET_CONSOLE reads the shadow without a lock, and sends what it has read. *)
GetCopies(c) ==
  /\ Getting(c) /\ conGet[c].made = NoOp
  /\ conGet' = [conGet EXCEPT ![c].made = GetMessage(shadow, conGet[c].sent),
                              ![c].stale = conPending # NoOp]
  /\ UNCHANGED <<shadow, picture, conModule, conPending, conOps, torn>>

GetSends(c) ==
  /\ conGet[c].made # NoOp
  /\ Sent(conGet[c].made)
  /\ torn' = (torn \/ (conGet[c].stale /\ conModule # "none"))
  /\ conGet' = [conGet EXCEPT ![c] = [sent |-> @.sent + 1, made |-> NoOp, stale |-> FALSE]]
  /\ UNCHANGED <<shadow, conModule, conPending, conOps>>

(* An operation of the guest, in the RUN thread: it is sent, then done to the shadow.  A
   GET_CONSOLE that has copied meanwhile will send what is no longer true, and rows that
   move may be sent twice or not at all. *)
MovesRows == {"SCROLL_UP", "SCROLL_DOWN", "BMOVE", "SWITCH"}
Staled == [c \in ConClient |-> [conGet[c] EXCEPT !.stale = @ \/ conGet[c].made # NoOp]]

GuestWrites(m) ==
  /\ conPending = NoOp /\ conOps < MaxConOps
  /\ Sent(m)
  /\ conPending' = m /\ conOps' = conOps + 1
  /\ conGet' = Staled
  /\ torn' = (torn \/ (m.type \in MovesRows /\ \E c \in ConClient : c = conModule /\ Getting(c)))
  /\ UNCHANGED <<shadow, conModule>>

ShadowFollows ==
  /\ conPending # NoOp
  /\ shadow' = co_console_op(shadow, conPending)
  /\ conPending' = NoOp /\ conGet' = Staled
  /\ UNCHANGED <<picture, conModule, conOps, torn>>

ConsoleNext ==
  \/ \E c \in ConClient : ConAttach(c) \/ ConDetach(c) \/ GetCopies(c) \/ GetSends(c)
  \/ \E m \in GuestOp(shadow) : GuestWrites(m)
  \/ ShadowFollows

ConsoleSpec == ConsoleInit /\ [][ConsoleNext]_consoleVars

-----------------------------------------------------------------------------
ConsoleTypeOK ==
  /\ \A con \in {shadow, picture} :
       /\ con.buffer \in [0..(ConX * ConMaxY - 1) -> ConCell \union {0}]
       /\ con.cursor \in {0, 1}
  /\ conModule \in ConClient \union {"none"}
  /\ \A c \in ConClient : conGet[c].sent \in 0..GetMessages /\ conGet[c].stale \in BOOLEAN
  /\ conOps \in 0..MaxConOps /\ torn \in BOOLEAN

(* The operations against what they mean, row and column by row and column, on a console
   whose cells all differ; rows above the screen have negative numbers. *)
Probe == [NewConsole(2, 3, 5) EXCEPT !.buffer = [i \in 0..9 |-> i + 1]]
Row(con) == (con.y - con.max_y)..(con.y - 1)
Column(con) == 0..(con.x - 1)
Shows(con, r, k) == con.buffer[screen(con) + con.x * r + k]

OpsExact ==
  /\ \A m \in Scrolls(Probe, {0}), r \in Row(Probe), k \in Column(Probe) :
       LET up    == m.type = "SCROLL_UP"
           first == IF up /\ m.t = 0 /\ m.b = Probe.y THEN Probe.y - Probe.max_y ELSE m.t
           from  == IF up THEN r + m.lines ELSE r - m.lines
       IN Shows(co_console_op(Probe, m), r, k) =
            IF r \notin first..(m.b - 1) THEN Shows(Probe, r, k)
            ELSE IF from \in first..(m.b - 1) THEN Shows(Probe, from, k) ELSE 0
  /\ \A m \in Moves(Probe), r \in Row(Probe), k \in Column(Probe) :
       Shows(co_console_op(Probe, m), r, k) =
         IF r \in m.y..(m.y + m.b - m.t) /\ k \in m.x..(m.x + m.r - m.l)
         THEN Shows(Probe, m.t + r - m.y, m.l + k - m.x) ELSE Shows(Probe, r, k)
  /\ \A m \in Rectangles(Probe, "CLEAR", {0}), r \in Row(Probe), k \in Column(Probe) :
       Shows(co_console_op(Probe, m), r, k) =
         IF r \in m.t..m.b /\ k \in m.l..m.r THEN 0 ELSE Shows(Probe, r, k)

(* The first cell that GET_CONSOLE sends. *)
FirstSent == ConX * (IF ConY < ConMaxY - ConY THEN ConY ELSE ConMaxY - ConY)

(* Whatever the guest does while processes attach, evict each other and detach, the one that
   is connected shows what the driver's shadow shows, once it has read its messages: screen,
   cursor, and the scrollback but for the rows GET_CONSOLE leaves out.  Except when an
   operation came between the copy of a row and its sending, or moved rows in the middle
   of a GET_CONSOLE (co_monitor_user_get_console holds no lock).  And the operations that
   both sides carry out do what the guest means by them. *)
ConsoleAgrees ==
  /\ OpsExact
  /\ \A c \in ConClient :
       conModule = c /\ ~Getting(c) /\ conPending = NoOp /\ ~torn =>
         /\ \A i \in FirstSent..(ConX * ConMaxY - 1) : picture.buffer[i] = shadow.buffer[i]
         /\ picture.cursor = shadow.cursor
=============================================================================
