----------------------------- MODULE GdbSession -----------------------------
(***************************************************************************)
(* A debug session of the bare-metal host: GdbRsp::serve and handle_packet *)
(* in synchronous mode (src/debug/gdb_rsp.cpp, gdb_rsp_regs.cpp), where the*)
(* thread that receives also runs the CPU.  (GdbAsync has the other mode.) *)
(*                                                                         *)
(* The connection is a stream: a packet may arrive in pieces or glued to   *)
(* the next.  A packet's text is one token of the stream, its frame the    *)
(* tokens $ text # digit digit.                                            *)
(***************************************************************************)
EXTENDS Boot

CONSTANTS TextLength  \* length of the target description

VARIABLES
  wire,     \* sent by the client and not yet received
  buf,      \* received and not yet parsed
  cur,      \* the packet handle_packet is inside of, or << >>
  no_ack,   \* no_ack_mode_
  breaks,   \* breakpoints_
  out,      \* everything sent to the client
  asked,    \* history: the packets the client sent
  handled,  \* history: the packets given to handle_packet
  exec      \* history of the last run: whether it is a step, instructions so
            \* far (2: several), watched accesses in order, whether a later
            \* instruction started at a breakpoint, the reply

streamVars == <<wire, buf, asked>>
sessionVars == <<cur, no_ack, breaks, out, handled, exec>>
gdbVars == <<streamVars, sessionVars>>

Frame(p) == << <<"$">>, p, <<"#">>, <<"digit">>, <<"digit">> >>
ACK == <<"+">>
INTERRUPT == <<"^C">>
NoRun == [single |-> FALSE, steps |-> 0, seen |-> << >>, passed |-> FALSE, fault |-> FALSE, reply |-> << >>]

-----------------------------------------------------------------------------
(* The client: a debugger that sends at most host.window packets ahead.    *)

ClientSend ==
  /\ at \in {"recv", "parse", "running"}
  /\ Len(asked) < host.packets /\ Len(asked) - Len(handled) < host.window
  /\ \E p \in host.ask, lead \in host.leads :
       /\ wire' = wire \o lead \o Frame(p)
       /\ asked' = Append(asked, p)
  /\ UNCHANGED <<baseVars, buf, sessionVars>>

-----------------------------------------------------------------------------
(* Packets that only read or write.                                        *)

reg_read_n(n) == IF n < Len(RegNames) THEN <<"value", m.regs[RegNames[n + 1]]>> ELSE <<"E00">>
reg_read_all == <<"values", [i \in DOMAIN RegNames |-> m.regs[RegNames[i]]]>>
reg_write_n(n, v) == IF n < Len(RegNames) THEN [m EXCEPT !.regs[RegNames[n + 1]] = v] ELSE m
\* Too short a G packet writes nothing.
reg_write_all(vals) ==
  IF Len(vals) < Len(RegNames) THEN m
  ELSE [m EXCEPT !.regs = [n \in DOMAIN @ |-> vals[CHOOSE i \in DOMAIN RegNames : RegNames[i] = n]]]
reg_info(n) == IF n < Len(RegNames) THEN <<"info", RegNames[n + 1], 4 * n>> ELSE <<"E45">>
handle_qXfer(off, len) ==
  LET n == AtMost(len, TextLength - off) IN
  IF off >= TextLength THEN <<"l", off, 0>>
  ELSE <<IF off + n >= TextLength THEN "l" ELSE "m", off, n>>

\* Memory packets go through the bus, one byte after the other, and meet the
\* watchpoints like the program does: the first byte that is watched calls back.
Touched(access, bytes) ==
  LET watched == {b \in bytes : Hits(m.wps, access, b) # << >>} IN
  IF watched = {} THEN m ELSE fire_wp(m, access, Min(watched))

ReadMemory(a, n) == Touched("rwatch", a .. a + n - 1)
WriteMemory(a, vals) ==
  LET bytes == {b \in a .. a + Len(vals) - 1 : b < FLASH_BASE} IN
  [Touched("watch", bytes) EXCEPT !.mem = [b \in DOMAIN @ |-> IF b \in bytes THEN vals[b - a + 1] ELSE @[b]]]
Peek(b) == IF b \in DOMAIN m.mem THEN m.mem[b] ELSE ERASED

WatchType(z) == CASE z = 2 -> "watch" [] z = 3 -> "rwatch" [] z = 4 -> "awatch"
Watch(z, a, n) == [addr |-> a, size |-> IF n = 0 THEN 4 ELSE n, type |-> WatchType(z)]
Without(wps, wp) == SelectSeq(wps, LAMBDA w : w # wp)

\* What the packet does to the machine, the breakpoints and the ack mode, and
\* its reply.
Effect(p) ==
  CASE p[1] = "P" -> reg_write_n(p[2], p[3])
    [] p[1] = "G" -> reg_write_all(p[2])
    [] p[1] = "m" -> ReadMemory(p[2], p[3])
    [] p[1] = "M" -> WriteMemory(p[2], p[3])
    [] p[1] = "Z" /\ p[2] \in 2 .. 4 -> [m EXCEPT !.wps = Append(@, Watch(p[2], p[3], p[4]))]
    [] p[1] = "z" /\ p[2] \in 2 .. 4 -> [m EXCEPT !.wps = Without(@, Watch(p[2], p[3], p[4]))]
    [] OTHER -> m

Breaks(p) ==
  CASE p[1] = "Z" /\ p[2] \in 0 .. 1 -> breaks \cup {p[3]}
    [] p[1] = "z" /\ p[2] \in 0 .. 1 -> breaks \ {p[3]}
    [] OTHER -> breaks

\* What a debugger asks about the stub and the target before it starts.
Supported == {"QStartNoAckMode", "QThreadSuffixSupported", "QListThreadsInStopReply", "QEnableErrorStrings"}
Described == {"vCont?", "qSupported", "qAttached", "qC", "qfThreadInfo", "qsThreadInfo", "qHostInfo", "qProcessInfo"}
Answer(p) ==
  CASE p[1] \in Supported -> <<"OK">>
    [] p[1] \in Described -> <<p[1]>>
    [] p[1] = "qRegisterInfo" -> reg_info(p[2])
    [] p[1] = "qXfer" -> handle_qXfer(p[2], p[3])
    [] OTHER -> << >>                    \* not supported: an empty reply

Reply(p) ==
  CASE p[1] = "?" -> <<"T05">>
    [] p[1] = "g" -> reg_read_all
    [] p[1] = "p" -> reg_read_n(p[2])
    [] p[1] = "m" -> <<"values", [i \in 1 .. p[3] |-> Peek(p[2] + i - 1)[2]]>>
    [] p[1] \in {"P", "G", "M", "H", "T"} -> <<"OK">>
    [] p[1] \in {"Z", "z"} -> IF p[2] \in 0 .. 4 THEN <<"OK">> ELSE << >>
    [] OTHER -> Answer(p)

-----------------------------------------------------------------------------
(* GdbRsp::serve                                                           *)

\* A client connects: everything a former one, or --wp-*, left is dropped.
Accept ==
  /\ at = "accept"
  /\ no_ack' = FALSE /\ breaks' = {}
  /\ m' = [m EXCEPT !.wps = << >>, !.hit = << >>, !.strict = TRUE, !.wp_cb = "gdb"]
  /\ at' = "recv"
  /\ UNCHANGED <<host, bootVars, code, tickVars, streamVars, cur, out, handled, exec>>

Receive ==
  /\ at = "recv"
  /\ \E n \in host.pieces \cup {Len(wire)} :
       /\ n \in 1 .. Len(wire)
       /\ buf' = buf \o SubSeq(wire, 1, n)
       /\ wire' = SubSeq(wire, n + 1, Len(wire))
  /\ at' = "parse"
  /\ UNCHANGED <<host, m, bootVars, code, tickVars, asked, sessionVars>>

\* The first complete frame ends two characters behind its #.
HashAt == CHOOSE i \in DOMAIN buf : buf[i] = <<"#">> /\ \A j \in 1 .. i - 1 : buf[j] # <<"#">>
Framed == buf # << >> /\ buf[1] = <<"$">> /\ \E i \in DOMAIN buf : buf[i] = <<"#">>
Complete == Framed /\ HashAt + 2 <= Len(buf)

\* Mutant: what came with the packet goes with it.
Rest_dropped == << >>
Rest == SubSeq(buf, HashAt + 3, Len(buf))

\* Not the start of a packet: acknowledgements, noise, and the interrupt, which
\* the CPU is not running to see.
Skip ==
  /\ at = "parse" /\ cur = << >> /\ buf # << >> /\ buf[1] # <<"$">>
  /\ buf' = Tail(buf)
  /\ IF buf[1] = INTERRUPT
     THEN m' = [m EXCEPT !.halt = "stop"] /\ out' = Append(out, <<"T02">>)
     ELSE UNCHANGED <<m, out>>
  /\ UNCHANGED <<host, at, bootVars, code, tickVars, wire, asked, cur, no_ack, breaks, handled, exec>>

Acked == IF no_ack THEN out ELSE Append(out, ACK)
IsRun(p) == p[1] \in {"c", "s"}

HandlePacket ==
  LET p == buf[2] IN
  /\ at = "parse" /\ cur = << >> /\ Complete /\ ~IsRun(p)
  /\ m' = Effect(p) /\ breaks' = Breaks(p)
  /\ out' = Append(Acked, Reply(p))
  /\ no_ack' = (no_ack \/ p[1] = "QStartNoAckMode")
  /\ handled' = Append(handled, p)
  /\ buf' = Rest
  /\ UNCHANGED <<host, at, bootVars, code, tickVars, wire, asked, cur, exec>>

\* c, s and vCont: GdbRsp::run starts.
\* Mutant: the watchpoint of the last stop is still recorded.
Resumed_stale == [m EXCEPT !.halt = "run"]
Resumed == [m EXCEPT !.halt = "run", !.hit = << >>]

BeginRun ==
  LET p == buf[2] IN
  /\ at = "parse" /\ cur = << >> /\ Complete /\ IsRun(p)
  /\ m' = Resumed
  /\ cur' = p /\ out' = Acked
  /\ handled' = Append(handled, p)
  /\ exec' = [NoRun EXCEPT !.single = (p[1] = "s")]
  /\ at' = "running"
  /\ UNCHANGED <<host, bootVars, code, tickVars, streamVars, no_ack, breaks>>

make_async_stop_reply(machine) ==
  IF machine.fault THEN <<"T04">>
  ELSE IF machine.hit # << >> THEN <<"T05", machine.hit[1], machine.hit[2]>> ELSE <<"T05">>

\* Mutant: a breakpoint is looked up before the instruction, not behind it.
Over_behind(machine) == exec.single \/ machine.hit # << >> \/ machine.halt # "run" \/ Pc(m) \in breaks
\* The loop of run() ends behind this instruction.
Over(machine) == exec.single \/ machine.hit # << >> \/ machine.halt # "run" \/ Pc(machine) \in breaks

\* The accesses a watchpoint covers, as the program makes them.
Watched ==
  LET op == Fetch(m)
      access == IF op[1] = "load" THEN "rwatch" ELSE "watch"
      hits == IF Pc(m) \in m.bkpts \/ op[1] \notin {"load", "store", "put"} THEN << >>
              ELSE Hits(m.wps, access, op[2])
  IN IF hits = << >> THEN << >> ELSE << <<Head(hits).type, op[2]>> >>

\* One instruction.  Nobody counts cycles in a debug session.
RunInstruction ==
  LET next == [Step(m) EXCEPT !.cycles = m.cycles] IN
  /\ at = "running" /\ exec.reply = << >>
  /\ m' = next
  /\ exec' = [exec EXCEPT !.steps = AtMost(@ + 1, 2), !.seen = @ \o Watched,
                          !.passed = @ \/ (exec.steps > 0 /\ Pc(m) \in breaks),
                          !.fault = next.fault,
                          !.reply = IF Over(next) THEN make_async_stop_reply(next) ELSE << >>]
  /\ UNCHANGED <<host, at, bootVars, code, tickVars, streamVars, cur, no_ack, breaks, out, handled>>

EndRun ==
  /\ at = "running" /\ exec.reply # << >>
  /\ out' = Append(out, exec.reply)
  /\ buf' = Rest
  /\ cur' = << >> /\ at' = "parse"
  /\ UNCHANGED <<host, m, bootVars, code, tickVars, wire, asked, no_ack, breaks, handled, exec>>

ReceiveMore ==
  /\ at = "parse" /\ cur = << >> /\ ~(buf # << >> /\ (buf[1] # <<"$">> \/ Complete))
  /\ at' = "recv"
  /\ UNCHANGED <<host, m, bootVars, code, tickVars, streamVars, sessionVars>>

\* The client is gone; main.cpp exits with the test's result.
Disconnect ==
  /\ at = "recv" /\ wire = << >> /\ Len(asked) = host.packets
  /\ m' = [m EXCEPT !.strict = FALSE, !.wps = << >>, !.wp_cb = "none"]
  /\ Exit(IF m.semi.result # 0 THEN 1 ELSE 0)
  /\ UNCHANGED <<host, bootVars, tickVars, streamVars, sessionVars>>

GdbStep == Accept \/ Receive \/ Skip \/ HandlePacket \/ BeginRun \/ RunInstruction \/ EndRun \/ ReceiveMore \/ Disconnect

GdbInit ==
  /\ wire = << >> /\ buf = << >> /\ cur = << >> /\ no_ack = FALSE /\ breaks = {}
  /\ out = << >> /\ asked = << >> /\ handled = << >> /\ exec = NoRun

-----------------------------------------------------------------------------
(* Properties.                                                             *)

\* What the client was sent: acknowledgements, replies, and stops for interrupts.
Acks == {i \in DOMAIN out : out[i] = ACK}
Replies == {i \in DOMAIN out : out[i] \notin {ACK, <<"T02">>}}
\* The packets up to the one that turns acknowledgements off.
ToAcknowledge(packets) ==
  {i \in DOMAIN packets : \A j \in 1 .. i - 1 : packets[j][1] # "QStartNoAckMode"}

\* However the stream is cut into pieces, every packet is handled once, in the
\* order sent, and answered once; every packet up to the one that turns
\* acknowledgements off is acknowledged, none behind it.
SessionIsFramed ==
  /\ IsPrefix(handled, asked)
  /\ (at = "recv" /\ wire = << >>) =>
       /\ handled = asked /\ buf = << >>
       /\ Cardinality(Replies) = Len(asked)
       /\ Cardinality(Acks) = Cardinality(ToAcknowledge(asked))

\* A run never goes on past a breakpoint it reaches, stops behind the first
\* watched access, and its reply tells why it stopped: a fault, that access
\* with the watchpoint that was set first, or neither.
StopsAreRight ==
  /\ ~exec.passed
  /\ Len(exec.seen) <= 1
  /\ exec.reply # << >> =>
       exec.reply = IF exec.fault THEN <<"T04">>
                    ELSE IF exec.seen # << >> THEN <<"T05", exec.seen[1][1], exec.seen[1][2]>>
                    ELSE <<"T05">>
=============================================================================
