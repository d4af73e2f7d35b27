----------------------------- MODULE SerialTool -----------------------------
(***************************************************************************)
(* serial_cmd, the tool that sends commands to the camera over the frame   *)
(* grabber's serial line and prints the answers (edtApp/src/serial_cmd.c,  *)
(* with the serial calls of edtApp/lib/libedt.c).                          *)
(*                                                                         *)
(* The camera and the driver are external.  A byte carries the number of   *)
(* the command it answers (0: the camera spoke unasked), its place in that *)
(* answer, and what the tool tells apart: the wait character that ends an  *)
(* answer, CR, LF, NUL, anything else.  Time is not modelled: a wait ends when   *)
(* it likes, as a time-out may be of any length.                           *)
(***************************************************************************)
EXTENDS Integers, SequencesExt

CONSTANTS Options,     \* command lines the tool is started with
          Lines,       \* lines typed: number of bytes, place of the first bad one
          Messages,    \* what the camera says: sequences of kinds of bytes
          Junk,        \* what it has said before the tool starts
          BufSize,     \* SERBUFSIZE, as the size of buf
          LineSize,    \* SERBUFSIZE, as the size of getbuf
          Shared,      \* TRUE: another program reads the same serial line
          MaxCommands  \* bound: commands typed in a session

Kinds == {"char", "cr", "lf", "nul", "wait"}

ASSUME SerialToolAssumption ==
  /\ Options \subseteq [args : BOOLEAN, readonly : BOOLEAN, hexin : BOOLEAN, duncan : BOOLEAN,
                        basler : BOOLEAN, wait : BOOLEAN, foi : BOOLEAN, waitchar : BOOLEAN]
  /\ BufSize \in Nat \ {0} /\ LineSize \in Nat /\ MaxCommands \in Nat
  /\ \A l \in Lines : l.n \in 1 .. LineSize /\ l.bad \in 0 .. l.n
  /\ Shared \in BOOLEAN

(* The wait character, when there is one, ends what the camera says.        *)
ASSUME WaitCharEnds ==
  \A m \in Messages \cup Junk : m \in Seq(Kinds) /\ \A i \in 1 .. Len(m) - 1 : m[i] # "wait"

VARIABLES
  pc,       \* where the tool is
  opt,      \* its options
  out,      \* camera: bytes not sent yet
  rx,       \* driver: bytes received and not read
  enabled,  \* driver: reception enabled
  left,     \* nAvailToRead of the flush loop
  cmd,      \* number of the command in progress
  line,     \* the command itself
  at,       \* ibuf_p - getbuf
  hbuf,     \* which command each byte of hbuf is from
  lastbyte, \* the last byte the reading loop remembers
  sent,     \* (history) frame sent for this command
  answer,   \* (history) what the camera says to this command
  printed,  \* (history) bytes printed under this command
  junk,     \* (history) bytes the flush loop was to throw away
  spoiled,  \* (history) what disturbed this command
  typed     \* (history) places of getbuf the session's lines took together

link == <<out, rx, enabled>>
input == <<cmd, line, at, typed>>
history == <<answer, printed, junk, spoiled>>
vars == <<pc, opt, link, left, input, hbuf, lastbyte, sent, history>>

Inter == ~opt.args /\ ~opt.readonly
Framed == ~opt.hexin /\ (opt.duncan \/ opt.basler)
NoByte == [of |-> 0, nth |-> 0, is |-> "char"]
NoLine == [n |-> 0, bad |-> 0]
Bytes(c, m) == [i \in 1 .. Len(m) |-> [of |-> c, nth |-> i, is |-> m[i]]]

(* main: the options; interactive without a command and without -r.         *)
Init ==
  /\ pc = "start" /\ opt \in Options
  /\ \E m \in Junk : \E k \in {0, Min({1, Len(m)})} :
       rx = SubSeq(Bytes(0, m), 1, Len(m) - k) /\ out = SubSeq(Bytes(0, m), Len(m) - k + 1, Len(m))
  /\ enabled = TRUE /\ left = 0 /\ cmd = 0 /\ line = NoLine /\ at = 0
  /\ hbuf = [i \in 1 .. LineSize |-> 0] /\ lastbyte = NoByte
  /\ sent = <<>> /\ answer = <<>> /\ printed = <<>> /\ junk = {} /\ spoiled = {} /\ typed = 0

-----------------------------------------------------------------------------
(* A bad option, a request for help, or no such device.                     *)
OpenFails ==
  /\ pc = "start" /\ pc' = "done"
  /\ UNCHANGED <<opt, link, left, input, hbuf, lastbyte, sent, history>>

Open ==
  /\ pc = "start" /\ pc' = "count" /\ enabled' = FALSE
  /\ UNCHANGED <<opt, out, rx, left, input, hbuf, lastbyte, sent, history>>

(* The flush: as many bytes as are there now are to be thrown away.         *)
Count ==
  /\ pc = "count"
  /\ left' = Len(rx) /\ junk' = ToSet(rx)
  /\ pc' = IF rx = <<>> THEN "enable" ELSE "flush"
  /\ UNCHANGED <<opt, link, input, hbuf, lastbyte, sent, answer, printed, spoiled>>

(* pdv_serial_read, edt_get_msg: what is there, at most a buffer of it.     *)
Chunk == SubSeq(rx, 1, Min({BufSize, Len(rx)}))
After(chunk) == SubSeq(rx, Len(chunk) + 1, Len(rx))

(* Faulty variant: a single read.                                           *)
FlushOnce ==
  /\ pc = "flush"
  /\ left' = 0 /\ rx' = After(Chunk)
  /\ pc' = "enable"
  /\ UNCHANGED <<opt, out, enabled, input, hbuf, lastbyte, sent, history>>

Flush ==
  /\ pc = "flush"
  /\ left' = Max({0, left - Len(Chunk)}) /\ rx' = After(Chunk)
  /\ pc' = IF left' > 0 THEN "flush" ELSE "enable"
  /\ UNCHANGED <<opt, out, enabled, input, hbuf, lastbyte, sent, history>>

Enable ==
  /\ pc = "enable" /\ enabled' = TRUE /\ pc' = "prompt"
  /\ UNCHANGED <<opt, out, rx, left, input, hbuf, lastbyte, sent, history>>

-----------------------------------------------------------------------------
Quiet == rx = <<>> /\ out = <<>>

(* The top of the loop.  Bytes already there only make a warning.  The line *)
(* is the argument, or is read to where ibuf_p points.                      *)
Begin(l, next) ==
  /\ pc = "prompt" /\ cmd < MaxCommands /\ (Inter \/ cmd = 0)
  /\ cmd' = cmd + 1 /\ line' = l /\ pc' = next
  /\ typed' = IF Inter THEN typed + l.n ELSE typed
  /\ sent' = <<>> /\ answer' = <<>> /\ printed' = <<>>
  /\ spoiled' = IF Quiet THEN {} ELSE {"leftover"}

TakeLine ==
  /\ ~opt.readonly
  /\ \E l \in Lines : Begin(l, "send")
  /\ UNCHANGED <<opt, link, left, at, hbuf, lastbyte, junk>>

(* -r: nothing is sent, the camera speaks by itself.                        *)
Listen ==
  /\ opt.readonly
  /\ Begin(NoLine, "wait")
  /\ UNCHANGED <<opt, link, left, at, hbuf, lastbyte, junk>>

(* End of the input: the result of fgets is looked at without a test.       *)
EndOfInput ==
  /\ pc = "prompt" /\ Inter /\ pc' = "crashed"
  /\ UNCHANGED <<opt, link, left, input, hbuf, lastbyte, sent, history>>

Decoded(l) == IF l.bad = 0 THEN l.n ELSE l.bad - 1
Filled(l) == [i \in 1 .. LineSize |-> IF i <= Decoded(l) THEN cmd ELSE hbuf[i]]

(* Faulty variant: after a bad byte the hexadecimal bytes before it go out. *)
FramePart(l) ==
  IF ~opt.hexin /\ ~Framed THEN [i \in 1 .. l.n |-> cmd]
  ELSE SubSeq(Filled(l), 1, IF Framed THEN l.n ELSE Decoded(l))

(* What is sent: in hexadecimal mode nothing after a bad byte; framed, as   *)
(* many bytes as there are words, decoded or not.                           *)
Frame(l) ==
  IF ~opt.hexin /\ ~Framed THEN [i \in 1 .. l.n |-> cmd]
  ELSE IF opt.hexin /\ l.bad > 0 THEN <<>>
  ELSE SubSeq(Filled(l), 1, l.n)

(* Faulty variant: the other modes walk ibuf_p too.                         *)
AdvanceAlways(l) == IF Inter THEN at + Decoded(l) ELSE at

(* Hexadecimal mode walks ibuf_p through the line and leaves it there.      *)
Advance(l) == IF opt.hexin /\ Inter THEN at + Decoded(l) ELSE at

Send ==
  /\ pc = "send"
  /\ sent' = Frame(line)
  /\ hbuf' = IF opt.hexin \/ Framed THEN Filled(line) ELSE hbuf
  /\ at' = Advance(line)
  /\ pc' = IF opt.duncan THEN "frame" ELSE "wait"
  /\ UNCHANGED <<opt, link, left, cmd, line, typed, lastbyte, history>>

-----------------------------------------------------------------------------
(* pdv_read_duncan_frame takes what it makes of the line; so many bytes are *)
(* printed.                                                                 *)
ReadFrame ==
  /\ pc = "frame"
  /\ \E k \in 0 .. Len(rx) :
       /\ rx' = SubSeq(rx, k + 1, Len(rx)) /\ printed' = printed \o SubSeq(rx, 1, k)
       /\ spoiled' = spoiled \cup IF rx' = <<>> /\ out = <<>> THEN {} ELSE {"timeout"}
  /\ pc' = IF Inter THEN "prompt" ELSE "done"
  /\ UNCHANGED <<opt, out, enabled, left, input, hbuf, lastbyte, sent, answer, junk>>

(* The first pdv_serial_wait: its result is not looked at.                  *)
Wait ==
  /\ pc = "wait" /\ pc' = IF opt.wait THEN "pause" ELSE "read"
  /\ UNCHANGED <<opt, link, left, input, hbuf, lastbyte, sent, history>>

PressReturn ==
  /\ pc = "pause" /\ pc' = "read"
  /\ UNCHANGED <<opt, link, left, input, hbuf, lastbyte, sent, history>>

HasNul(chunk) == \E i \in DOMAIN chunk : chunk[i].is = "nul"
UpToNul(chunk) == LET nuls == {i \in DOMAIN chunk : chunk[i].is = "nul"}
                  IN IF nuls = {} THEN chunk ELSE SubSeq(chunk, 1, Min(nuls) - 1)

(* A read that fills buf is not terminated: the string runs on into a byte  *)
(* nobody wrote.                                                            *)
Stray == {[of |-> 0, nth |-> 0, is |-> k] : k \in {"char", "wait"}}
Texts(chunk) ==
  IF HasNul(chunk) \/ Len(chunk) < BufSize THEN {UpToNul(chunk)}
  ELSE {chunk} \cup {Append(chunk, b) : b \in Stray}

(* A text without the bytes of some kinds.                                  *)
Without(kinds, text) ==
  LET kept[n \in 0 .. Len(text)] ==
        IF n = 0 THEN <<>>
        ELSE IF text[n].is \in kinds THEN kept[n - 1] ELSE Append(kept[n - 1], text[n])
  IN kept[Len(text)]

(* printify: CR becomes a new line, or nothing in a text that has an LF.    *)
CrToLf(b) == IF b.is = "cr" THEN [b EXCEPT !.is = "lf"] ELSE b
Printified(text) ==
  IF \E i \in DOMAIN text : text[i].is = "lf"
  THEN Without({"cr"}, text)
  ELSE [i \in DOMAIN text |-> CrToLf(text[i])]

(* One turn of the reading loop: read, remember the last byte of the text,  *)
(* print the text or all bytes in hexadecimal.                              *)
Read ==
  /\ pc = "read"
  /\ \E text \in Texts(Chunk) :
       /\ lastbyte' = IF text = <<>> THEN lastbyte ELSE Last(text)
       /\ printed' = printed \o IF opt.hexin \/ opt.basler THEN Chunk ELSE Printified(text)
  /\ rx' = After(Chunk)
  /\ spoiled' = spoiled \cup (IF HasNul(Chunk) THEN {"nul"} ELSE {})
                        \cup (IF Len(Chunk) = BufSize THEN {"full"} ELSE {})
  /\ pc' = "more"
  /\ UNCHANGED <<opt, out, enabled, left, input, hbuf, sent, answer, junk>>

WaitCharSeen == ~opt.foi /\ opt.waitchar /\ lastbyte.is = "wait"

(* Faulty variant: the loop reads once.                                     *)
MoreNever ==
  /\ pc = "more"
  /\ spoiled' = spoiled
  /\ pc' = IF Inter THEN "prompt" ELSE "done"
  /\ UNCHANGED <<opt, link, left, input, hbuf, lastbyte, sent, answer, printed, junk>>

(* Faulty variant: the wait character is looked for but the loop goes on.   *)
MoreForWaitChar ==
  /\ pc = "more"
  /\ IF rx # <<>> \/ WaitCharSeen
     THEN pc' = "read" /\ UNCHANGED spoiled
     ELSE /\ pc' = IF Inter THEN "prompt" ELSE "done"
          /\ spoiled' = spoiled \cup IF Quiet THEN {} ELSE {"timeout"}
  /\ UNCHANGED <<opt, link, left, input, hbuf, lastbyte, sent, answer, printed, junk>>

(* The end of a turn: out of the loop when the wait character was the last  *)
(* byte, in this turn or whenever a byte was last remembered; or else after *)
(* a wait that ends with nothing there.                                     *)
More ==
  /\ pc = "more"
  /\ IF ~WaitCharSeen /\ rx # <<>>
     THEN pc' = "read" /\ UNCHANGED spoiled
     ELSE /\ pc' = IF Inter THEN "prompt" ELSE "done"
          /\ spoiled' = spoiled \cup
               IF Quiet THEN {}
               ELSE IF ~WaitCharSeen THEN {"timeout"}
               ELSE IF lastbyte.of # cmd THEN {"stale"} ELSE {}
  /\ UNCHANGED <<opt, link, left, input, hbuf, lastbyte, sent, answer, printed, junk>>

-----------------------------------------------------------------------------
(* The camera answers a frame it was sent, or speaks by itself to -r, once, *)
(* perhaps when the tool has given up.                                      *)
Speak ==
  /\ cmd > 0 /\ answer = <<>> /\ pc \in {"wait", "frame", "more", "prompt"}
  /\ opt.readonly \/ sent # <<>>
  /\ \E m \in Messages :
       /\ m # <<>> /\ answer' = Bytes(cmd, m) /\ out' = out \o answer'
  /\ spoiled' = spoiled \cup IF pc = "prompt" THEN {"timeout"} ELSE {}
  /\ UNCHANGED <<pc, opt, rx, enabled, left, input, hbuf, lastbyte, sent, printed, junk>>

(* A byte arrives.  While reception is disabled it may be lost.             *)
Arrive ==
  /\ out # <<>> /\ out' = Tail(out)
  /\ rx' = Append(rx, Head(out)) \/ (~enabled /\ rx' = rx)
  /\ UNCHANGED <<pc, opt, enabled, left, input, hbuf, lastbyte, sent, history>>

(* Another program reads the line; it makes a difference just before the    *)
(* tool reads.                                                              *)
Steal ==
  /\ Shared /\ rx # <<>> /\ pc \in {"flush", "read"}
  /\ rx' = After(Chunk) /\ spoiled' = spoiled \cup {"stolen"}
  /\ UNCHANGED <<pc, opt, out, enabled, left, input, hbuf, lastbyte, sent, answer, printed, junk>>

Tool ==
  \/ Open \/ Count \/ Flush \/ Enable \/ Send \/ ReadFrame \/ Wait \/ PressReturn \/ Read \/ More

Next ==
  \/ OpenFails \/ TakeLine \/ Listen \/ EndOfInput
  \/ Tool
  \/ Speak \/ Arrive \/ Steal

Spec == Init /\ [][Next]_vars
FairSpec == Spec /\ WF_vars(Tool)

-----------------------------------------------------------------------------
Reasons == {"leftover", "timeout", "stale", "nul", "full", "stolen"}
AtRest == {"start", "prompt", "done", "crashed"}
Byte == [of : 0 .. MaxCommands, nth : Nat, is : Kinds]

(* Type of every variable.                                                  *)
TypeOK ==
  /\ pc \in AtRest \cup {"count", "flush", "enable", "send", "frame", "wait", "pause", "read", "more"}
  /\ opt \in Options /\ out \in Seq(Byte) /\ rx \in Seq(Byte) /\ enabled \in BOOLEAN
  /\ left \in Nat /\ cmd \in 0 .. MaxCommands /\ line \in Lines \cup {NoLine}
  /\ at \in Nat /\ typed \in Nat /\ hbuf \in [1 .. LineSize -> 0 .. MaxCommands]
  /\ lastbyte \in Byte /\ sent \in Seq(0 .. MaxCommands)
  /\ answer \in Seq(Byte) /\ printed \in Seq(Byte)
  /\ junk \subseteq Byte /\ spoiled \subseteq Reasons

(* Whatever had arrived before the flush began is never taken for an        *)
(* answer, however many reads it takes and whoever else reads.              *)
JunkIsFlushed == ToSet(printed) \cap junk = {}

(* When the tool comes back from a command, what it has printed is that     *)
(* command's answer, whole and in order, line ends apart; unless bytes of   *)
(* an earlier command were still to come, the camera was slower than the    *)
(* time-out, the answer has a NUL, a read filled the buffer, somebody else  *)
(* read, or the last byte remembered was an earlier answer's.               *)
Words(text) == Without({"cr", "lf"}, text)
AnswerPrinted ==
  pc \in {"prompt", "done"} /\ spoiled = {} => Words(printed) = Words(answer)

(* The camera is sent all bytes of the line typed for this command or, in   *)
(* hexadecimal mode, nothing; a framed command with a bad byte is the       *)
(* exception, sent with bytes of earlier ones.                              *)
SendsWhatWasTyped ==
  sent # <<>> /\ (Framed => line.bad = 0) => sent = [i \in 1 .. line.n |-> cmd]

(* A line read fits behind ibuf_p, but in an interactive session in         *)
(* hexadecimal whose lines together are longer than the buffer.             *)
LineFits ==
  pc = "send" => at + line.n <= LineSize \/ (opt.hexin /\ Inter /\ typed > LineSize)

(* A command comes back to the prompt or to the end of the tool; but the    *)
(* flush may turn for ever on bytes that somebody else has read.            *)
CommandEnds == pc \notin AtRest ~> pc \in AtRest \/ (pc = "flush" /\ "stolen" \in spoiled)
=============================================================================
