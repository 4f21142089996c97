----------------------------- MODULE OscParser -----------------------------
(***************************************************************************)
(* BoundedOscParser (src/termd/src/pty/activity.rs): finds titles, Claude  *)
(* status lines and iTerm progress reports in a session's output, whatever *)
(* its chunking, keeping at most CommandMax + PayloadMax bytes.  A byte is  *)
(* one of the classes the parser tells apart and a payload is its length.  *)
(***************************************************************************)
EXTENDS Naturals, Sequences, SequencesExt

CONSTANTS CommandMax,   \* OSC_COMMAND_MAX_BYTES
          PayloadMax    \* OSC_PAYLOAD_MAX_BYTES

ASSUME OscBounds == CommandMax \in Nat \ {0} /\ PayloadMax \in Nat

VARIABLE osc   \* BoundedOscParser.state

Bytes == {"esc", "bracket", "0", "9", "c", "semicolon", "bel", "backslash", "x"}

Digits == {"0", "9", "c"}

\* 0 and 2 set a title, 9 reports progress, 21337 (as long as a command may
\* be) is the Claude status.
PayloadKind(command) ==
  CASE command = <<"0">> -> "title"
    [] command = <<"9">> -> "progress"
    [] command = [i \in 1 .. CommandMax |-> "c"] -> "claude"
    [] OTHER -> "none"

Ground == [st |-> "ground"]
OscEscape == [st |-> "escape"]
Command(c) == [st |-> "command", cmd |-> c]
OscPayload(k, n) == [st |-> "payload", kind |-> k, len |-> n]
PayloadEscape(k, n) == [st |-> "payload_escape", kind |-> k, len |-> n]
Discard == [st |-> "discard"]
DiscardEscape == [st |-> "discard_escape"]

InGround(b) == IF b = "esc" THEN OscEscape ELSE Ground

InEscape(b) ==
  CASE b = "bracket" -> Command(<<>>) [] b = "esc" -> OscEscape [] OTHER -> Ground

InCommand(p, b) ==
  CASE b \in Digits /\ Len(p.cmd) < CommandMax -> Command(Append(p.cmd, b))
    [] b = "semicolon" -> IF PayloadKind(p.cmd) = "none" THEN Discard
                  ELSE OscPayload(PayloadKind(p.cmd), 0)
    [] b = "bel" -> Ground
    [] b = "esc" -> DiscardEscape
    [] OTHER -> Discard

InPayload(p, b) ==
  CASE b = "bel" -> Ground
    [] b = "esc" -> PayloadEscape(p.kind, p.len)
    [] OTHER -> IF p.len < PayloadMax THEN OscPayload(p.kind, p.len + 1) ELSE Discard

InPayloadEscape(b) ==
  CASE b \in {"backslash", "bel"} -> Ground [] b = "esc" -> DiscardEscape [] OTHER -> Discard

InDiscard(b) ==
  CASE b = "bel" -> Ground [] b = "esc" -> DiscardEscape [] OTHER -> Discard

InDiscardEscape(b) ==
  CASE b \in {"backslash", "bel"} -> Ground [] b = "esc" -> DiscardEscape [] OTHER -> Discard

ParserStep(p, b) ==
  CASE p.st = "ground" -> InGround(b)
    [] p.st = "escape" -> InEscape(b)
    [] p.st = "command" -> InCommand(p, b)
    [] p.st = "payload" -> InPayload(p, b)
    [] p.st = "payload_escape" -> InPayloadEscape(b)
    [] p.st = "discard" -> InDiscard(b)
    [] p.st = "discard_escape" -> InDiscardEscape(b)

\* The event a byte completes.
Reports(p, b) ==
  IF \/ p.st = "payload" /\ b = "bel"
     \/ p.st = "payload_escape" /\ b = "backslash"
  THEN <<[kind |-> p.kind, len |-> p.len]>> ELSE <<>>

PushByte(r, b) ==
  [state |-> ParserStep(r.state, b), events |-> r.events \o Reports(r.state, b)]

\* push(): the state left behind and the events, in order.
Push(p, bytes) ==
  LET pushed[i \in 0 .. Len(bytes)] ==
        IF i = 0 THEN [state |-> p, events |-> <<>>] ELSE PushByte(pushed[i - 1], bytes[i])
  IN  pushed[Len(bytes)]

OutputByte(b) == osc' = ParserStep(osc, b)

OscInit == osc = Ground

OscNext == \E b \in Bytes : OutputByte(b)

OscSpec == OscInit /\ [][OscNext]_osc

(***************************************************************************)
(* Properties.                                                             *)
(***************************************************************************)

OscTypeOK ==
  \/ osc \in {Ground, OscEscape, Discard, DiscardEscape}
  \/ osc.st = "command" /\ Len(osc.cmd) <= CommandMax
  \/ osc.st \in {"payload", "payload_escape"} /\ osc.len <= PayloadMax

Whole(command, n, end) ==
  <<"esc", "bracket">> \o command \o <<"semicolon">> \o [i \in 1 .. n |-> "x"] \o end

Terminators == {<<"bel">>, <<"esc", "backslash">>}

KnownCommands == {<<"0">>, <<"9">>, [i \in 1 .. CommandMax |-> "c"]}

\* Whatever the stream has been (a sequence cut in the middle, one that is
\* too long, an escape doubled), one terminator brings the parser back: the
\* next whole sequence within the bound is reported, exactly once and with its
\* whole payload, and one that is too long is not reported at all.  (The
\* reset from Discard ends in Ground: that state is covered by the others.)
ParserRecovers == osc # Ground =>
  \A reset \in Terminators, c \in KnownCommands, end \in Terminators :
    LET p == Push(osc, reset).state
    IN  /\ \A n \in 0 .. PayloadMax :
             Push(p, Whole(c, n, end)).events = <<[kind |-> PayloadKind(c), len |-> n]>>
        /\ Push(p, Whole(c, PayloadMax + 1, end)).events = <<>>

=============================================================================
