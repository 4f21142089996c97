---------------------------- MODULE OutputBridge ----------------------------
(***************************************************************************)
(* From the PTY to the supervisor's journal: the reader thread and the     *)
(* buffered read of NonBlockingPortablePtySession                          *)
(* (termd/src/net/pty_bridge.rs) and the supervisor's output pump          *)
(* (supervisor_output_pump, termd/src/pty/supervisor.rs).                  *)
(*                                                                         *)
(* The thread blocks in read(2), sends each chunk over a bounded channel   *)
(* and signals a watch; a watch coalesces signals, so a chunk has no       *)
(* signal of its own.  The pump waits for the watch, then reads until the  *)
(* buffer is empty, a bounded number of reads at a time.  The bytes are    *)
(* numbered in the order the program wrote them.                           *)
(***************************************************************************)
EXTENDS Integers, Sequences, SequencesExt, FiniteSetsExt

CONSTANTS MaxByte,      \* bound: bytes the program writes
          ReaderChunk,  \* READER_CHUNK_BYTES
          ChannelMax,   \* OUTPUT_QUEUE_MAX_MESSAGES, of channel and buffer
          DrainMax,     \* READY_OUTPUT_DRAIN_MAX_CHUNKS
          PumpBuffers,  \* sizes of the buffer a read fills
          TickMax       \* SUPERVISOR_OUTPUT_PUMP_MAX_CHUNKS_PER_TICK

ASSUME BridgeAssumption ==
          /\ {ReaderChunk, ChannelMax, TickMax} \subseteq Nat \ {0}
          /\ PumpBuffers \subseteq Nat \ {0}
          /\ DrainMax \in Nat /\ DrainMax > 1
          /\ MaxByte \in Nat

VARIABLES typed,        \* bytes the program has written
          ptyEnd,       \* "open", "eof" or "error": how the PTY reads when empty
          bridge,       \* the reader thread: pc, the chunk in hand, bytes read
          channel,      \* output_rx: chunks, or ReadError
          buffered,     \* pending_output
          failed,       \* pending_error is set
          woken,        \* the watch has a value the pump has not seen
          pump,         \* the pump: pc, reads in this tick, batch, buffer size
          sent,         \* bytes recorded in the journal
          reported      \* the pump has seen the read error

bridgeVars == <<typed, ptyEnd, bridge, channel, buffered, failed, woken, pump,
                sent, reported>>

ReadError == <<>>
Upto(a, b) == [i \in 1..(b - a) |-> a + i]

ProgramTypes ==
    /\ typed < MaxByte /\ ptyEnd = "open"
    /\ typed' = typed + 1
    /\ UNCHANGED <<ptyEnd, bridge, channel, buffered, failed, woken, pump, sent, reported>>

PtyEnds(how) ==
    /\ ptyEnd = "open"
    /\ ptyEnd' = how
    /\ UNCHANGED <<typed, bridge, channel, buffered, failed, woken, pump, sent, reported>>
-----------------------------------------------------------------------------
(* read_pty_output.                                                        *)

\* read(2) returns what is there, up to a chunk; at the end it returns 0, and
\* the thread stops, or an error, which is sent like a chunk.
BridgeReads ==
    /\ bridge.pc = "read"
    /\ IF bridge.at < typed
       THEN \E n \in 1..Min({ReaderChunk, typed - bridge.at}) :
              bridge' = [pc |-> "send", hand |-> Upto(bridge.at, bridge.at + n),
                         at |-> bridge.at + n]
       ELSE /\ ptyEnd # "open"
            /\ bridge' = [bridge EXCEPT !.pc = IF ptyEnd = "eof" THEN "done" ELSE "send",
                                        !.hand = ReadError]
    /\ UNCHANGED <<typed, ptyEnd, channel, buffered, failed, woken, pump, sent, reported>>

\* A mutant: the error path sends without a signal.
BridgeSendsErrorSilently ==
    /\ bridge.pc = "send" /\ Len(channel) < ChannelMax
    /\ channel' = Append(channel, bridge.hand)
    /\ bridge' = [bridge EXCEPT !.pc = IF bridge.hand = ReadError THEN "done" ELSE "signal"]
    /\ UNCHANGED <<typed, ptyEnd, buffered, failed, woken, pump, sent, reported>>

BridgeSends ==
    /\ bridge.pc = "send" /\ Len(channel) < ChannelMax
    /\ channel' = Append(channel, bridge.hand)
    /\ bridge' = [bridge EXCEPT !.pc = "signal"]
    /\ UNCHANGED <<typed, ptyEnd, buffered, failed, woken, pump, sent, reported>>

BridgeSignals ==
    /\ bridge.pc = "signal"
    /\ woken' = TRUE
    /\ bridge' = [bridge EXCEPT !.pc = IF bridge.hand = ReadError THEN "done" ELSE "read",
                                !.hand = ReadError]
    /\ UNCHANGED <<typed, ptyEnd, channel, buffered, failed, pump, sent, reported>>
-----------------------------------------------------------------------------
(* NonBlockingPortablePtySession::read, under the session lock.            *)

\* drain_ready_output moves chunks while there is room, at most DrainMax, and
\* stops at an error.
Drained ==
    LET room    == Min({DrainMax, Max({ChannelMax - Len(buffered), 0}), Len(channel)})
        errors  == {i \in 1..room : channel[i] = ReadError}
        taken   == IF failed THEN 0 ELSE IF errors = {} THEN room ELSE Min(errors)
        fresh   == SubSeq(channel, 1, IF failed \/ errors = {} THEN taken ELSE taken - 1)
    IN  [channel  |-> SubSeq(channel, taken + 1, Len(channel)),
         buffered |-> buffered \o fresh,
         failed   |-> failed \/ (~failed /\ errors # {})]

\* After a read the watch is signalled again when the buffer is not empty.
StillPending(left, rest, bad) == left # <<>> \/ rest # <<>> \/ bad

\* One read by the pump, into a buffer of pump.size bytes, and what
\* drain_supervisor_output does with the result: a batch is published before it
\* would exceed the buffer size, and when it reaches it.
Publishes(batch, bytes) ==
    LET early == IF Len(batch) + Len(bytes) > pump.size THEN batch ELSE <<>>
        kept  == (IF early = <<>> THEN batch ELSE <<>>) \o bytes
    IN  IF Len(kept) >= pump.size
        THEN [out |-> early \o kept, batch |-> <<>>]
        ELSE [out |-> early, batch |-> kept]

PumpReads ==
    LET d    == Drained
        got  == IF d.buffered = <<>> THEN <<>> ELSE Head(d.buffered)
        n    == Min({Len(got), pump.size})
        left == SubSeq(got, n + 1, Len(got))
        rest == Tail(d.buffered)
        p    == Publishes(pump.batch, SubSeq(got, 1, n))
    IN  /\ pump.pc = "drain" /\ pump.reads < TickMax
        /\ channel' = d.channel
        /\ IF d.buffered = <<>>
           THEN \* an error, or nothing: the batch is published and the pump waits
                /\ buffered' = <<>>
                /\ failed' = FALSE
                /\ reported' = (reported \/ d.failed)
                /\ sent' = sent \o pump.batch
                /\ pump' = [pump EXCEPT !.pc = "wait", !.reads = 0, !.batch = <<>>]
                /\ UNCHANGED woken
           ELSE /\ buffered' = (IF left = <<>> THEN <<>> ELSE <<left>>) \o rest
                /\ failed' = d.failed
                /\ woken' = (woken \/ StillPending(left, rest, d.failed))
                /\ sent' = sent \o p.out
                /\ pump' = [pump EXCEPT !.reads = @ + 1, !.batch = p.batch]
                /\ UNCHANGED reported
        /\ UNCHANGED <<typed, ptyEnd, bridge>>

\* The budget of a tick is spent: the batch is published and the pump yields.
PumpYields ==
    /\ pump.pc = "drain" /\ pump.reads = TickMax
    /\ sent' = sent \o pump.batch
    /\ pump' = [pump EXCEPT !.reads = 0, !.batch = <<>>]
    /\ UNCHANGED <<typed, ptyEnd, bridge, channel, buffered, failed, woken, reported>>

PumpWakes ==
    /\ pump.pc = "wait" /\ woken
    /\ woken' = FALSE
    /\ pump' = [pump EXCEPT !.pc = "drain"]
    /\ UNCHANGED <<typed, ptyEnd, bridge, channel, buffered, failed, sent, reported>>
-----------------------------------------------------------------------------
BridgeInit ==
    /\ typed = 0 /\ ptyEnd = "open"
    /\ bridge = [pc |-> "read", hand |-> ReadError, at |-> 0]
    /\ channel = <<>> /\ buffered = <<>> /\ failed = FALSE
    /\ woken = FALSE
    /\ \E size \in PumpBuffers :
          pump = [pc |-> "drain", reads |-> 0, batch |-> <<>>, size |-> size]
    /\ sent = <<>> /\ reported = FALSE

BridgeNext ==
    \/ ProgramTypes \/ \E how \in {"eof", "error"} : PtyEnds(how)
    \/ BridgeReads \/ BridgeSends \/ BridgeSignals
    \/ PumpReads \/ PumpYields \/ PumpWakes

BridgeSpec == BridgeInit /\ [][BridgeNext]_bridgeVars
-----------------------------------------------------------------------------
BridgeTypeOK ==
    /\ typed \in 0..MaxByte /\ ptyEnd \in {"open", "eof", "error"}
    /\ bridge.pc \in {"read", "send", "signal", "done"} /\ bridge.at \in 0..typed
    /\ Len(channel) <= ChannelMax /\ Len(buffered) <= ChannelMax
    /\ {failed, woken, reported} \subseteq BOOLEAN
    /\ pump.pc \in {"wait", "drain"} /\ pump.reads \in 0..TickMax

\* What has been read from the PTY and not yet recorded, oldest first.
Underway ==
    pump.batch \o FlattenSeq(buffered) \o FlattenSeq(channel)
    \o (IF bridge.pc = "send" THEN bridge.hand ELSE <<>>)

(***************************************************************************)
(* The journal gets every byte once and in the order the program wrote     *)
(* it, a read error only after the bytes before it, and no byte waits for  *)
(* the next key press: a pump that waits without a signal has nothing to   *)
(* read, unless the reader thread is between its send and its signal.      *)
(* (pty_bridge.rs:170 read, 127 drain_ready_output; supervisor.rs:5026)    *)
(***************************************************************************)
OutputIsDelivered ==
    /\ sent \o Underway = Upto(0, bridge.at)
    /\ reported => sent = Upto(0, typed)
    /\ (pump.pc = "wait" /\ ~woken /\ bridge.pc # "signal")
         => channel = <<>> /\ buffered = <<>> /\ ~failed
=============================================================================
