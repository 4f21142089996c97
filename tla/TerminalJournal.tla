------------------------- MODULE TerminalJournal -------------------------
(***************************************************************************)
(* The terminal state a session supervisor owns, and the frames it hands   *)
(* out (termd/src/pty/supervisor/terminal_journal.rs).                     *)
(*                                                                         *)
(* Every terminal event (output, resize, exit) takes the next session-wide *)
(* terminal_seq; the last JournalMax of them stay in a journal.  A client  *)
(* that reattaches is brought up to date either by the journal tail after  *)
(* the last sequence number it knows, or by one snapshot of the screen.    *)
(*                                                                         *)
(* The screen is abstracted to the set of events it reflects: a snapshot   *)
(* taken at sequence number n reflects exactly the events 1..n.            *)
(***************************************************************************)
EXTENDS Integers, Sequences

CONSTANTS
    JournalMax,     \* TERMINAL_JOURNAL_MAX_EVENTS
    Sizes           \* terminal sizes

ASSUME JournalMaxAssumption == JournalMax \in Nat \ {0}

NoSeq  == -1        \* last_terminal_seq = None
NoSize == "no_size" \* the size field of an event that carries none

Kinds  == {"output", "resize", "exit"}
Events == [seq : Nat, kind : Kinds, size : Sizes \cup {NoSize}]

Event(seq, kind, size) == [seq |-> seq, kind |-> kind, size |-> size]

----------------------------------------------------------------------------
(* SupervisorTerminalCache *)

(* Mutant of NewCache: sequence numbers start at zero. *)
NewCacheFromZero(size) == [next |-> 0, base |-> 0, journal |-> <<>>, size |-> size]

NewCache(size) == [next |-> 1, base |-> 1, journal |-> <<>>, size |-> size]

CurrentSeq(cache) == cache.next - 1

(* Mutant of Trimmed: drops one event too many. *)
TrimmedTwice(journal) ==
    IF Len(journal) > JournalMax THEN Tail(Tail(journal)) ELSE journal

(* push_journal: append, drop the oldest event beyond JournalMax; the base *)
(* of the journal is the sequence number of its first event.               *)
Trimmed(journal) ==
    IF Len(journal) > JournalMax THEN Tail(journal) ELSE journal

PushJournal(cache, event) ==
    LET journal == Trimmed(Append(cache.journal, event))
    IN  [cache EXCEPT !.journal = journal,
                      !.base = IF journal = <<>> THEN cache.next ELSE journal[1].seq]

(* record_output, resize and record_exit share their shape: allocate the   *)
(* next sequence number, journal the event and return it as a live frame.  *)
RecordEvent(cache, kind, size) ==
    LET event  == Event(cache.next, kind, size)
        pushed == PushJournal([cache EXCEPT !.next = @ + 1], event)
    IN  IF kind = "resize" THEN [pushed EXCEPT !.size = size] ELSE pushed

(* Mutant of TailAfter: the first missing event is left out. *)
TailAfterSkips(cache, last) ==
    SubSeq(cache.journal, last + 3 - cache.base, Len(cache.journal))

(* The journal is ordered and gap-free, so the events filtered by          *)
(* "terminal_seq > last" are a suffix of it.                               *)
TailAfter(cache, last) ==
    SubSeq(cache.journal, last + 2 - cache.base, Len(cache.journal))

(* should_replay_attach_tail: never across a resize; otherwise the byte    *)
(* budget decides, and "fits" stands for its outcome.                      *)
ReplaysTail(events, fits) ==
    /\ \A i \in 1..Len(events) : events[i].kind # "resize"
    /\ fits

(* terminal_snapshot_or_tail: the base sequence number the answer covers,  *)
(* and either a tail or a snapshot.                                        *)
SnapshotOrTail(cache, last, fits) ==
    LET current == CurrentSeq(cache)
        answer(snap, events) == [base |-> current, snap |-> snap, tail |-> events]
    IN  IF last = current THEN answer(FALSE, <<>>)
        ELSE IF /\ last # NoSeq
                /\ last < current
                /\ last + 1 >= cache.base
                /\ ReplaysTail(TailAfter(cache, last), fits)
             THEN answer(FALSE, TailAfter(cache, last))
             ELSE answer(TRUE, <<>>)

----------------------------------------------------------------------------
Caches == [next : Nat \ {0}, base : Nat \ {0}, journal : Seq(Events), size : Sizes]

(* The journal holds the last min(JournalMax, current) events, in order    *)
(* and without a gap, and base names its first one.                        *)
SuffixJournal(cache) ==
    /\ cache.base + Len(cache.journal) = cache.next
    /\ \A i \in 1..Len(cache.journal) : cache.journal[i].seq = cache.base + i - 1
    /\ Len(cache.journal) <= JournalMax
    /\ cache.base = 1 \/ Len(cache.journal) = JournalMax
==========================================================================
