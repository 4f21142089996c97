---------------------------- MODULE UploadRanges ----------------------------
(***************************************************************************)
(* The byte ranges of an HTTP file upload (termd/src/net/protocol.rs):     *)
(* written_ranges and inflight_ranges, ordered maps from offset to length, *)
(* under overlapping, repeated and concurrent chunks.  The map lookups     *)
(* (range(..=k).next_back(), range(k..).next()) are Floor and From.  The   *)
(* HTTP handlers begin and finish a chunk in one call; the maps allow the  *)
(* two apart, with other chunks in between, and that is what is modelled.  *)
(***************************************************************************)
EXTENDS Integers, FiniteSets, FiniteSetsExt

CONSTANT FileSize       \* size_bytes

ASSUME UploadRangesAssumption == FileSize \in Nat

VARIABLES written, inflight

rangeVars == <<written, inflight>>
Offsets == 0..FileSize

RangesTypeOK ==
    \A m \in {written, inflight} : DOMAIN m \subseteq Offsets /\ \A o \in DOMAIN m : m[o] \in Nat

RangesInit == written = <<>> /\ inflight = <<>>

Below(m, k) == {o \in DOMAIN m : o <= k}
Floor(m, k) == Max(Below(m, k))
From(m, k)  == {o \in DOMAIN m : o >= k}
Inserted(m, o, n) == [x \in DOMAIN m \cup {o} |-> IF x = o THEN n ELSE m[x]]
Removed(m, o) == [x \in DOMAIN m \ {o} |-> m[x]]

(* range_is_fully_covered: the cursor moves from range to range. *)
FullyCovered(m, start, end) ==
    LET covered[cursor \in 0..(2 * FileSize)] ==
            \/ cursor >= end
            \/ /\ Below(m, cursor) # {}
               /\ LET o == Floor(m, cursor)
                  IN  /\ o + m[o] > cursor
                      /\ covered[o + m[o]]
    IN  covered[start]

(* range_overlaps *)
Overlaps(m, start, end) ==
    /\ start # end
    /\ \/ Below(m, start) # {} /\ Floor(m, start) + m[Floor(m, start)] > start
       \/ From(m, start) # {} /\ Min(From(m, start)) < end

(* has_complete_coverage: the ranges follow one another from 0 to the end. *)
HasCompleteCoverage ==
    \/ FileSize = 0
    \/ /\ \A o \in DOMAIN written :
             /\ written[o] # 0
             /\ o = 0 \/ \E p \in DOMAIN written : p + written[p] = o /\ p < o
       /\ \E o \in DOMAIN written : o + written[o] = FileSize
       /\ 0 \in DOMAIN written

(* reserve_write_range: a chunk covered already is taken without writing,  *)
(* one that overlaps written or reserved bytes is refused.                 *)
Reserve(start, len) ==
    LET end == start + len
    IN  /\ len > 0 /\ end <= FileSize
        /\ ~FullyCovered(written, start, end)
        /\ ~Overlaps(written, start, end) /\ ~Overlaps(inflight, start, end)
        /\ inflight' = Inserted(inflight, start, len)
        /\ UNCHANGED written

(* release_inflight_range, then record_written_range, or a cancelled write *)
Finish(start, ok) ==
    /\ start \in DOMAIN inflight
    /\ inflight' = Removed(inflight, start)
    /\ written' = IF ok THEN Inserted(written, start, inflight[start]) ELSE written

RangesNext ==
    \/ \E start, len \in Offsets : Reserve(start, len)
    \/ \E start \in Offsets, ok \in BOOLEAN : Finish(start, ok)

RangesSpec == RangesInit /\ [][RangesNext]_rangeVars

----------------------------------------------------------------------------
BytesOf(m) == UNION {o..(o + m[o] - 1) : o \in DOMAIN m}

(* The map algorithms agree with the sets of bytes they stand for, in      *)
(* every map a sequence of chunks can build: no byte is written or         *)
(* reserved twice, a range is covered or overlapped exactly when its bytes *)
(* are, and the upload is complete exactly when every byte is there.       *)
RangesAreExact ==
    /\ BytesOf(written) \cap BytesOf(inflight) = {}
    /\ \A m \in {written, inflight} :
          \A p, q \in DOMAIN m : p < q => p + m[p] <= q
    /\ \A start, end \in Offsets : start < end =>
          /\ FullyCovered(written, start, end) <=> start..(end - 1) \subseteq BytesOf(written)
          /\ Overlaps(written, start, end) <=> (start..(end - 1)) \cap BytesOf(written) # {}
    /\ HasCompleteCoverage <=> BytesOf(written) = 0..(FileSize - 1)
=============================================================================
