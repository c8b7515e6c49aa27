------------------------------ MODULE OggOpus ------------------------------
(***************************************************************************)
(* OggOpusWriter (server/oggopus.py): Opus packets are put into the pages  *)
(* of an Ogg stream.  A page carries a table of segment sizes (lacing);    *)
(* sizes of LaceMax say that the packet goes on, a smaller one ends it.    *)
(*                                                                         *)
(* A packet is the sequence of its bytes, and a byte is named by its       *)
(* packet's number and its place in it, so that a byte which ends up in    *)
(* the wrong packet is noticed.  Serial number and checksum of a page are  *)
(* left out.                                                               *)
(***************************************************************************)
EXTENDS Integers, Sequences

CONSTANTS
    LaceMax,        \* 255, the largest segment
    MaxSegments,    \* 255, segments in a page
    FrameSamples,   \* 960, samples in a packet
    HeadLen,        \* length of the OpusHead packet, 19
    TagsLen,        \* length of the OpusTags packet, 25
    MaxLen,         \* bound: length of a packet
    MaxPackets      \* bound: packets added

ASSUME OggOpusAssumption ==
    /\ LaceMax \in Nat \ {0}
    /\ MaxSegments \in Nat \ {0}
    /\ FrameSamples \in Nat \ {0}
    /\ HeadLen \in 0 .. LaceMax - 1
    /\ TagsLen \in 0 .. LaceMax - 1
    /\ MaxLen \in Nat
    /\ MaxPackets \in Nat

VARIABLES
    pages,      \* the pages emitted
    packets,    \* _packets: the packets of the page being built
    segments,   \* _segments: its segment table
    granule,    \* _granule: samples of the packets added
    status,     \* "open", "finished", or "raised" by an impossible page
    added       \* ghost: the packets added so far

vars == <<pages, packets, segments, granule, status, added>>

Packet(i, n) == [j \in 1 .. n |-> <<i, j>>]

\* variant: the length as one entry
LaceWhole(n) == <<n>>

\* variant: no closing segment after an exact multiple
LaceUnterminated(n) ==
    [i \in 1 .. (n + LaceMax - 1) \div LaceMax |->
        IF i <= n \div LaceMax THEN LaceMax ELSE n % LaceMax]

(* _lace: a run of full segments and a smaller one, zero if need be.       *)
Lace(n) ==
    [i \in 1 .. n \div LaceMax + 1 |->
        IF i <= n \div LaceMax THEN LaceMax ELSE n % LaceMax]

(* _page; the sequence number is the number of pages before it.            *)
Page(flags, g, table, payload, seqno) ==
    [flags |-> flags, granule |-> g, segments |-> table,
     payload |-> payload, seqno |-> seqno]

(* Payloads joined: the bytes of a sequence of packets.                    *)
Joined(ps) ==
    LET join[i \in 0 .. Len(ps)] == IF i = 0 THEN <<>> ELSE join[i - 1] \o ps[i]
    IN  join[Len(ps)]

Init ==
    /\ pages = <<Page({"BOS"}, 0, Lace(HeadLen), Packet(0, HeadLen), 0),
                 Page({}, 0, Lace(TagsLen), Packet(0, TagsLen), 1)>>
    /\ packets = <<>>
    /\ segments = <<>>
    /\ granule = 0
    /\ status = "open"
    /\ added = <<>>

-----------------------------------------------------------------------------
(* The page being built, as it is written now. *)
BuiltPage(flags) == Page(flags, granule, segments, Joined(packets), Len(pages))

\* variant: a table one segment too long
FitsOneMore(segs) == Len(segments) + Len(segs) <= MaxSegments + 1

Fits(segs) == Len(segments) + Len(segs) <= MaxSegments

(* The number of segments is one byte of the page header: bytes([n]).      *)
Writable == Len(segments) <= MaxSegments

(* add_packet of a packet that fits the page being built.                  *)
AddHere(n) ==
    /\ Fits(Lace(n))
    /\ packets' = Append(packets, Packet(Len(added) + 1, n))
    /\ segments' = segments \o Lace(n)
    /\ UNCHANGED <<pages, status>>

\* variant: the granule position counts the packet that starts the next page
AddNextPageLate(n) ==
    /\ ~Fits(Lace(n))
    /\ Writable
    /\ pages' = IF packets = <<>> THEN pages
                ELSE Append(pages, [BuiltPage({}) EXCEPT !.granule = granule + FrameSamples])
    /\ packets' = <<Packet(Len(added) + 1, n)>>
    /\ segments' = Lace(n)
    /\ UNCHANGED status

(* add_packet of one that does not: _flush_page writes the page, if there  *)
(* is anything on it, and the packet is the first of the next.             *)
AddNextPage(n) ==
    /\ ~Fits(Lace(n))
    /\ Writable
    /\ pages' = IF packets = <<>> THEN pages ELSE Append(pages, BuiltPage({}))
    /\ packets' = <<Packet(Len(added) + 1, n)>>
    /\ segments' = Lace(n)
    /\ UNCHANGED status

AddPacket(n) ==
    /\ status = "open"
    /\ AddHere(n) \/ AddNextPage(n)
    /\ granule' = granule + FrameSamples
    /\ added' = Append(added, Packet(Len(added) + 1, n))

(* A packet too long for any page sits in the table: writing it raises.    *)
Raise ==
    /\ status = "open"
    /\ ~Writable
    /\ status' = "raised"
    /\ UNCHANGED <<pages, packets, segments, granule, added>>

\* variant: the last page is not marked
ClosingPageUnmarked ==
    IF packets = <<>> THEN Page({}, granule, <<0>>, <<>>, Len(pages))
                      ELSE BuiltPage({})

(* The page being built, or an empty one, ends the stream.                 *)
ClosingPage ==
    IF packets = <<>> THEN Page({"EOS"}, granule, <<0>>, <<>>, Len(pages))
                      ELSE BuiltPage({"EOS"})

Finish ==
    /\ status = "open"
    /\ Writable
    /\ pages' = Append(pages, ClosingPage)
    /\ packets' = <<>>
    /\ segments' = <<>>
    /\ status' = "finished"
    /\ UNCHANGED <<granule, added>>

Next ==
    \/ Len(added) < MaxPackets /\ \E n \in 1 .. MaxLen : AddPacket(n)
    \/ Raise
    \/ Finish

Spec == Init /\ [][Next]_vars

-----------------------------------------------------------------------------
Bytes == (0 .. MaxPackets) \X (1 .. MaxLen + HeadLen + TagsLen)

PageType == [flags : SUBSET {"BOS", "EOS"}, granule : Nat, segments : Seq(0 .. LaceMax),
             payload : Seq(Bytes), seqno : Nat]

TypeOK ==
    /\ pages \in Seq(PageType)
    /\ packets \in Seq(Seq(Bytes))
    /\ segments \in Seq(0 .. LaceMax)
    /\ granule \in Nat
    /\ status \in {"open", "finished", "raised"}
    /\ added \in Seq(Seq(Bytes))

(* How a player reads a page: segments are cut off the payload, and a      *)
(* packet is complete with the first one smaller than LaceMax.  No page is *)
(* marked as a continuation, so what is partial at its end is dropped.     *)
Cut(r, size, payload) ==
    LET part == r.partial \o SubSeq(payload, r.off + 1, r.off + size)
    IN  IF size = LaceMax
        THEN [off |-> r.off + size, partial |-> part, done |-> r.done]
        ELSE [off |-> r.off + size, partial |-> <<>>, done |-> Append(r.done, part)]

Unread == [off |-> 0, partial |-> <<>>, done |-> <<>>]

Reading(table, payload) ==
    LET read[i \in 0 .. Len(table)] ==
          IF i = 0 THEN Unread ELSE Cut(read[i - 1], table[i], payload)
    IN  read[Len(table)]

(* The packets of a page.  The page that closes a stream without packets   *)
(* yields an empty one, which is none.                                     *)
Demuxed(page) ==
    IF page.payload = <<>> THEN <<>> ELSE Reading(page.segments, page.payload).done

(* What a player gets from the audio pages up to the k-th page.            *)
PlayedTo(k) == Joined([i \in 1 .. k - 2 |-> Demuxed(pages[i + 2])])

Played == PlayedTo(Len(pages))

(* "wraps those exact packets": a player gets the packets that were added, *)
(* in order, bit for bit, and what is not yet in a page is in the page     *)
(* being built, for packets of every length (oggopus.py:51-60, 116-141).   *)
RoundTrip == Played \o packets = added

(* The granule position of a page is the number of samples up to the end   *)
(* of the last packet on it (oggopus.py:90-91, 130-137).                   *)
GranuleExact ==
    \A k \in 3 .. Len(pages) : pages[k].granule = FrameSamples * Len(PlayedTo(k))

(* Every page can be written: its table has at most MaxSegments entries,   *)
(* which add up to its payload, and its last packet ends on it; pages are  *)
(* numbered; the stream begins with one BOS page and, when finished and    *)
(* only then, ends with the one EOS page (oggopus.py:63-75, 116-128,       *)
(* 139-141).                                                               *)
WellFormed ==
    \A k \in DOMAIN pages :
        LET page == pages[k]
            read == Reading(page.segments, page.payload)
        IN  /\ Len(page.segments) \in 1 .. MaxSegments
            /\ read.off = Len(page.payload) /\ read.partial = <<>>
            /\ page.seqno = k - 1
            /\ "BOS" \in page.flags <=> k = 1
            /\ "EOS" \in page.flags <=> k = Len(pages) /\ status = "finished"

(* Writing fails only because of a packet that no page can hold, which at  *)
(* 255 segments of 255 bytes is longer than 65 024 bytes                   *)
(* (oggopus.py:71, 130-136).                                               *)
RaisesOnlyOversized ==
    status = "raised" => \E i \in DOMAIN added : Len(Lace(Len(added[i]))) > MaxSegments
=============================================================================
