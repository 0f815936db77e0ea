------------------------------ MODULE ScaIndex ------------------------------
(***************************************************************************)
(* The index of size-changing filesystems (base0fs/sca_aux.c) and the tools  *)
(* that encode and decode whole files (sca_write.c, sca_read.c).  The data   *)
(* file is a sequence of cells.  A page is a value with a raw and an encoded *)
(* length; its cells tell whose they are, so that a decoder that is given    *)
(* anything but a whole encoded page fails.                                  *)
(***************************************************************************)
EXTENDS Integers, Sequences, SequencesExt

CONSTANTS
    Pages,          \* contents of a page
    RawLen,         \* length of each
    EncLen,         \* length when encoded
    ChunkSize,      \* chunksize
    OffWords,       \* sizeof(off_t) / sizeof(int): 1 or 2
    MaxPuts         \* bound: calls of put_page, pages of a file

ScaSizes ==
    /\ ChunkSize \in Nat \ {0} /\ OffWords \in {1, 2} /\ MaxPuts \in Nat
    /\ \A p \in Pages : RawLen[p] \in 1..ChunkSize /\ EncLen[p] \in Nat \ {0}

VARIABLES
    fast,           \* do_fast_tails
    file,           \* the encoded file
    hdr,            \* struct fistfs_header: num_pages, real_size, offsets
    idx,            \* the index file, in words of an int
    put,            \* pages put so far, the last one perhaps as a tail
    tailed,         \* the last page is a raw tail
    quirks,         \* what has happened that loses data
    puts
scaVars == <<fast, file, hdr, idx, put, tailed, quirks, puts>>

NoHeader == [num |-> 0, real |-> 0, offsets |-> <<>>]
Error == [num |-> -1, real |-> 0, offsets |-> <<>>]

ScaInit ==
    /\ fast \in BOOLEAN
    /\ file = <<>> /\ idx = <<>> /\ put = <<>>
    /\ hdr = NoHeader
    /\ tailed = FALSE /\ quirks = {} /\ puts = 0

-----------------------------------------------------------------------------
Encoded(p) == [i \in 1..EncLen[p] |-> <<p, "encoded", i>>]
Raw(p) == [i \in 1..RawLen[p] |-> <<p, "raw", i>>]
Hole == <<"hole">>

\* lseek and write; what lies between the end and the position reads as zeros.
WriteAt(f, pos, cells) ==
    [i \in 1..(IF pos + Len(cells) > Len(f) THEN pos + Len(cells) ELSE Len(f)) |->
        CASE i > pos /\ i <= pos + Len(cells) -> cells[i - pos]
          [] i <= Len(f) /\ ~(i > pos /\ i <= pos + Len(cells)) -> f[i]
          [] OTHER -> Hole]

StartOf(h, pageno) == IF pageno = 0 THEN 0 ELSE h.offsets[pageno]
EndOf(h, pageno) == h.offsets[pageno + 1]

\* put_page of a short last page as a raw tail: real_size loses the old tail.
PutTail(f, h, p) ==
    LET cnt == StartOf(h, h.num)
    IN [file |-> SubSeq(WriteAt(f, cnt, Raw(p)), 1, cnt + RawLen[p]),
        hdr |-> [h EXCEPT !.real = IF h.num > 0 THEN @ - (Len(f) - cnt) + RawLen[p]
                                   ELSE RawLen[p]]]

\* put_page on a new page: it is written where the last one ends, over a tail.
PutNew(f, h, p) ==
    LET start == StartOf(h, h.num)
    IN [file |-> WriteAt(f, start, Encoded(p)),
        hdr |-> [num |-> h.num + 1, real |-> h.real + RawLen[p],
                 offsets |-> Append(h.offsets, start + EncLen[p])]]

\* Mutant: the rest of the file moves, its offsets do not.
ReplaceKeepsOffsets(f, h, pageno, p, seek) ==
    LET delta == (EndOf(h, pageno) - StartOf(h, pageno)) - EncLen[p]
        rest == SubSeq(f, EndOf(h, pageno) + 1, Len(f))
        moved == SubSeq(f, 1, StartOf(h, pageno)) \o [i \in 1..EncLen[p] |-> Hole] \o rest
    IN [file |-> WriteAt(moved, seek, Encoded(p)),
        hdr |-> [h EXCEPT !.real = @ - delta]]

\* put_page on a page that exists: what follows it is moved, chunk by chunk, by
\* delta, and so are the offsets from its own on; the page goes where the
\* previous one ends, read from offsets[pageno - 1].
PutReplace(f, h, pageno, p, seek) ==
    LET delta == (EndOf(h, pageno) - StartOf(h, pageno)) - EncLen[p]
        rest == SubSeq(f, EndOf(h, pageno) + 1, Len(f))
        moved == SubSeq(f, 1, StartOf(h, pageno)) \o [i \in 1..EncLen[p] |-> Hole] \o rest
    IN [file |-> WriteAt(moved, seek, Encoded(p)),
        hdr |-> [h EXCEPT !.real = @ - delta,
                          !.offsets = [i \in DOMAIN @ |-> IF i > pageno THEN @[i] - delta ELSE @[i]]]]

\* For page 0 offsets[-1] is whatever lies in front of the array.
Seeks(h, pageno) == IF pageno = 0 THEN 0..(MaxPuts * ChunkSize) ELSE {StartOf(h, pageno)}

IsTail(h, pageno, p) == RawLen[p] < ChunkSize /\ pageno = h.num /\ fast

PutPage(f, h, pageno, p, seek) ==
    IF IsTail(h, pageno, p) THEN PutTail(f, h, p)
    ELSE IF pageno < h.num THEN PutReplace(f, h, pageno, p, seek)
    ELSE PutNew(f, h, p)

\* get_page: a page, "empty" for no tail, or "error".
GetPage(f, h, pageno) ==
    LET isTail == pageno = h.num
        cells == IF isTail THEN SubSeq(f, StartOf(h, pageno) + 1, Len(f))
                 ELSE SubSeq(f, StartOf(h, pageno) + 1, EndOf(h, pageno))
        found == {p \in Pages : cells = IF isTail THEN Raw(p) ELSE Encoded(p)}
    IN IF pageno > h.num \/ (isTail /\ ~fast) THEN "error"
       ELSE IF isTail /\ cells = <<>> THEN "empty"
       ELSE IF found = {} THEN "error" ELSE CHOOSE p \in found : TRUE

-----------------------------------------------------------------------------
(* The index file                                                           *)

Words(off) == [i \in 1..OffWords |-> IF i = 1 THEN off ELSE 0]
WriteIdx(h) == <<h.num, h.real>> \o FlattenSeq([i \in DOMAIN h.offsets |-> Words(h.offsets[i])])

\* num_pages and real_size are written as int and read as off_t: with a larger
\* off_t the first read takes both and the second the first offset.
ReadIdx(w) ==
    LET num == w[1]
        Offset(i) == w[(i + 1) * OffWords + 1]
    IN IF Len(w) < (2 + w[1]) * OffWords THEN Error
       ELSE [num |-> num, real |-> w[OffWords + 1], offsets |-> [i \in 1..num |-> Offset(i)]]

\* encode_file: the data file is truncated, but an index that can be read is
\* taken as it is.
EncodePages(pages) ==
    LET old == IF idx = <<>> THEN Error ELSE ReadIdx(idx)
        Put1(s, p) == PutPage(s.file, s.hdr, s.hdr.num, p, 0)
    IN FoldLeft(Put1, [file |-> <<>>, hdr |-> IF old = Error THEN NoHeader ELSE old], pages)

\* decode_file: the pages, then the tail.
DecodePages ==
    LET h == ReadIdx(idx)
        whole == [i \in 1..h.num |-> GetPage(file, h, i - 1)]
    IN IF h = Error THEN <<"error">>
       ELSE IF fast THEN whole \o SelectSeq(<<GetPage(file, h, h.num)>>, LAMBDA p : p # "empty")
       ELSE whole

-----------------------------------------------------------------------------
\* A user of sca_aux.c replaces a page or adds one.
Put(pageno, p, seek) ==
    LET r == PutPage(file, hdr, pageno, p, seek)
        tail == IsTail(hdr, pageno, p)
        grows == pageno = hdr.num /\ ~tail
    IN /\ idx = <<>> /\ puts < MaxPuts
       /\ file' = r.file /\ hdr' = r.hdr /\ puts' = puts + 1
       /\ put' = IF pageno < Len(put) THEN [put EXCEPT ![pageno + 1] = p] ELSE Append(put, p)
       /\ tailed' = IF pageno = hdr.num THEN tail ELSE tailed
       /\ quirks' = quirks \cup (IF pageno = 0 /\ hdr.num > 0 THEN {"page 0 replaced"} ELSE {})
                           \cup (IF pageno < hdr.num THEN {"replaced"} ELSE {})
                           \cup (IF grows /\ tailed THEN {"grown over a tail"} ELSE {})
       /\ UNCHANGED <<fast, idx>>

\* sca_write encodes a file: full pages, then perhaps a short one.
EncodeFile(pages) ==
    LET r == EncodePages(pages)
    IN /\ \A i \in 1..(Len(pages) - 1) : RawLen[pages[i]] = ChunkSize
       /\ puts = 0 \/ idx # <<>>
       /\ puts < 2
       /\ file' = r.file /\ idx' = WriteIdx(r.hdr) /\ put' = pages
       /\ quirks' = quirks \cup IF idx = <<>> \/ ReadIdx(idx) = Error THEN {} ELSE {"index kept"}
       /\ puts' = puts + 1
       /\ UNCHANGED <<fast, hdr, tailed>>

ScaNext ==
    \/ \E pageno \in 0..hdr.num, p \in Pages : \E seek \in Seeks(hdr, pageno) : Put(pageno, p, seek)
    \/ \E pages \in BoundedSeq(Pages, MaxPuts - 1) : EncodeFile(pages)

-----------------------------------------------------------------------------
\* What was put is what get_page returns, whatever was replaced by something
\* longer or shorter, unless page 0 was replaced (line 185 then reads an offset
\* from in front of the array) or a page was added over a longer tail.
Damaging == {"page 0 replaced", "grown over a tail"}
PagesReadBack ==
    idx = <<>> /\ quirks \cap Damaging = {} =>
        /\ hdr.num = Len(put) - (IF tailed THEN 1 ELSE 0)
        /\ \A i \in DOMAIN put : GetPage(file, hdr, i - 1) = put[i]
        /\ fast /\ ~tailed => GetPage(file, hdr, hdr.num) = "empty"

\* real_size is the size of the file, as long as it only grew.
SizeOf(pages) == FoldLeft(LAMBDA n, p : n + RawLen[p], 0, pages)
RealSizeIsTrue ==
    idx = <<>> /\ quirks = {} => hdr.real = SizeOf(put)

\* A file that was encoded decodes to itself, and its index tells its size,
\* where off_t is no longer than int and no older index was in the way.
RoundTrip ==
    idx # <<>> /\ quirks = {} /\ OffWords = 1 =>
        /\ DecodePages = put
        /\ idx[2] = SizeOf(put)
=============================================================================
