----------------------------- MODULE ByteArray ------------------------------
(***************************************************************************)
(* ByteArray (src/server/bytearray.cpp) and the two SocketStream calls     *)
(* that move bytes between a ByteArray and a socket                        *)
(* (src/server/socket_stream.cpp), with Stream's fixed-size loops over     *)
(* them (src/server/stream.cpp).                                           *)
(*                                                                         *)
(* The array is a linked list of nodes of m_baseSize bytes each.  Nodes   *)
(* are only ever appended (addCapacity) or cut back to the root (clear),   *)
(* so node c holds the bytes at offsets (c-1)*BaseSize .. c*BaseSize-1 and *)
(* the list is modelled as one sequence mem of Len(mem) = m_capacity       *)
(* bytes.  m_cur is the node the next access starts in, as a node number; *)
(* 0 is nullptr.  Every access computes its offset in that node from       *)
(* m_position % m_baseSize, so whenever m_cur is not the node of           *)
(* m_position the access lands somewhere else.                             *)
(*                                                                         *)
(* Byte values are abstract (the members of Bytes); the typed writers and  *)
(* readers (writeFint16, writeUint64, writeStringF16, ...) are modelled by *)
(* the number of bytes they hand to write() and read(), not by the         *)
(* encoding of those bytes.  Of a byte the varint reader sees only whether *)
(* its top bit is set (HighBytes), and a string reader's length field      *)
(* decodes to any length.  A call that dereferences nullptr sets crashed.  *)
(* A call whose own precondition fails (read past m_size, setPosition     *)
(* past m_capacity) throws before changing anything and is not taken; a   *)
(* reader that throws after some of its reads succeeded is taken, with    *)
(* the bytes it consumed.                                                  *)
(***************************************************************************)
EXTENDS Integers, Sequences

CONSTANTS
    BaseSize,       \* m_baseSize
    Bytes,          \* byte values the program writes and receives
    Undef,          \* a byte of a new Node nobody wrote (new char[s])
    Widths,         \* sizeof of the fixed-width values written and read
    Lengths,        \* lengths of strings and socket transfers
    VarintValues,   \* numbers given to writeUint32/64 and writeInt32/64
    LengthFields,   \* the writeString variants: "F16", "F32", "F64", "Vint"
    HighBytes,      \* the byte values >= 0x80
    StreamCalls,    \* bound: reads or writes one readFixSize/writeFixSize makes
    MaxCapacity     \* bound: no call grows m_capacity past this

ASSUME BaseSize \in Nat \ {0} /\ MaxCapacity % BaseSize = 0
ASSUME LengthFields \subseteq {"F16", "F32", "F64", "Vint"}
ASSUME HighBytes \subseteq Bytes

VARIABLES
    mem,            \* the bytes of the node list, node after node
    m_position,
    m_size,
    m_cur,          \* node number of m_cur, 0 for nullptr
    arg,            \* the bytes the last write or recv was given
    out,            \* the bytes the last read consumed, or a send or toString returned
    crashed         \* a call dereferenced nullptr

vars == <<mem, m_position, m_size, m_cur, arg, out, crashed>>

Chunks(lens) == UNION {[1 .. n -> Bytes] : n \in lens}

\* Node numbers and offsets.
Nodes(m) == Len(m) \div BaseSize
NextNode(m, c) == IF c < Nodes(m) THEN c + 1 ELSE 0     \* Node::next
Cell(c, nbias) == (c - 1) * BaseSize + nbias + 1
NodeOfCell(i) == (i - 1) \div BaseSize + 1

(***************************************************************************)
(* The calls as operators on a record s of the fields above, so that a    *)
(* caller making several calls (writeStringF16, SocketStream::read) is one *)
(* action.  s.ok = FALSE: the call dereferenced nullptr; s.exc: it threw.  *)
(***************************************************************************)
Current == [mem |-> mem, pos |-> m_position, size |-> m_size, cur |-> m_cur,
            out |-> out, ok |-> TRUE, exc |-> FALSE]

Fault(s) == [s EXCEPT !.ok = FALSE]

\* The ByteArray(base_size) constructor: one node, m_cur = m_root.
Init ==
    /\ mem = [i \in 1 .. BaseSize |-> Undef]
    /\ m_position = 0
    /\ m_size = 0
    /\ m_cur = 1
    /\ arg = <<>>
    /\ out = <<>>
    /\ crashed = FALSE

\* addCapacity: append enough nodes for size more bytes after m_position;
\* m_cur moves to the first new node only when none were left.
AddCapacity(s, size) ==
    LET old == Len(s.mem) - s.pos          \* getCapacity()
        need == size - old
        add == need \div BaseSize + (IF need % BaseSize # 0 THEN 1 ELSE 0)
    IN  IF size = 0 \/ old > size THEN s
        ELSE [s EXCEPT !.mem = s.mem \o [i \in 1 .. add * BaseSize |-> Undef],
                       !.cur = IF old = 0 THEN Nodes(s.mem) + 1 ELSE s.cur]

\* write: copy from m_cur at offset m_position % m_baseSize, moving m_cur
\* to the next node only when bytes are left over (never when the copy
\* ends exactly at the end of a node).
Write(s, d) ==
    LET a == AddCapacity(s, Len(d))
        first == Cell(a.cur, a.pos % BaseSize)
        last == first + Len(d) - 1
    IN  IF Len(d) = 0 THEN s
        ELSE IF a.cur = 0 \/ last > Len(a.mem) THEN Fault(a)
        ELSE [a EXCEPT !.mem = [i \in DOMAIN a.mem |->
                                   IF first <= i /\ i <= last
                                   THEN d[i - first + 1] ELSE a.mem[i]],
                       !.cur = NodeOfCell(last),
                       !.pos = a.pos + Len(d),
                       !.size = IF a.pos + Len(d) > a.size
                                THEN a.pos + Len(d) ELSE a.size]

\* The copy loop of both read overloads: n bytes from m_cur at offset
\* m_position % m_baseSize; m_cur moves past a node the copy ends on.
ReadChain(s, n) ==
    LET first == Cell(s.cur, s.pos % BaseSize)
        last == first + n - 1
    IN  IF s.cur = 0 \/ last > Len(s.mem) THEN Fault(s)
        ELSE [s EXCEPT !.out = SubSeq(s.mem, first, last),
                       !.cur = IF n = 0 THEN s.cur
                               ELSE IF last % BaseSize = 0
                                    THEN NextNode(s.mem, NodeOfCell(last))
                                    ELSE NodeOfCell(last)]

\* read(buf, size): the copy, then m_position advances.
Read(s, n) == [ReadChain(s, n) EXCEPT !.pos = s.pos + n]

\* toString: read(buf, getReadSize(), m_position), which copies from
\* m_cur and moves it, but leaves m_position where it was.
ToString(s) ==
    IF s.size - s.pos = 0 THEN [s EXCEPT !.out = <<>>]
    ELSE ReadChain(s, s.size - s.pos)

\* setPosition: walk from m_root to the node of v (the next node, or
\* nullptr, when v ends a node).
SetPosition(s, v) ==
    [s EXCEPT !.pos = v,
              !.size = IF v > s.size THEN v ELSE s.size,
              !.cur = IF v \div BaseSize + 1 <= Nodes(s.mem)
                      THEN v \div BaseSize + 1 ELSE 0]

\* clear: free every node after m_root; m_root keeps its bytes.
Clear(s) ==
    [s EXCEPT !.mem = SubSeq(s.mem, 1, BaseSize), !.pos = 0, !.size = 0,
              !.cur = 1]

\* getWriteBuffers(buffers, len): addCapacity(len), then iovecs from m_cur
\* at offset m_position % m_baseSize covering len bytes.  recvmsg fills the
\* first Len(d) bytes of them; SocketStream::read then calls
\* setPosition(getPosition() + rt) when rt > 0.
RecvInto(s, len, d) ==
    LET a == AddCapacity(s, len)
        first == Cell(a.cur, a.pos % BaseSize)
        w == [a EXCEPT !.mem = [i \in DOMAIN a.mem |->
                                   IF first <= i /\ i < first + Len(d)
                                   THEN d[i - first + 1] ELSE a.mem[i]]]
    IN  IF a.cur = 0 \/ first + len - 1 > Len(a.mem) THEN Fault(a)
        ELSE IF Len(d) > 0 THEN SetPosition(w, a.pos + Len(d))
        ELSE w

\* The iovec loop of getReadBuffers(buffers, len), from node c with ncap
\* bytes left in it and len bytes still to cover; size is the len the call
\* started with.  The loop tests ncap >= size where it means ncap >= len:
\* a later node is then cut short only when it holds the whole request,
\* and otherwise len -= ncap wraps below zero and the loop runs on to the
\* end of the list.  Each step to the next node reads cur->size first.
\* TRUE when the loop ends without dereferencing nullptr.
RECURSIVE ReadIovsOk(_, _, _, _, _)
ReadIovsOk(m, c, ncap, len, size) ==
    IF ncap >= size THEN TRUE
    ELSE IF NextNode(m, c) = 0 THEN FALSE
    ELSE IF len < ncap THEN FALSE
    ELSE IF len = ncap THEN TRUE
    ELSE ReadIovsOk(m, NextNode(m, c), BaseSize, len - ncap, size)

\* SocketStream::write(ba, length): getReadBuffers(iovs, length) clamps the
\* length to getReadSize(); sendmsg sends the first k bytes of the iovecs
\* (those start at m_cur, offset m_position % m_baseSize); then
\* setPosition(getPosition() + rt).  An empty request sends nothing.
SendFrom(s, len, k) ==
    LET n == IF len > s.size - s.pos THEN s.size - s.pos ELSE len
        first == Cell(s.cur, s.pos % BaseSize)
    IN  IF n = 0 THEN s
        ELSE IF s.cur = 0 THEN Fault(s)
        ELSE IF ~ReadIovsOk(s.mem, s.cur, BaseSize - (s.pos % BaseSize), n, n)
        THEN Fault(s)
        ELSE SetPosition([s EXCEPT !.out = SubSeq(s.mem, first, first + k - 1)],
                         s.pos + k)

\* A SocketStream::write(ba, len) whose sendmsg returns 0 or -1: the
\* iovecs are built (and may fault) but setPosition is not called.
SendNothing(s, len) == IF SendFrom(s, len, 0).ok THEN s ELSE Fault(s)

\* Stream::readFixSize(ba, length) and writeFixSize(ba, length) call
\* SocketStream::read/write(ba, left) until left is 0 or a call returns
\* 0 or less.  The loops keep the int result in a size_t len: a call
\* returning -1 (the Socket is not connected, recvmsg or sendmsg failed)
\* passes the len <= 0 test, and left -= len wraps around to left + 1, so
\* the loop calls again and asks for one byte more.  rs are the results of
\* the successive calls: [rt |-> -1 or 0 or the bytes d received] for
\* reads, the counts sent for writes.  ended: the loop stops exactly after
\* the last of them; got: the bytes received or sent, in order.
RECURSIVE FixRead(_, _, _, _)
FixRead(s, left, rs, got) ==
    IF left = 0 \/ ~s.ok THEN [st |-> s, ended |-> rs = <<>>, got |-> got]
    ELSE IF rs = <<>> \/ Head(rs).rt > left
    THEN [st |-> s, ended |-> FALSE, got |-> got]
    ELSE LET r == Head(rs)
             t == RecvInto(s, left, r.d)
         IN  IF r.rt = 0 THEN [st |-> t, ended |-> Tail(rs) = <<>>, got |-> got]
             ELSE FixRead(t, IF r.rt < 0 THEN left + 1 ELSE left - r.rt,
                          Tail(rs), got \o r.d)

RECURSIVE FixWrite(_, _, _, _)
FixWrite(s, left, ks, got) ==
    LET n == IF left > s.size - s.pos THEN s.size - s.pos ELSE left
    IN  IF left = 0 \/ ~s.ok THEN [st |-> s, ended |-> ks = <<>>, got |-> got]
        ELSE IF ks = <<>> \/ Head(ks) > n
        THEN [st |-> s, ended |-> FALSE, got |-> got]
        ELSE IF Head(ks) <= 0
        THEN IF Head(ks) = 0
             THEN [st |-> SendNothing(s, left), ended |-> Tail(ks) = <<>>,
                   got |-> got]
             ELSE FixWrite(SendNothing(s, left), left + 1, Tail(ks), got)
        ELSE LET t == SendFrom(s, left, Head(ks))
             IN  FixWrite(t, left - Head(ks), Tail(ks), got \o t.out)

\* The results one SocketStream::read(ba, n) can return.
RecvResults(n) ==
    {[rt |-> r, d |-> <<>>] : r \in {-1, 0}} \cup
    {[rt |-> Len(d), d |-> d] : d \in Chunks(1 .. n)}

StreamRuns(R) == UNION {[1 .. c -> R] : c \in 1 .. StreamCalls}

(***************************************************************************)
(* Actions: one call of the program on the array.                          *)
(***************************************************************************)
Apply(s) ==
    /\ Len(s.mem) <= MaxCapacity
    /\ IF s.ok
       THEN /\ mem' = s.mem
            /\ m_position' = s.pos
            /\ m_size' = s.size
            /\ m_cur' = s.cur
            /\ out' = s.out
            /\ UNCHANGED crashed
       ELSE /\ crashed' = TRUE
            /\ UNCHANGED <<mem, m_position, m_size, m_cur, out>>

\* One write() of the bytes d.
WriteCall(d) ==
    /\ ~crashed
    /\ arg' = d
    /\ Apply(Write(Current, d))

\* writeFint8 .. writeFuint64, writeFloat, writeDouble: the value, byte-
\* swapped to big-endian, in one write() of its sizeof bytes.
WriteFixed(d) == Len(d) \in Widths /\ WriteCall(d)

\* EncodeZigzag32/64 for the small values checked (-num of INT_MIN is
\* not among them).
EncodeZigzag(v) == IF v < 0 THEN -2 * v - 1 ELSE 2 * v

\* The number of bytes writeUint32/64 emit: seven bits per byte, the top
\* bit set on all but the last.
RECURSIVE VarintLen(_)
VarintLen(v) == IF v >= 128 THEN 1 + VarintLen(v \div 128) ELSE 1

\* writeUint32/64(v) and writeInt32/64(v) (zigzag first): one write() of
\* the varint bytes.
WriteVarint(v, signed) ==
    /\ signed \/ v >= 0
    /\ \E d \in Chunks({VarintLen(IF signed THEN EncodeZigzag(v) ELSE v)}) :
           WriteCall(d)

\* The length field of each writeString variant for a string of n bytes.
FieldWidth(k, n) ==
    CASE k = "F16" -> 2 [] k = "F32" -> 4 [] k = "F64" -> 8
      [] k = "Vint" -> VarintLen(n)

\* The loop of readUint32/64: readFuint8, i.e. read() of one byte, at most
\* k more times, ending after a byte below 0x80; acc holds the bytes read
\* so far.  readFuint8 with no byte left throws out_of_range, and the
\* bytes the loop consumed before it stay consumed.
RECURSIVE VarintRead(_, _, _)
VarintRead(s, k, acc) ==
    IF k = 0 THEN [s EXCEPT !.out = acc]
    ELSE IF s.size - s.pos = 0 THEN [s EXCEPT !.out = acc, !.exc = TRUE]
    ELSE LET r == Read(s, 1)
         IN  IF ~r.ok THEN r
             ELSE IF r.out[1] \in HighBytes
                  THEN VarintRead(r, k - 1, acc \o r.out)
                  ELSE [r EXCEPT !.out = acc \o r.out]

\* for (i = 0; i < bits; i += 7): the most bytes a varint read takes.
VarintBytes(bits) == (bits + 6) \div 7

\* The length field of readStringF16/F32/F64 (readFuint16/32/64) and of
\* readStringVint (readUint64).
StringField(s, k) ==
    IF k = "Vint" THEN VarintRead(s, VarintBytes(64), <<>>)
    ELSE Read(s, FieldWidth(k, 0))

\* readString*: the field, then res.resize(len) and read(&res[0], len),
\* which throws when fewer than len bytes are left, the field consumed,
\* and otherwise reads through m_cur even when len is 0.
StringRead(s, k, len) ==
    LET f == StringField(s, k)
        r == Read(f, len)
    IN  IF ~f.ok \/ f.exc THEN f
        ELSE IF len > f.size - f.pos THEN [f EXCEPT !.exc = TRUE]
        ELSE [r EXCEPT !.out = f.out \o r.out]

\* writeStringF16/F32/F64/Vint: write() of the length field, then write()
\* of the characters.
WriteStringCall(p, d) ==
    /\ ~crashed
    /\ arg' = p \o d
    /\ Apply(Write(Write(Current, p), d))

\* readFint8 .. readFuint64, readFloat, readDouble: read() of sizeof
\* bytes, which throws when fewer are left.
ReadCall(n) ==
    /\ ~crashed
    /\ n <= m_size - m_position
    /\ UNCHANGED arg
    /\ Apply(Read(Current, n))

\* readUint32/64, and readInt32/64, which decode the same bytes with
\* DecodeZigzag32/64.
ReadVarintCall(bits) ==
    /\ ~crashed
    /\ UNCHANGED arg
    /\ Apply(VarintRead(Current, VarintBytes(bits), <<>>))

\* readStringF16/F32/F64/Vint whose length field decodes to len.  The
\* fixed-width field is one read(), which throws before changing anything
\* when the field is not all there.
ReadStringCall(k, len) ==
    /\ ~crashed
    /\ k # "Vint" => FieldWidth(k, 0) <= m_size - m_position
    /\ UNCHANGED arg
    /\ Apply(StringRead(Current, k, len))

ToStringCall ==
    /\ ~crashed
    /\ UNCHANGED arg
    /\ Apply(ToString(Current))

\* setPosition(v), which throws when v > m_capacity.
SetPositionCall(v) ==
    /\ ~crashed
    /\ v <= Len(mem)
    /\ UNCHANGED <<arg, out>>
    /\ Apply(SetPosition(Current, v))

ClearCall ==
    /\ ~crashed
    /\ UNCHANGED <<arg, out>>
    /\ Apply(Clear(Current))

\* SocketStream::read(ba, len) receiving d (rt <= 0: d = <<>>).
SocketRead(len, d) ==
    /\ ~crashed
    /\ arg' = IF d = <<>> THEN arg ELSE d
    /\ UNCHANGED out
    /\ Apply(RecvInto(Current, len, d))

\* SocketStream::write(ba, len) when sendmsg returns k > 0.
SocketWrite(len) ==
    /\ ~crashed
    /\ UNCHANGED arg
    /\ \E k \in 1 .. IF len > m_size - m_position THEN m_size - m_position
                     ELSE len :
           Apply(SendFrom(Current, len, k))

\* Stream::readFixSize(ba, length): the bytes land as one recv of all of them.
ReadFixSizeCall(length) ==
    /\ ~crashed
    /\ \E rs \in StreamRuns(RecvResults(length + StreamCalls - 1)) :
          LET f == FixRead(Current, length, rs, <<>>)
          IN  /\ f.ended
              /\ arg' = IF f.got = <<>> THEN arg ELSE f.got
              /\ UNCHANGED out
              /\ Apply(f.st)

\* Stream::writeFixSize(ba, length): out is everything the sends took.
WriteFixSizeCall(length) ==
    /\ ~crashed
    /\ UNCHANGED arg
    /\ \E ks \in StreamRuns(-1 .. length + StreamCalls - 1) :
          LET f == FixWrite(Current, length, ks, <<>>)
          IN  /\ f.ended
              /\ Apply([f.st EXCEPT !.out = f.got])

Next ==
    \/ \E d \in Chunks(Widths) : WriteFixed(d)
    \/ \E v \in VarintValues, signed \in BOOLEAN : WriteVarint(v, signed)
    \/ \E k \in LengthFields, d \in Chunks(Lengths) :
           \E p \in Chunks({FieldWidth(k, Len(d))}) : WriteStringCall(p, d)
    \/ \E d \in Chunks(Lengths) : WriteCall(d)     \* writeStringWithoutLength
    \/ \E n \in Widths : ReadCall(n)
    \/ \E bits \in {32, 64} : ReadVarintCall(bits)
    \/ \E k \in LengthFields, len \in 0 .. MaxCapacity : ReadStringCall(k, len)
    \/ ToStringCall
    \/ \E v \in 0 .. MaxCapacity : SetPositionCall(v)
    \/ ClearCall
    \/ \E len \in Lengths : \E d \in Chunks(0 .. len) : SocketRead(len, d)
    \/ \E len \in Lengths : SocketWrite(len)
    \/ \E len \in Lengths : ReadFixSizeCall(len)
    \/ \E len \in Lengths : WriteFixSizeCall(len)

Spec == Init /\ [][Next]_vars

TypeOK ==
    /\ Len(mem) \in {c * BaseSize : c \in 1 .. MaxCapacity \div BaseSize}
    /\ \A i \in DOMAIN mem : mem[i] \in Bytes \cup {Undef}
    /\ m_position \in 0 .. m_size
    /\ m_size \in 0 .. Len(mem)
    /\ m_cur \in 0 .. Nodes(mem)
    /\ crashed \in BOOLEAN

(***************************************************************************)
(* The array implements the flat buffer of ByteBuffer.tla: its bytes      *)
(* 1 .. m_size, m_position and the results of the calls are those of a     *)
(* byte string the same calls were made on, and no call faults.            *)
(***************************************************************************)
Buffer == INSTANCE ByteBuffer
              WITH data <- SubSeq(mem, 1, m_size), position <- m_position,
                   faulted <- crashed, MaxSize <- MaxCapacity

\* Every call on the ByteArray, alone or after any earlier calls, leaves
\* the bytes, the cursor and the returned bytes a flat buffer would have,
\* whatever m_cur was left pointing at by the calls before it.
BufferSpec == Buffer!BSpec

=============================================================================
