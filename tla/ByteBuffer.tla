----------------------------- MODULE ByteBuffer -----------------------------
(***************************************************************************)
(* What a ByteArray (src/server/bytearray.h) promises its callers: a flat  *)
(* byte string with a cursor.  Writes overwrite from the cursor and extend *)
(* the string, reads and sends take bytes from the cursor, toString peeks  *)
(* at everything after the cursor, setPosition moves the cursor (exposing  *)
(* unspecified bytes when it moves past the end), clear empties it.  None  *)
(* of these calls faults on a call its own preconditions admit.            *)
(*                                                                         *)
(* ByteArray.tla, which keeps the linked list of fixed-size nodes and the  *)
(* cached node pointer m_cur, is checked to implement this module.         *)
(***************************************************************************)
EXTENDS Naturals, Sequences

CONSTANTS
    Bytes,          \* byte values the program writes
    Undef,          \* a byte nobody wrote
    MaxSize         \* the longest the string gets

VARIABLES
    data,           \* the bytes 1 .. m_size
    position,       \* m_position
    arg,            \* the bytes the last write or recv was given
    out,            \* the bytes the last read, send or toString returned
    faulted         \* the process died inside a call

bvars == <<data, position, arg, out, faulted>>

\* Byte strings of the given lengths.
Chunks(lens, vals) == UNION {[1 .. n -> vals] : n \in lens}

\* data with d written over it from position p on, extended as needed.
Overwrite(s, p, d) ==
    [i \in 1 .. IF p + Len(d) > Len(s) THEN p + Len(d) ELSE Len(s) |->
        IF p < i /\ i <= p + Len(d) THEN d[i - p] ELSE s[i]]

BInit ==
    /\ data = <<>>
    /\ position = 0
    /\ arg = <<>>
    /\ out = <<>>
    /\ faulted = FALSE

BWrite ==
    \E d \in Chunks(1 .. MaxSize, Bytes) :
        /\ arg' = d
        /\ data' = Overwrite(data, position, d)
        /\ position' = position + Len(d)
        /\ UNCHANGED <<out, faulted>>

BTake ==
    \E k \in 0 .. Len(data) - position :
        /\ out' = SubSeq(data, position + 1, position + k)
        /\ position' = position + k
        /\ UNCHANGED <<data, arg, faulted>>

BPeek ==
    /\ out' = SubSeq(data, position + 1, Len(data))
    /\ UNCHANGED <<data, position, arg, faulted>>

BSeek ==
    \E v \in 0 .. MaxSize :
        /\ position' = v
        /\ \/ v <= Len(data) /\ data' = data
           \/ v > Len(data) /\ \E e \in [1 .. v - Len(data) -> Bytes \cup {Undef}] :
                                   data' = data \o e
        /\ UNCHANGED <<arg, out, faulted>>

BClear ==
    /\ data' = <<>>
    /\ position' = 0
    /\ UNCHANGED <<arg, out, faulted>>

\* BSeek last: it enumerates the bytes it exposes.
BNext == BWrite \/ BTake \/ BPeek \/ BClear \/ BSeek

BSpec == BInit /\ [][BNext]_bvars

=============================================================================
