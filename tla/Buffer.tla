------------------------------- MODULE Buffer -------------------------------
(***************************************************************************)
(* lib-core/src/buffer.rs: bytes in one allocation, with a read position,  *)
(* free space behind them for prepare/commit, and the consumed bytes in    *)
(* front, which seek can bring back and write_front can overwrite.         *)
(*                                                                         *)
(* buf is the Buffer: the Vec's memory, its length and capacity, and rpos. *)
(* lent is how many bytes behind len the caller has filled through the     *)
(* slice that prepare returned; call is the last call and its result.      *)
(***************************************************************************)
EXTENDS Integers, Sequences

CONSTANTS
    Bytes,        \* what is written
    Junk,         \* memory never written
    MaxWrite,     \* bound: the longest slice written, read or prepared
    MaxCapacity   \* bound: the largest allocation

ASSUME BufferAssumption ==
    /\ MaxWrite \in Nat /\ MaxCapacity \in Nat
    /\ Junk \notin Bytes

VARIABLES buf, lent, call

vars == <<buf, lent, call>>

Cells == Bytes \cup {Junk}
Slices == UNION {[1..n -> Bytes] : n \in 0..MaxWrite}
Sizes == 0..MaxWrite

\* The last call: what was asked, and done, refused (false, None) or answered.
Did(op, arg) == [op |-> op, arg |-> arg, ok |-> TRUE, bytes |-> <<>>]
Refused(op, arg) == [Did(op, arg) EXCEPT !.ok = FALSE]
Got(op, arg, s) == [Did(op, arg) EXCEPT !.bytes = s]

\* The bytes at positions from..to-1 of the memory.
Span(b, from, to) == [i \in 1..(to - from) |-> b.mem[from + i - 1]]

Behind(b) == Span(b, 0, b.rpos)
Readable(b) == Span(b, b.rpos, b.len)

----------------------------------------------------------------------------
\* Vec::with_capacity and a growing Vec promise a capacity, and may give more.
Grow(b, required) ==
    {[b EXCEPT !.cap = c,
               !.mem = [i \in 0..(c - 1) |-> IF i < b.len THEN b.mem[i]
                                                          ELSE Junk]]
        : c \in required..MaxCapacity}

Reserve(b, n) == IF b.cap - b.len >= n THEN {b} ELSE Grow(b, b.len + n)

\* Copies bytes to position at; the caller has made sure of the space.
Store(b, at, s) ==
    [b EXCEPT !.mem = [i \in DOMAIN b.mem |->
                          IF i >= at /\ i < at + Len(s) THEN s[i - at + 1]
                                                        ELSE b.mem[i]]]

Push(b, s) == [Store(b, b.len, s) EXCEPT !.len = b.len + Len(s)]

\* As if the test for bytes to move were the wrong way round.
CompactWithoutMoving(b) == [b EXCEPT !.rpos = 0, !.len = b.len - b.rpos]

\* The readable bytes move to the front; what was consumed is forgotten.
Compact(b) ==
    LET count == b.len - b.rpos
    IN [b EXCEPT !.rpos = 0,
                 !.len = count,
                 !.mem = [i \in DOMAIN b.mem |->
                             IF i < count THEN b.mem[b.rpos + i]
                                          ELSE b.mem[i]]]

TailFree(b) == b.cap - b.len

\* As if the consumed bytes counted as free when the memory is grown.
GrowsByMissing(b, size) ==
    IF TailFree(b) >= size THEN {b}
    ELSE IF TailFree(b) + b.rpos >= size THEN {Compact(b)}
    ELSE Grow(b, b.len + size - b.rpos)

Prepared(b, size) ==
    IF TailFree(b) >= size THEN {b}
    ELSE IF TailFree(b) + b.rpos >= size THEN {Compact(b)}
    ELSE Grow(b, b.len + size)

----------------------------------------------------------------------------
Empty(c) == [rpos |-> 0, len |-> 0, cap |-> c,
             mem |-> [i \in 0..(c - 1) |-> Junk]]

\* new, with_capacity; from_slice and the From impls hold their bytes exactly.
Init ==
    /\ \/ \E c \in 0..MaxCapacity : buf = Empty(c)
       \/ \E s \in Slices : Len(s) <= MaxCapacity /\ buf = Push(Empty(Len(s)), s)
    /\ lent = 0
    /\ call = Did("new", 0)

WriteSlice(s) ==
    /\ \E b \in Prepared(buf, Len(s)) :
          \E r \in Reserve(b, Len(s)) : buf' = Push(r, s)
    /\ lent' = 0 /\ call' = Did("write", s)

\* write; and unsafe_write, which the caller may only use with space left.
Write(c) ==
    /\ \E r \in Reserve(buf, 1) : buf' = Push(r, <<c>>)
    /\ lent' = 0 /\ call' = Did("write", <<c>>)

UnsafeWrite(c) ==
    /\ buf.len < buf.cap
    /\ buf' = Push(buf, <<c>>)
    /\ lent' = 0 /\ call' = Did("write", <<c>>)

WriteFront(s) ==
    /\ IF Len(s) > buf.rpos
         THEN call' = Refused("front", s) /\ UNCHANGED buf
         ELSE /\ buf' = [Store(buf, buf.rpos - Len(s), s)
                            EXCEPT !.rpos = buf.rpos - Len(s)]
              /\ call' = Did("front", s)
    /\ UNCHANGED lent

WriteFrontByte(c) ==
    /\ IF buf.rpos = 0
         THEN call' = Refused("front", <<c>>) /\ UNCHANGED buf
         ELSE /\ buf' = [Store(buf, buf.rpos - 1, <<c>>)
                            EXCEPT !.rpos = buf.rpos - 1]
              /\ call' = Did("front", <<c>>)
    /\ UNCHANGED lent

Short(count) == buf.len < buf.rpos + count

Read(count) ==
    /\ IF Short(count)
         THEN call' = Refused("read", count) /\ UNCHANGED buf
         ELSE /\ call' = Got("read", count, Span(buf, buf.rpos, buf.rpos + count))
              /\ buf' = [buf EXCEPT !.rpos = @ + count]
    /\ UNCHANGED lent

\* consume says nothing when there is less; seek does.
Consume(count) ==
    /\ buf' = IF Short(count) THEN buf ELSE [buf EXCEPT !.rpos = @ + count]
    /\ call' = Did("consume", count)
    /\ UNCHANGED lent

SeekBack(n) ==
    /\ IF buf.rpos < n
         THEN call' = Refused("back", n) /\ UNCHANGED buf
         ELSE call' = Did("back", n) /\ buf' = [buf EXCEPT !.rpos = @ - n]
    /\ UNCHANGED lent

SeekForward(n) ==
    /\ IF Short(n)
         THEN call' = Refused("forward", n) /\ UNCHANGED buf
         ELSE call' = Did("forward", n) /\ buf' = [buf EXCEPT !.rpos = @ + n]
    /\ UNCHANGED lent

Clear ==
    /\ buf' = [buf EXCEPT !.rpos = 0, !.len = 0]
    /\ lent' = 0 /\ call' = Did("clear", 0)

\* prepare, and the caller fills the slice it got.
Prepare(s) ==
    /\ \E b \in Prepared(buf, Len(s)) : buf' = Store(b, b.len, s)
    /\ lent' = Len(s)
    /\ call' = Did("prepare", s)

Commit(n) ==
    IF buf.len + n > buf.cap
      THEN call' = Refused("commit", n) /\ UNCHANGED <<buf, lent>>
      ELSE /\ buf' = [buf EXCEPT !.len = @ + n]
           /\ lent' = IF lent > n THEN lent - n ELSE 0
           /\ call' = Did("commit", n)

\* The assertion in revert is the caller's obligation.
Revert(n) ==
    /\ buf.len >= buf.rpos + n
    /\ buf' = [buf EXCEPT !.len = @ - n]
    /\ lent' = 0 /\ call' = Did("revert", n)

\* read_u8 .. read_u32, least significant byte first, on a little-endian
\* host; within the readable bytes, which the callers see to.
Flip(s) == [i \in DOMAIN s |-> s[Len(s) + 1 - i]]

ReadInt(pos, width, le) ==
    /\ pos + width <= buf.len - buf.rpos
    /\ LET s == Span(buf, buf.rpos + pos, buf.rpos + pos + width)
       IN call' = Got(IF le THEN "le" ELSE "be", <<pos, width>>, IF le THEN s ELSE Flip(s))
    /\ UNCHANGED <<buf, lent>>

Next ==
    \/ \E s \in Slices : WriteSlice(s) \/ WriteFront(s) \/ Prepare(s)
    \/ \E c \in Bytes : Write(c) \/ UnsafeWrite(c) \/ WriteFrontByte(c)
    \/ \E n \in Sizes : \/ Read(n) \/ Consume(n) \/ SeekBack(n) \/ SeekForward(n)
                        \/ Commit(n) \/ Revert(n)
    \/ Clear
    \/ \E pos \in Sizes, width \in {1, 2, 4}, le \in BOOLEAN :
          ReadInt(pos, width, le)

Spec == Init /\ [][Next]_vars

----------------------------------------------------------------------------
\* No access leaves the allocation: the read position, the end of the bytes
\* and the slice lent to the caller by prepare all lie within it, whatever
\* mixture of compaction and growth made the room.
InBounds ==
    /\ 0 <= buf.rpos /\ buf.rpos <= buf.len
    /\ buf.len + lent <= buf.cap
    /\ DOMAIN buf.mem = 0..(buf.cap - 1)

\* The buffer is a tape of bytes: what is read is what was written, in that
\* order; moving and growing the memory loses nothing that is readable; bytes
\* sought back are those consumed; a commit brings what was filled in.
Tape == INSTANCE ByteTape
          WITH behind <- Behind(buf), content <- Readable(buf),
               staged <- Span(buf, buf.len, buf.len + lent)

ImplementsTape == Tape!Spec
=============================================================================
