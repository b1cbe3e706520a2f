--------------------------- MODULE Buffer_proofs ----------------------------
(***************************************************************************)
(* InBounds for every set of bytes, every length of slice and every        *)
(* capacity, and the proof that the buffer implements ByteTape. InBounds   *)
(* is inductive together with the types: what is needed of the operators   *)
(* that make room is that they keep the positions in order and that the    *)
(* room is there afterwards. The refinement needs in addition what they    *)
(* leave in memory: it is stated span by span (Span), and every operation  *)
(* is a statement about at most four spans of the block.                   *)
(***************************************************************************)
EXTENDS Buffer, SequenceTheorems, TLAPS

\* The contents of a block.
Memories == UNION {[0..(c - 1) -> Cells] : c \in Nat}

\* A buffer whose positions lie within its allocation.
Sound(b) ==
    /\ b \in [rpos : Nat, len : Nat, cap : Nat, mem : Memories]
    /\ b.rpos <= b.len /\ b.len <= b.cap
    /\ DOMAIN b.mem = 0..(b.cap - 1)

\* The inductive invariant: what is lent lies in the block as well.
IInv ==
    /\ Sound(buf)
    /\ lent \in Nat
    /\ buf.len + lent <= buf.cap

----------------------------------------------------------------------------
\* A slice is a sequence of bytes (Slices), no longer than the bound.
LEMMA SliceLength ==
    ASSUME NEW s \in Slices
    PROVE  /\ Len(s) \in Nat
           /\ DOMAIN s = 1..Len(s)
           /\ \A i \in 1..Len(s) : s[i] \in Bytes
           /\ s \in Seq(Bytes)
  <1>1. PICK n \in 0..MaxWrite : s \in [1..n -> Bytes]
    BY DEF Slices
  <1>2. n \in Nat
    BY <1>1, BufferAssumption
  <1>3. s \in Seq(Bytes)
    BY <1>1, <1>2
  <1> QED
    BY <1>1, <1>2, <1>3

\* A single byte is a slice for these purposes (write, write_front_byte).
LEMMA OneByte ==
    ASSUME NEW c \in Bytes
    PROVE  /\ Len(<<c>>) = 1
           /\ \A i \in 1..Len(<<c>>) : <<c>>[i] \in Bytes
  OBVIOUS

\* Growing (Vec::reserve) keeps the positions and makes the required room.
LEMMA Grows ==
    ASSUME NEW b, Sound(b), NEW required \in Nat, b.len <= required,
           NEW r \in Grow(b, required)
    PROVE  Sound(r) /\ r.rpos = b.rpos /\ r.len = b.len /\ required <= r.cap
  <1>1. PICK c \in required..MaxCapacity :
          r = [b EXCEPT !.cap = c,
                        !.mem = [i \in 0..(c - 1) |-> IF i < b.len THEN b.mem[i]
                                                                   ELSE Junk]]
    BY DEF Grow
  <1>2. c \in Nat /\ required <= c
    BY <1>1, BufferAssumption
  <1> DEFINE m == [i \in 0..(c - 1) |-> IF i < b.len THEN b.mem[i] ELSE Junk]
  <1>3. m \in Memories
    <2>1. ASSUME NEW i \in 0..(c - 1), i < b.len
          PROVE  b.mem[i] \in Cells
      BY <2>1, <1>2 DEF Sound, Memories
    <2>2. Junk \in Cells
      BY DEF Cells
    <2>3. m \in [0..(c - 1) -> Cells]
      BY <2>1, <2>2
    <2> QED
      BY <2>3, <1>2 DEF Memories
  <1>4. /\ r.cap = c /\ r.rpos = b.rpos /\ r.len = b.len /\ r.mem = m
        /\ r \in [rpos : Nat, len : Nat, cap : Nat, mem : Memories]
    BY <1>1, <1>2, <1>3 DEF Sound
  <1> QED
    BY <1>2, <1>4 DEF Sound

\* A buffer that starts at position 0 again (compact, clear).
LEMMA Resets ==
    ASSUME NEW b, Sound(b), NEW n \in Nat, n <= b.cap,
           NEW m \in Memories, DOMAIN m = DOMAIN b.mem,
           NEW r, r = [b EXCEPT !.rpos = 0, !.len = n, !.mem = m]
    PROVE  Sound(r) /\ r.len = n /\ r.cap = b.cap
  <1>1. Sound(b) /\ 0 \in Nat /\ 0 <= n
    OBVIOUS
  <1>2. /\ r.rpos = 0 /\ r.len = n /\ r.cap = b.cap /\ r.mem = m
        /\ r \in [rpos : Nat, len : Nat, cap : Nat, mem : Memories]
    BY <1>1 DEF Sound
  <1> QED
    BY <1>1, <1>2 DEF Sound

\* Copying bytes into the allocation (copy_from_slice) moves no position.
LEMMA Stores ==
    ASSUME NEW b, Sound(b), NEW at \in Nat, NEW s,
           Len(s) \in Nat, \A i \in 1..Len(s) : s[i] \in Bytes
    PROVE  /\ Sound(Store(b, at, s))
           /\ Store(b, at, s).rpos = b.rpos
           /\ Store(b, at, s).len = b.len
           /\ Store(b, at, s).cap = b.cap
  <1> DEFINE m == [i \in DOMAIN b.mem |->
                     IF i >= at /\ i < at + Len(s) THEN s[i - at + 1]
                                                   ELSE b.mem[i]]
  <1>1. \A i \in DOMAIN b.mem : m[i] \in Cells
    <2>1. ASSUME NEW i \in DOMAIN b.mem, i >= at /\ i < at + Len(s)
          PROVE  s[i - at + 1] \in Cells
      <3>1. i \in Int
        BY DEF Sound
      <3>2. i - at + 1 \in 1..Len(s)
        BY <2>1, <3>1
      <3> QED
        BY <3>2 DEF Cells
    <2>2. ASSUME NEW i \in DOMAIN b.mem
          PROVE  b.mem[i] \in Cells
      BY DEF Sound, Memories
    <2> QED
      BY <2>1, <2>2
  <1>2. m \in Memories
    <2>1. DOMAIN m = 0..(b.cap - 1) /\ b.cap \in Nat
      BY DEF Sound
    <2>2. m \in [0..(b.cap - 1) -> Cells]
      BY <1>1, <2>1
    <2> QED
      BY <2>1, <2>2 DEF Memories
  <1> QED
    BY <1>2 DEF Store, Sound

\* Appending where there is room moves the end of the bytes, within the room.
LEMMA Pushes ==
    ASSUME NEW b, Sound(b), NEW s,
           Len(s) \in Nat, \A i \in 1..Len(s) : s[i] \in Bytes,
           b.len + Len(s) <= b.cap
    PROVE  Sound(Push(b, s))
  <1>1. b.len \in Nat
    BY DEF Sound
  <1>2. /\ Sound(Store(b, b.len, s))
        /\ Store(b, b.len, s).rpos = b.rpos
        /\ Store(b, b.len, s).cap = b.cap
    BY <1>1, Stores
  <1> DEFINE t == Store(b, b.len, s)
  <1> HIDE DEF t
  <1>3. Push(b, s) = [t EXCEPT !.len = b.len + Len(s)]
    BY DEF Push, t
  <1>4. Sound(t) /\ t.rpos = b.rpos /\ t.cap = b.cap
    BY <1>2 DEF t
  <1> QED
    BY <1>1, <1>3, <1>4 DEF Sound

\* Vec::reserve: the room is there afterwards.
LEMMA Reserves ==
    ASSUME NEW b, Sound(b), NEW n \in Nat, NEW r \in Reserve(b, n)
    PROVE  Sound(r) /\ r.rpos = b.rpos /\ r.len = b.len /\ r.len + n <= r.cap
  <1>1. b.len \in Nat /\ b.cap \in Nat
    BY DEF Sound
  <1>2. CASE b.cap - b.len >= n
    BY <1>1, <1>2 DEF Reserve
  <1>3. CASE ~(b.cap - b.len >= n)
    <2>1. r \in Grow(b, b.len + n)
      BY <1>3 DEF Reserve
    <2> QED
      BY <1>1, <2>1, Grows
  <1> QED
    BY <1>2, <1>3

\* Moving the readable bytes to the front turns what was consumed into room.
LEMMA Compacts ==
    ASSUME NEW b, Sound(b)
    PROVE  /\ Sound(Compact(b))
           /\ Compact(b).len = b.len - b.rpos
           /\ Compact(b).cap = b.cap
  <1> DEFINE m == [i \in DOMAIN b.mem |->
                     IF i < b.len - b.rpos THEN b.mem[b.rpos + i] ELSE b.mem[i]]
  <1>1. /\ b.rpos \in Nat /\ b.len \in Nat /\ b.cap \in Nat
        /\ b.rpos <= b.len /\ b.len <= b.cap
        /\ DOMAIN b.mem = 0..(b.cap - 1)
    BY DEF Sound
  <1>2. \A i \in DOMAIN b.mem : b.mem[i] \in Cells
    BY DEF Sound, Memories
  <1>3. ASSUME NEW i \in 0..(b.cap - 1), i < b.len - b.rpos
        PROVE  b.rpos + i \in DOMAIN b.mem
    BY <1>1, <1>3
  <1>4. m \in [0..(b.cap - 1) -> Cells]
    BY <1>1, <1>2, <1>3
  <1>5. m \in Memories
    BY <1>1, <1>4 DEF Memories
  <1> DEFINE count == b.len - b.rpos
  <1>6. Compact(b) = [b EXCEPT !.rpos = 0, !.len = count, !.mem = m]
    BY DEF Compact
  <1>7. m \in Memories /\ DOMAIN m = DOMAIN b.mem
    BY <1>1, <1>5
  <1>8. count \in Nat /\ count <= b.cap
    BY <1>1
  <1> HIDE DEF m, count
  <1>9. ASSUME NEW r, r = [b EXCEPT !.rpos = 0, !.len = count, !.mem = m]
        PROVE  Sound(r) /\ r.len = count /\ r.cap = b.cap
    <2>1. Sound(b) /\ 0 \in Nat /\ 0 <= count
      BY <1>8
    <2>2. /\ r.rpos = 0 /\ r.len = count /\ r.cap = b.cap /\ r.mem = m
          /\ r \in [rpos : Nat, len : Nat, cap : Nat, mem : Memories]
      BY <1>7, <1>8, <1>9, <2>1 DEF Sound
    <2> QED
      BY <1>7, <1>8, <2>1, <2>2 DEF Sound
  <1>10. Sound(Compact(b)) /\ Compact(b).len = count /\ Compact(b).cap = b.cap
    BY <1>6, <1>9, Zenon
  <1> QED
    BY <1>10 DEF count

\* prepare, whichever way it takes, returns with the room it was asked for.
LEMMA Prepares ==
    ASSUME NEW b, Sound(b), NEW n \in Nat, NEW r \in Prepared(b, n)
    PROVE  Sound(r) /\ r.len + n <= r.cap
  <1>1. b.rpos \in Nat /\ b.len \in Nat /\ b.cap \in Nat
    BY DEF Sound
  <1>2. CASE TailFree(b) >= n
    BY <1>1, <1>2 DEF Prepared, TailFree
  <1>3. CASE ~(TailFree(b) >= n) /\ TailFree(b) + b.rpos >= n
    <2>1. r = Compact(b)
      BY <1>3 DEF Prepared
    <2> QED
      BY <1>1, <1>3, <2>1, Compacts DEF TailFree
  <1>4. CASE ~(TailFree(b) >= n) /\ ~(TailFree(b) + b.rpos >= n)
    <2>1. r \in Grow(b, b.len + n)
      BY <1>4 DEF Prepared
    <2> QED
      BY <1>1, <2>1, Grows
  <1> QED
    BY <1>2, <1>3, <1>4

----------------------------------------------------------------------------
\* Every constructor makes a buffer whose positions are in order.
LEMMA InitSound == Init => IInv
  <1>1. ASSUME NEW c \in Nat
        PROVE  Sound(Empty(c))
    <2>1. [i \in 0..(c - 1) |-> Junk] \in Memories
      BY DEF Memories, Cells
    <2> QED
      BY <2>1 DEF Empty, Sound
  <1>2. ASSUME NEW s \in Slices
        PROVE  Sound(Push(Empty(Len(s)), s))
    <2>1. Len(s) \in Nat /\ \A i \in 1..Len(s) : s[i] \in Bytes
      BY SliceLength
    <2>2. Sound(Empty(Len(s))) /\ Empty(Len(s)).len = 0 /\ Empty(Len(s)).cap = Len(s)
      BY <1>1, <2>1 DEF Empty
    <2> QED
      BY <2>1, <2>2, Pushes
  <1>3. ASSUME Init PROVE Sound(buf)
    <2>1. CASE \E c \in 0..MaxCapacity : buf = Empty(c)
      BY <1>1, <2>1, BufferAssumption
    <2>2. CASE \E s \in Slices : buf = Push(Empty(Len(s)), s)
      BY <1>2, <2>2
    <2> QED
      BY <1>3, <2>1, <2>2 DEF Init
  <1>4. ASSUME Init PROVE IInv
    <2>1. lent = 0 /\ Sound(buf)
      BY <1>3, <1>4 DEF Init
    <2> QED
      BY <2>1 DEF IInv, Sound
  <1> QED
    BY <1>4

\* With no slice lent, a sound buffer is all there is to show.
LEMMA NothingLent ==
    ASSUME Sound(buf'), lent' = 0
    PROVE  IInv'
  BY DEF IInv, Sound

\* The calls that append: write_slice, write, unsafe_write.
LEMMA AppendingStep ==
    ASSUME IInv,
           \/ \E s \in Slices : WriteSlice(s)
           \/ \E c \in Bytes : Write(c) \/ UnsafeWrite(c)
    PROVE  IInv'
  <1>1. Sound(buf)
    BY DEF IInv
  <1>2. ASSUME NEW s \in Slices, WriteSlice(s) PROVE IInv'
    <2>1. Len(s) \in Nat /\ \A i \in 1..Len(s) : s[i] \in Bytes
      BY SliceLength
    <2>2. PICK b \in Prepared(buf, Len(s)) :
            \E r \in Reserve(b, Len(s)) : buf' = Push(r, s)
      BY <1>2 DEF WriteSlice
    <2>3. Sound(b)
      BY <1>1, <2>1, Prepares
    <2>4. PICK r \in Reserve(b, Len(s)) : buf' = Push(r, s)
      BY <2>2
    <2>5. Sound(r) /\ r.len + Len(s) <= r.cap
      BY <2>1, <2>3, Reserves
    <2>6. Sound(buf')
      BY <2>1, <2>4, <2>5, Pushes
    <2> QED
      BY <1>2, <2>6, NothingLent DEF WriteSlice
  <1>3. ASSUME NEW c \in Bytes, Write(c) PROVE IInv'
    <2>1. Len(<<c>>) = 1 /\ \A i \in 1..Len(<<c>>) : <<c>>[i] \in Bytes
      BY OneByte
    <2>2. PICK r \in Reserve(buf, 1) : buf' = Push(r, <<c>>)
      BY <1>3 DEF Write
    <2>3. Sound(r) /\ r.len + 1 <= r.cap
      BY <1>1, Reserves
    <2>4. Sound(buf')
      BY <2>1, <2>2, <2>3, Pushes
    <2> QED
      BY <1>3, <2>4, NothingLent DEF Write
  <1>4. ASSUME NEW c \in Bytes, UnsafeWrite(c) PROVE IInv'
    <2>1. Len(<<c>>) = 1 /\ \A i \in 1..Len(<<c>>) : <<c>>[i] \in Bytes
      BY OneByte
    <2>2. buf.len + 1 <= buf.cap
      BY <1>1, <1>4 DEF UnsafeWrite, Sound
    <2>3. Sound(Push(buf, <<c>>))
      BY <1>1, <2>1, <2>2, Pushes
    <2> QED
      BY <1>4, <2>3, NothingLent DEF UnsafeWrite
  <1> QED
    BY <1>2, <1>3, <1>4

\* The calls that write in front: write_front, write_front_byte.
LEMMA FrontStep ==
    ASSUME IInv,
           \/ \E s \in Slices : WriteFront(s)
           \/ \E c \in Bytes : WriteFrontByte(c)
    PROVE  IInv'
  <1>1. Sound(buf) /\ buf.rpos \in Nat /\ buf.len \in Nat /\ lent \in Nat
    BY DEF IInv, Sound
  <1>2. ASSUME NEW s, NEW n \in Nat, n <= buf.rpos, Len(s) = n,
               \A i \in 1..Len(s) : s[i] \in Bytes,
               buf' = [Store(buf, buf.rpos - n, s) EXCEPT !.rpos = buf.rpos - n],
               lent' = lent
        PROVE  IInv'
    <2> DEFINE t == Store(buf, buf.rpos - n, s)
    <2>1. buf.rpos - n \in Nat
      BY <1>1, <1>2
    <2>2. Sound(t) /\ t.rpos = buf.rpos /\ t.len = buf.len /\ t.cap = buf.cap
      BY <1>1, <1>2, <2>1, Stores
    <2> HIDE DEF t
    <2>3. buf' = [t EXCEPT !.rpos = buf.rpos - n]
      BY <1>2 DEF t
    <2>4. Sound(buf') /\ buf'.len = buf.len /\ buf'.cap = buf.cap
      BY <1>1, <1>2, <2>1, <2>2, <2>3 DEF Sound
    <2> QED
      BY <1>2, <2>4 DEF IInv
  <1>3. ASSUME UNCHANGED <<buf, lent>> PROVE IInv'
    BY <1>3 DEF IInv, Sound
  <1>4. ASSUME NEW s \in Slices, WriteFront(s) PROVE IInv'
    <2>1. Len(s) \in Nat /\ \A i \in 1..Len(s) : s[i] \in Bytes
      BY SliceLength
    <2>2. CASE Len(s) > buf.rpos
      BY <1>3, <1>4, <2>2 DEF WriteFront
    <2>3. CASE ~(Len(s) > buf.rpos)
      <3>1. Len(s) <= buf.rpos
        BY <1>1, <2>1, <2>3
      <3> QED
        BY <1>2, <1>4, <2>1, <2>3, <3>1 DEF WriteFront
    <2> QED
      BY <2>2, <2>3
  <1>5. ASSUME NEW c \in Bytes, WriteFrontByte(c) PROVE IInv'
    <2>1. Len(<<c>>) = 1 /\ \A i \in 1..Len(<<c>>) : <<c>>[i] \in Bytes
      BY OneByte
    <2>2. CASE buf.rpos = 0
      BY <1>3, <1>5, <2>2 DEF WriteFrontByte
    <2>3. CASE ~(buf.rpos = 0)
      <3>1. 1 <= buf.rpos
        BY <1>1, <2>3
      <3> QED
        BY <1>2, <1>5, <2>1, <2>3, <3>1 DEF WriteFrontByte
    <2> QED
      BY <2>2, <2>3
  <1> QED
    BY <1>4, <1>5

\* The calls that only move a position.
LEMMA MovingStep ==
    ASSUME IInv, NEW n \in Sizes,
           Read(n) \/ Consume(n) \/ SeekBack(n) \/ SeekForward(n)
             \/ Commit(n) \/ Revert(n)
    PROVE  IInv'
  <1>1. n \in Nat
    BY BufferAssumption DEF Sizes
  <1>2. UNCHANGED <<buf, lent>> => IInv'
    BY DEF IInv, Sound
  <1>3. ASSUME buf.len >= buf.rpos + n, buf' = [buf EXCEPT !.rpos = @ + n], lent' = lent
        PROVE  IInv'
    BY <1>1, <1>3 DEF IInv, Sound
  <1>4. ~Short(n) => buf.len >= buf.rpos + n
    BY <1>1 DEF Short, IInv, Sound
  <1>5. CASE Read(n)
    BY <1>2, <1>3, <1>4, <1>5 DEF Read
  <1>6. CASE Consume(n)
    BY <1>2, <1>3, <1>4, <1>6 DEF Consume
  <1>7. CASE SeekForward(n)
    BY <1>2, <1>3, <1>4, <1>7 DEF SeekForward
  <1>8. CASE SeekBack(n)
    <2>1. CASE buf.rpos < n
      BY <1>2, <1>8, <2>1 DEF SeekBack
    <2>2. CASE ~(buf.rpos < n)
      <3>1. buf' = [buf EXCEPT !.rpos = @ - n] /\ lent' = lent
        BY <1>8, <2>2 DEF SeekBack
      <3> QED
        BY <1>1, <2>2, <3>1 DEF IInv, Sound
    <2> QED
      BY <2>1, <2>2
  <1>9. CASE Commit(n)
    <2>1. CASE buf.len + n > buf.cap
      BY <1>2, <1>9, <2>1 DEF Commit
    <2>2. CASE ~(buf.len + n > buf.cap)
      <3>1. /\ buf' = [buf EXCEPT !.len = @ + n]
            /\ lent' = IF lent > n THEN lent - n ELSE 0
        BY <1>9, <2>2 DEF Commit
      <3> QED
        BY <1>1, <2>2, <3>1 DEF IInv, Sound
    <2> QED
      BY <2>1, <2>2
  <1>10. CASE Revert(n)
    BY <1>1, <1>10 DEF Revert, IInv, Sound
  <1> QED
    BY <1>5, <1>6, <1>7, <1>8, <1>9, <1>10

\* prepare lends exactly the room it has made.
LEMMA PreparingStep ==
    ASSUME IInv, NEW s \in Slices, Prepare(s)
    PROVE  IInv'
  <1>1. Len(s) \in Nat /\ \A i \in 1..Len(s) : s[i] \in Bytes
    BY SliceLength
  <1>2. PICK b \in Prepared(buf, Len(s)) : buf' = Store(b, b.len, s)
    BY DEF Prepare
  <1>3. Sound(b) /\ b.len + Len(s) <= b.cap
    BY <1>1, Prepares DEF IInv
  <1>4. b.len \in Nat
    BY <1>3 DEF Sound
  <1>5. Sound(buf') /\ buf'.len = b.len /\ buf'.cap = b.cap
    BY <1>1, <1>2, <1>3, <1>4, Stores
  <1> QED
    BY <1>1, <1>3, <1>5 DEF Prepare, IInv

\* No call takes a position out of its place.
LEMMA StepSound == IInv /\ [Next]_vars => IInv'
  <1> SUFFICES ASSUME IInv, [Next]_vars PROVE IInv'
    OBVIOUS
  <1>1. CASE \E s \in Slices : WriteSlice(s)
    BY <1>1, AppendingStep
  <1>2. CASE \E c \in Bytes : Write(c) \/ UnsafeWrite(c)
    BY <1>2, AppendingStep
  <1>3. CASE \E s \in Slices : WriteFront(s)
    BY <1>3, FrontStep
  <1>4. CASE \E c \in Bytes : WriteFrontByte(c)
    BY <1>4, FrontStep
  <1>5. CASE \E s \in Slices : Prepare(s)
    BY <1>5, PreparingStep
  <1>6. CASE \E n \in Sizes : \/ Read(n) \/ Consume(n) \/ SeekBack(n)
                              \/ SeekForward(n) \/ Commit(n) \/ Revert(n)
    BY <1>6, MovingStep
  <1>7. CASE Clear
    <2>1. buf' = [buf EXCEPT !.rpos = 0, !.len = 0] /\ lent' = 0
      BY <1>7 DEF Clear
    <2>2. buf.mem \in Memories /\ buf.cap \in Nat /\ Sound(buf)
      BY DEF IInv, Sound
    <2>3. buf' = [buf EXCEPT !.rpos = 0, !.len = 0, !.mem = buf.mem]
      BY <2>1, <2>2 DEF Sound
    <2>4. 0 <= buf.cap
      BY <2>2
    <2>5. Sound(buf')
      BY ONLY <2>2, <2>3, <2>4, Resets
    <2> QED
      BY <2>1, <2>5, NothingLent
  <1>8. CASE \E pos \in Sizes, width \in {1, 2, 4}, le \in BOOLEAN :
               ReadInt(pos, width, le)
    <2>1. UNCHANGED <<buf, lent>>
      BY <1>8 DEF ReadInt
    <2> QED
      BY <2>1 DEF IInv, Sound
  <1>9. CASE UNCHANGED vars
    BY <1>9 DEF vars, IInv, Sound
  <1> QED
    BY <1>1, <1>2, <1>3, <1>4, <1>5, <1>6, <1>7, <1>8, <1>9 DEF Next

----------------------------------------------------------------------------
\* No access leaves the allocation: whatever mixture of compaction and growth
\* prepare and reserve choose, and however much the Vec over-allocates, the
\* read position, the end of the bytes and the lent slice lie within it.
THEOREM AlwaysInBounds == Spec => []InBounds
  <1>1. IInv => InBounds
    BY DEF IInv, Sound, InBounds
  <1> QED
    BY <1>1, InitSound, StepSound, PTL DEF Spec

----------------------------------------------------------------------------
\* What the caller has filled in behind the bytes (prepare).
Staged == Span(buf, buf.len, buf.len + lent)

\* The parts of a sound buffer, whatever its memory holds.
LEMMA Parts ==
    ASSUME NEW b, Sound(b)
    PROVE  /\ b.rpos \in Nat /\ b.len \in Nat /\ b.cap \in Nat
           /\ b.rpos <= b.len /\ b.len <= b.cap
           /\ DOMAIN b.mem = 0..(b.cap - 1)
           /\ \A k \in 0..(b.cap - 1) : b.mem[k] \in Cells
BY DEF Sound, Memories

\* A span of the memory is a sequence of cells.
LEMMA Spans ==
    ASSUME NEW b, Sound(b), NEW x \in Nat, NEW z \in Nat, x <= z, z <= b.cap
    PROVE  /\ Span(b, x, z) \in Seq(Cells)
           /\ Len(Span(b, x, z)) = z - x
           /\ \A i \in 1..(z - x) : Span(b, x, z)[i] = b.mem[x + i - 1]
<1> DEFINE n == z - x
           f == [i \in 1..n |-> b.mem[x + i - 1]]
<1>1. n \in Nat
  OBVIOUS
<1>2. ASSUME NEW i \in 1..n PROVE b.mem[x + i - 1] \in Cells
  <2>1. x + i - 1 \in 0..(b.cap - 1)
    BY Parts
  <2> QED  BY <2>1, Parts
<1>3. Span(b, x, z) = f
  BY DEF Span
<1>4. f \in [1..n -> Cells]
  BY <1>2
<1> HIDE DEF n
<1>5. f \in Seq(Cells) /\ Len(f) = n
  <2> HIDE DEF f
  <2> QED  BY <1>1, <1>4
<1>6. \A i \in 1..n : f[i] = b.mem[x + i - 1]
  OBVIOUS
<1> QED  BY <1>3, <1>5, <1>6 DEF n

\* A sequence with the cells of a span is that span.
LEMMA IsSpan ==
    ASSUME NEW b, Sound(b), NEW x \in Nat, NEW z \in Nat, x <= z, z <= b.cap,
           NEW s \in Seq(Cells), Len(s) = z - x,
           \A i \in 1..(z - x) : s[i] = b.mem[x + i - 1]
    PROVE  Span(b, x, z) = s
<1> DEFINE t == Span(b, x, z)
<1>1. /\ t \in Seq(Cells) /\ Len(t) = z - x
      /\ \A i \in 1..(z - x) : t[i] = b.mem[x + i - 1]
  BY Spans
<1> HIDE DEF t
<1>2. Len(t) = Len(s) /\ \A i \in 1..Len(t) : t[i] = s[i]
  BY <1>1
<1>3. t = s
  BY <1>1, <1>2, SeqEqual
<1> QED  BY <1>3 DEF t

\* Buffer c has from y on the n cells that b has from x on.
SameCells(b, x, c, y, n) == \A k \in 0..(n - 1) : c.mem[y + k] = b.mem[x + k]

\* The same cells, in another buffer or at another place, are the same span.
LEMMA SameSpan ==
    ASSUME NEW b, Sound(b), NEW x \in Nat, NEW z \in Nat, x <= z, z <= b.cap,
           NEW c, Sound(c), NEW y \in Nat, NEW w \in Nat, y <= w, w <= c.cap,
           w - y = z - x, SameCells(b, x, c, y, z - x)
    PROVE  Span(c, y, w) = Span(b, x, z)
<1> DEFINE s == Span(b, x, z)
<1>1. /\ s \in Seq(Cells) /\ Len(s) = z - x
      /\ \A i \in 1..(z - x) : s[i] = b.mem[x + i - 1]
  BY ONLY Sound(b), x \in Nat, z \in Nat, x <= z, z <= b.cap, Spans
<1>2. ASSUME NEW i \in 1..(w - y) PROVE s[i] = c.mem[y + i - 1]
  <2>1. i - 1 \in 0..(z - x - 1) /\ i \in 1..(z - x)
    OBVIOUS
  <2>2. c.mem[y + (i - 1)] = b.mem[x + (i - 1)]
    BY <2>1 DEF SameCells
  <2>3. y + (i - 1) = y + i - 1 /\ x + (i - 1) = x + i - 1
    OBVIOUS
  <2> QED  BY <1>1, <2>1, <2>2, <2>3
<1> HIDE DEF s
<1>3. s \in Seq(Cells) /\ Len(s) = w - y
  BY <1>1
<1>4. Span(c, y, w) = s
  BY ONLY Sound(c), y \in Nat, w \in Nat, y <= w, w <= c.cap, <1>2, <1>3, IsSpan
<1> QED  BY <1>4 DEF s

\* Two spans that meet make one.
LEMMA Meet ==
    ASSUME NEW b, Sound(b), NEW x \in Nat, NEW y \in Nat, NEW z \in Nat,
           x <= y, y <= z, z <= b.cap
    PROVE  Span(b, x, z) = Span(b, x, y) \o Span(b, y, z)
<1> DEFINE s == Span(b, x, y)
           t == Span(b, y, z)
           u == s \o t
<1>1. b.cap \in Nat /\ y <= b.cap /\ x <= z
  BY Parts
<1>2. /\ s \in Seq(Cells) /\ Len(s) = y - x
      /\ \A i \in 1..(y - x) : s[i] = b.mem[x + i - 1]
  BY <1>1, Spans
<1>3. /\ t \in Seq(Cells) /\ Len(t) = z - y
      /\ \A i \in 1..(z - y) : t[i] = b.mem[y + i - 1]
  BY <1>1, Spans
<1> HIDE DEF s, t
<1>4. /\ u \in Seq(Cells) /\ Len(u) = z - x
      /\ \A i \in 1..(z - x) : u[i] = IF i <= y - x THEN s[i] ELSE t[i - (y - x)]
  <2>1. /\ u \in Seq(Cells) /\ Len(u) = Len(s) + Len(t)
        /\ \A i \in 1..(Len(s) + Len(t)) :
              u[i] = IF i <= Len(s) THEN s[i] ELSE t[i - Len(s)]
    BY <1>2, <1>3, ConcatProperties
  <2>2. Len(s) + Len(t) = z - x
    BY <1>2, <1>3
  <2> HIDE DEF u
  <2> QED  BY <1>2, <2>1, <2>2
<1> HIDE DEF u
<1>5. ASSUME NEW i \in 1..(z - x) PROVE u[i] = b.mem[x + i - 1]
  <2>1. CASE i <= y - x
    BY <1>2, <1>4, <2>1
  <2>2. CASE i > y - x
    <3> DEFINE j == i - (y - x)
    <3>1. j \in 1..(z - y) /\ y + j - 1 = x + i - 1
      BY <2>2
    <3>2. u[i] = t[j]
      BY <1>4, <2>2
    <3> HIDE DEF j
    <3>3. t[j] = b.mem[y + j - 1]
      BY <1>3, <3>1
    <3> QED  BY <3>1, <3>2, <3>3
  <2> QED  BY <2>1, <2>2
<1>6. Span(b, x, z) = u
  BY <1>1, <1>4, <1>5, IsSpan
<1> QED  BY <1>6 DEF u, s, t

\* The elements m..n of the span from x to z are the span from l to r.
Part(x, z, m, n, l, r) ==
    /\ x <= z /\ 1 <= m /\ m <= n + 1 /\ n <= z - x
    /\ l = x + m - 1 /\ r = x + n

\* A part of a span is a span.
LEMMA SpanOfSpan ==
    ASSUME NEW b, Sound(b), NEW x \in Nat, NEW z \in Nat, z <= b.cap,
           NEW m \in Nat, NEW n \in Nat, NEW l \in Nat, NEW r \in Nat,
           Part(x, z, m, n, l, r)
    PROVE  SubSeq(Span(b, x, z), m, n) = Span(b, l, r)
<1> DEFINE s == Span(b, x, z)
           t == SubSeq(s, m, n)
<1>8. /\ x <= z /\ 1 <= m /\ m <= n + 1 /\ n <= z - x
      /\ l = x + m - 1 /\ r = x + n
  BY DEF Part
<1>1. /\ s \in Seq(Cells) /\ Len(s) = z - x
      /\ \A i \in 1..(z - x) : s[i] = b.mem[x + i - 1]
  <2>1. x <= z
    BY <1>8
  <2> QED
    BY ONLY Sound(b), x \in Nat, z \in Nat, <2>1, z <= b.cap, Spans
<1>2. b.cap \in Nat /\ l <= r /\ r <= b.cap /\ r - l = n - m + 1
  BY <1>8, Parts
<1> HIDE DEF s
<1>3. \A i \in m..n : s[i] \in Cells
  BY <1>1, <1>8
<1>4. /\ t \in Seq(Cells) /\ Len(t) = n - m + 1
      /\ \A i \in 1..(n - m + 1) : t[i] = s[m + i - 1]
  BY <1>3, <1>8, SubSeqProperties
<1> HIDE DEF t
<1>5. ASSUME NEW i \in 1..(r - l) PROVE t[i] = b.mem[l + i - 1]
  <2>1. m + i - 1 \in 1..(z - x) /\ x + (m + i - 1) - 1 = l + i - 1
    BY <1>2, <1>8
  <2>2. t[i] = s[m + i - 1]
    BY <1>2, <1>4
  <2> QED  BY <1>1, <2>1, <2>2
<1>6. t \in Seq(Cells) /\ Len(t) = r - l
  BY <1>2, <1>4
<1>7. Span(b, l, r) = t
  BY ONLY Sound(b), l \in Nat, r \in Nat, <1>2, <1>5, <1>6, IsSpan
<1> QED  BY <1>7 DEF s, t

\* An empty span.
LEMMA EmptySpan ==
    ASSUME NEW b, NEW x \in Nat
    PROVE  Span(b, x, x) = <<>>
<1>1. Span(b, x, x) = [i \in 1..0 |-> b.mem[x + i - 1]]
  BY DEF Span
<1> QED  BY <1>1

----------------------------------------------------------------------------
\* A larger allocation shows the same bytes (Vec::reserve).
LEMMA GrownShows ==
    ASSUME NEW b, Sound(b), NEW required \in Nat, b.len <= required,
           NEW r \in Grow(b, required)
    PROVE  Behind(r) = Behind(b) /\ Readable(r) = Readable(b)
<1>1. Sound(r) /\ r.rpos = b.rpos /\ r.len = b.len
  BY Grows
<1>2. PICK c \in required..MaxCapacity :
          r = [b EXCEPT !.cap = c,
                        !.mem = [i \in 0..(c - 1) |-> IF i < b.len THEN b.mem[i]
                                                                   ELSE Junk]]
  BY DEF Grow
<1>3. c \in Nat /\ b.len <= c
  BY <1>2, Parts, BufferAssumption
<1>4. \A k \in 0..(b.len - 1) : r.mem[k] = b.mem[k]
  <2>1. r.mem = [i \in 0..(c - 1) |-> IF i < b.len THEN b.mem[i] ELSE Junk]
    BY <1>2 DEF Sound
  <2> QED  BY <1>3, <2>1, Parts
<1>5. /\ b.rpos \in Nat /\ b.len \in Nat /\ b.cap \in Nat /\ r.cap \in Nat
      /\ b.rpos <= b.len /\ b.rpos <= b.cap /\ b.len <= b.cap
      /\ b.rpos <= r.cap /\ b.len <= r.cap
  BY <1>1, Parts
<1>6. Span(r, 0, b.rpos) = Span(b, 0, b.rpos)
  <2>1. SameCells(b, 0, r, 0, b.rpos - 0)
    BY <1>4, <1>5 DEF SameCells
  <2> QED  BY <1>1, <1>5, <2>1, SameSpan
<1>7. Span(r, b.rpos, b.len) = Span(b, b.rpos, b.len)
  <2>1. SameCells(b, b.rpos, r, b.rpos, b.len - b.rpos)
    BY <1>4, <1>5 DEF SameCells
  <2> QED  BY <1>1, <1>5, <2>1, SameSpan
<1> QED  BY <1>1, <1>6, <1>7 DEF Behind, Readable

\* So does whatever reserve answers.
LEMMA ReservedShows ==
    ASSUME NEW b, Sound(b), NEW n \in Nat, NEW r \in Reserve(b, n)
    PROVE  Behind(r) = Behind(b) /\ Readable(r) = Readable(b)
<1>1. CASE b.cap - b.len >= n
  BY <1>1 DEF Reserve
<1>2. CASE ~(b.cap - b.len >= n)
  <2>1. r \in Grow(b, b.len + n)
    BY <1>2 DEF Reserve
  <2>2. b.len + n \in Nat /\ b.len <= b.len + n
    BY Parts
  <2> QED  BY <2>1, <2>2, GrownShows
<1> QED  BY <1>1, <1>2

\* Compaction keeps what is readable and forgets what was consumed.
LEMMA CompactShows ==
    ASSUME NEW b, Sound(b)
    PROVE  Behind(Compact(b)) = <<>> /\ Readable(Compact(b)) = Readable(b)
<1> DEFINE c == Compact(b)
           n == b.len - b.rpos
<1>1. Sound(c) /\ c.len = n /\ c.cap = b.cap
  BY Compacts
<1>2. /\ c.rpos = 0
      /\ c.mem = [i \in DOMAIN b.mem |-> IF i < n THEN b.mem[b.rpos + i]
                                                  ELSE b.mem[i]]
  BY DEF Compact, Sound
<1> HIDE DEF c
<1>3. SameCells(b, b.rpos, c, 0, b.len - b.rpos)
  BY <1>2, Parts DEF SameCells
<1>4. n \in Nat /\ n <= c.cap /\ n - 0 = b.len - b.rpos
  BY <1>1, Parts
<1>5. Span(c, 0, n) = Span(b, b.rpos, b.len)
  <2>2. /\ b.rpos \in Nat /\ b.len \in Nat /\ b.cap \in Nat /\ c.cap \in Nat
        /\ b.rpos <= b.len /\ b.len <= b.cap
    BY <1>1, Parts
  <2> HIDE DEF n
  <2> QED  BY <1>1, <1>3, <1>4, <2>2, SameSpan
<1>6. Readable(c) = Readable(b)
  BY <1>1, <1>2, <1>4, <1>5 DEF Readable
<1>7. Behind(c) = <<>>
  BY <1>2, EmptySpan DEF Behind
<1> QED  BY <1>6, <1>7 DEF c

\* Making room keeps what is readable, and at most forgets what was consumed.
LEMMA PreparedShows ==
    ASSUME NEW b, Sound(b), NEW n \in Nat, NEW r \in Prepared(b, n)
    PROVE  /\ Behind(r) = Behind(b) \/ Behind(r) = <<>>
           /\ Readable(r) = Readable(b)
<1>1. CASE TailFree(b) >= n
  BY <1>1 DEF Prepared
<1>2. CASE ~(TailFree(b) >= n) /\ TailFree(b) + b.rpos >= n
  <2>1. r = Compact(b)
    BY <1>2 DEF Prepared
  <2> QED  BY <2>1, CompactShows
<1>3. CASE ~(TailFree(b) >= n) /\ ~(TailFree(b) + b.rpos >= n)
  <2>1. r \in Grow(b, b.len + n)
    BY <1>3 DEF Prepared
  <2>2. b.len + n \in Nat /\ b.len <= b.len + n
    BY Parts
  <2> QED  BY <2>1, <2>2, GrownShows
<1> QED  BY <1>1, <1>2, <1>3

\* The span from x to z has nothing of the n cells from at on.
Apart(b, x, z, at, n) ==
    x <= z /\ z <= b.cap /\ (z <= at \/ at + n <= x)

\* Copied bytes are where they were copied to, and the others as they were.
LEMMA StoredSpans ==
    ASSUME NEW b, Sound(b), NEW at \in Nat, NEW s,
           Len(s) \in Nat, \A i \in 1..Len(s) : s[i] \in Bytes,
           s \in Seq(Bytes), at + Len(s) <= b.cap
    PROVE  /\ Span(Store(b, at, s), at, at + Len(s)) = s
           /\ \A x, z \in Nat :
                 Apart(b, x, z, at, Len(s)) =>
                    Span(Store(b, at, s), x, z) = Span(b, x, z)
<1> DEFINE t == Store(b, at, s)
<1>1. Sound(t) /\ t.cap = b.cap
  BY Stores
<1>2. t.mem = [i \in DOMAIN b.mem |->
                 IF i >= at /\ i < at + Len(s) THEN s[i - at + 1] ELSE b.mem[i]]
  BY DEF Store, Sound
<1> HIDE DEF t
<1>3. s \in Seq(Cells)
  BY SeqMonotonic DEF Cells
<1>4. \A i \in 1..Len(s) : s[i] = t.mem[at + i - 1]
  <2>1. ASSUME NEW i \in 1..Len(s) PROVE s[i] = t.mem[at + i - 1]
    <3>1. /\ at + i - 1 \in DOMAIN b.mem /\ at + i - 1 >= at
          /\ at + i - 1 < at + Len(s) /\ (at + i - 1) - at + 1 = i
      BY Parts
    <3> QED  BY <1>2, <3>1
  <2> QED  BY <2>1
<1> DEFINE n == Len(s)
           w == at + n
<1>5. w \in Nat /\ at <= w /\ w <= t.cap /\ w - at = n
  BY <1>1, Parts
<1>6. Span(t, at, w) = s
  <2> HIDE DEF w
  <2> QED  BY <1>1, <1>3, <1>4, <1>5, IsSpan
<1>7. ASSUME NEW x \in Nat, NEW z \in Nat, Apart(b, x, z, at, Len(s))
      PROVE  Span(t, x, z) = Span(b, x, z)
  <2>4. x <= z /\ z <= b.cap /\ (z <= at \/ at + Len(s) <= x)
    BY <1>7 DEF Apart
  <2>1. ASSUME NEW k \in 0..(z - x - 1) PROVE t.mem[x + k] = b.mem[x + k]
    <3>1. /\ x + k \in DOMAIN b.mem
          /\ ~(x + k >= at /\ x + k < at + Len(s))
      BY <2>4, Parts
    <3> QED  BY <1>2, <3>1
  <2>2. z <= t.cap /\ t.cap \in Nat /\ b.cap \in Nat
    BY <1>1, <2>4, Parts
  <2>3. SameCells(b, x, t, x, z - x)
    BY <2>1 DEF SameCells
  <2> QED  BY <1>1, <2>2, <2>3, <2>4, SameSpan
<1> QED  BY <1>6, <1>7 DEF t

\* Appending adds to the end of what is readable.
LEMMA PushedShows ==
    ASSUME NEW b, Sound(b), NEW s \in Seq(Bytes), b.len + Len(s) <= b.cap
    PROVE  Behind(Push(b, s)) = Behind(b) /\ Readable(Push(b, s)) = Readable(b) \o s
<1>1. /\ Len(s) \in Nat /\ \A i \in 1..Len(s) : s[i] \in Bytes
      /\ b.rpos \in Nat /\ b.len \in Nat /\ b.cap \in Nat
      /\ b.rpos <= b.len /\ b.len <= b.cap
  BY Parts
<1> DEFINE t == Store(b, b.len, s)
           p == Push(b, s)
           e == b.len + Len(s)
<1>2. Sound(t) /\ t.rpos = b.rpos /\ t.len = b.len /\ t.cap = b.cap
  BY <1>1, Stores
<1>3. /\ Span(t, b.len, e) = s
      /\ Span(t, 0, b.rpos) = Span(b, 0, b.rpos)
      /\ Span(t, b.rpos, b.len) = Span(b, b.rpos, b.len)
  <2>1. /\ Apart(b, 0, b.rpos, b.len, Len(s))
        /\ Apart(b, b.rpos, b.len, b.len, Len(s))
    BY <1>1 DEF Apart
  <2> QED  BY <1>1, <2>1, StoredSpans
<1>4. p = [t EXCEPT !.len = e]
  BY DEF Push
<1>5. e \in Nat /\ b.rpos <= e /\ b.len <= e /\ e <= t.cap
  BY <1>1, <1>2
<1> HIDE DEF t, p, e
<1>6. p.rpos = b.rpos /\ p.len = e /\ p.mem = t.mem
  BY <1>2, <1>4 DEF Sound
<1>7. Span(t, b.rpos, e) = Span(t, b.rpos, b.len) \o Span(t, b.len, e)
  BY <1>1, <1>2, <1>5, Meet
<1>8. \A x, z \in Nat : Span(p, x, z) = Span(t, x, z)
  BY <1>6 DEF Span
<1>9. Behind(p) = Behind(b)
  BY <1>1, <1>3, <1>6, <1>8 DEF Behind
<1>10. Readable(p) = Readable(b) \o s
  BY <1>1, <1>3, <1>5, <1>6, <1>7, <1>8 DEF Readable
<1> QED  BY <1>9, <1>10 DEF p

\* How long the two parts are, as the calls compare them with their argument.
LEMMA Lengths ==
    ASSUME NEW b, Sound(b)
    PROVE  /\ Behind(b) \in Seq(Cells) /\ Len(Behind(b)) = b.rpos
           /\ Readable(b) \in Seq(Cells) /\ Len(Readable(b)) = b.len - b.rpos
<1>1. /\ b.rpos \in Nat /\ b.len \in Nat /\ b.cap \in Nat
      /\ b.rpos <= b.len /\ b.len <= b.cap /\ b.rpos <= b.cap
  BY Parts
<1>2. /\ Span(b, 0, b.rpos) \in Seq(Cells)
      /\ Len(Span(b, 0, b.rpos)) = b.rpos - 0
  BY <1>1, Spans
<1>3. /\ Span(b, b.rpos, b.len) \in Seq(Cells)
      /\ Len(Span(b, b.rpos, b.len)) = b.len - b.rpos
  BY <1>1, Spans
<1> QED  BY <1>1, <1>2, <1>3 DEF Behind, Readable

\* Moving the read position on passes bytes from one part to the other.
LEMMA ForwardShows ==
    ASSUME NEW b, Sound(b), NEW n \in Nat, b.rpos + n <= b.len,
           NEW c, c = [b EXCEPT !.rpos = b.rpos + n]
    PROVE  /\ n <= Len(Readable(b))
           /\ Span(b, b.rpos, b.rpos + n) = Tape!First(Readable(b), n)
           /\ Behind(c) = Behind(b) \o Tape!First(Readable(b), n)
           /\ Readable(c) = Tape!Rest(Readable(b), n)
<1> DEFINE p == b.rpos
           q == b.rpos + n
           e == b.len
           m == n + 1
           o == 0
           i == 1
           l == e - p
<1>1. /\ p \in Nat /\ q \in Nat /\ e \in Nat /\ b.cap \in Nat
      /\ p <= q /\ q <= e /\ e <= b.cap /\ p <= e /\ q <= b.cap /\ o <= p /\ o \in Nat
  BY Parts
<1>2. c.rpos = q /\ c.len = e /\ c.mem = b.mem
  BY DEF Sound
<1>3. /\ m \in Nat /\ 1 <= m /\ l \in Nat /\ m <= l + 1 /\ l <= e - p /\ n <= l
      /\ q = p + m - 1 /\ e = p + l /\ 1 <= i /\ i <= n + 1
      /\ p = p + i - 1 /\ n <= e - p /\ i \in Nat
  BY <1>1
<1>4. Len(Readable(b)) = l
  BY Lengths
<1>5. q = p + n
  OBVIOUS
<1> HIDE DEF p, q, e, m, l, o, i
<1>6. Span(b, o, q) = Span(b, o, p) \o Span(b, p, q)
  BY ONLY Sound(b), <1>1, Meet
<1>7. SubSeq(Span(b, p, e), i, n) = Span(b, p, q)
  <2>1. Part(p, e, i, n, p, q)
    BY <1>1, <1>3, <1>5 DEF Part
  <2> QED  BY ONLY Sound(b), n \in Nat, <1>1, <1>3, <2>1, SpanOfSpan
<1>8. SubSeq(Span(b, p, e), m, l) = Span(b, q, e)
  <2>1. Part(p, e, m, l, q, e)
    BY <1>1, <1>3 DEF Part
  <2>2. /\ p \in Nat /\ e \in Nat /\ m \in Nat /\ l \in Nat /\ q \in Nat
        /\ e <= b.cap
    BY <1>1, <1>3
  <2> QED  BY ONLY Sound(b), <2>1, <2>2, SpanOfSpan
<1>9. Behind(c) = Span(b, o, q) /\ Readable(c) = Span(b, q, e)
  BY <1>2 DEF Behind, Readable, Span, o
<1>10. Behind(b) = Span(b, o, p) /\ Readable(b) = Span(b, p, e)
  BY DEF Behind, Readable, p, e, o
<1>11. Tape!First(Readable(b), n) = Span(b, p, q)
  BY <1>7, <1>10 DEF Tape!First, i
<1>12. Tape!Rest(Readable(b), n) = Span(b, q, e)
  BY <1>4, <1>8, <1>10 DEF Tape!Rest, m
<1>13. Span(b, b.rpos, b.rpos + n) = Span(b, p, q)
  BY DEF p, q
<1> QED  BY <1>3, <1>4, <1>6, <1>9, <1>10, <1>11, <1>12, <1>13

\* Moving it back brings the last bytes consumed.
LEMMA BackShows ==
    ASSUME NEW b, Sound(b), NEW n \in Nat, n <= b.rpos,
           NEW c, c = [b EXCEPT !.rpos = b.rpos - n]
    PROVE  /\ Behind(c) = Tape!First(Behind(b), Len(Behind(b)) - n)
           /\ Readable(c) = Tape!Last(Behind(b), n) \o Readable(b)
<1> DEFINE p == b.rpos
           q == b.rpos - n
           e == b.len
           m == p - n + 1
           o == 0
           i == 1
<1>1. /\ p \in Nat /\ q \in Nat /\ e \in Nat /\ b.cap \in Nat
      /\ q <= p /\ p <= e /\ e <= b.cap /\ q <= e /\ p <= b.cap /\ o <= p
      /\ o \in Nat /\ i \in Nat
  BY Parts
<1>2. c.rpos = q /\ c.len = e /\ c.mem = b.mem
  BY DEF Sound
<1>3. /\ m \in Nat /\ 1 <= m /\ m <= p + 1 /\ p <= p - o /\ q <= p - o
      /\ q = o + m - 1 /\ p = o + p /\ i <= q + 1 /\ 1 <= i
      /\ o = o + i - 1 /\ q = o + q
  BY <1>1
<1>4. Len(Behind(b)) = p /\ Len(Behind(b)) - n = q /\ Len(Behind(b)) - n + 1 = m
  BY Lengths
<1> HIDE DEF p, q, e, m, o, i
<1>5. Span(b, q, e) = Span(b, q, p) \o Span(b, p, e)
  BY ONLY Sound(b), <1>1, Meet
<1>6. SubSeq(Span(b, o, p), i, q) = Span(b, o, q)
  <2>1. Part(o, p, i, q, o, q)
    BY <1>1, <1>3 DEF Part
  <2> QED  BY ONLY Sound(b), <1>1, <1>3, <2>1, SpanOfSpan
<1>7. SubSeq(Span(b, o, p), m, p) = Span(b, q, p)
  <2>1. Part(o, p, m, p, q, p)
    BY <1>1, <1>3 DEF Part
  <2> QED  BY ONLY Sound(b), <1>1, <1>3, <2>1, SpanOfSpan
<1>8. Behind(c) = Span(b, o, q) /\ Readable(c) = Span(b, q, e)
  BY <1>2 DEF Behind, Readable, Span, o
<1>9. Behind(b) = Span(b, o, p) /\ Readable(b) = Span(b, p, e)
  BY DEF Behind, Readable, p, e, o
<1>10. Tape!First(Behind(b), Len(Behind(b)) - n) = Span(b, o, q)
  BY <1>4, <1>6, <1>9 DEF Tape!First, i
<1>11. Tape!Last(Behind(b), n) = Span(b, q, p)
  BY <1>4, <1>7, <1>9 DEF Tape!Last
<1> QED  BY <1>5, <1>8, <1>9, <1>10, <1>11

\* Buffer b after s is written in front of its unread bytes.
Fronted(b, s) == [Store(b, b.rpos - Len(s), s) EXCEPT !.rpos = b.rpos - Len(s)]

\* The block holds x cells behind the bytes of b.
HasSpare(b, x) == b.len + x <= b.cap

\* Bytes written in front take the place of the last ones consumed, and what
\* lies behind the end of the bytes stays as it was.
LEMMA FrontShows ==
    ASSUME NEW b, Sound(b), NEW s \in Seq(Bytes), Len(s) <= b.rpos,
           NEW c, c = Fronted(b, s), NEW x \in Nat, HasSpare(b, x)
    PROVE  /\ Behind(c) = Tape!First(Behind(b), Len(Behind(b)) - Len(s))
           /\ Readable(c) = s \o Readable(b)
           /\ Span(c, c.len, c.len + x) = Span(b, b.len, b.len + x)
<1> DEFINE p == b.rpos
           n == Len(s)
           q == p - n
           e == b.len
           w == e + x
           t == Store(b, q, s)
           o == 0
           i == 1
<1>1. /\ p \in Nat /\ q \in Nat /\ e \in Nat /\ b.cap \in Nat /\ n \in Nat
      /\ q <= p /\ p <= e /\ e <= b.cap /\ q <= e /\ p <= b.cap /\ o <= p
      /\ o \in Nat /\ i \in Nat /\ o <= q
      /\ w \in Nat /\ e <= w /\ w <= b.cap /\ q + Len(s) = p /\ p <= w
      /\ q <= p - o /\ i <= q + 1 /\ 1 <= i /\ o = o + i - 1 /\ q = o + q
      /\ q <= b.cap /\ q + Len(s) <= b.cap /\ Len(s) \in Nat
  BY Parts DEF HasSpare
<1>15. \A j \in 1..Len(s) : s[j] \in Bytes
  OBVIOUS
<1>2. Sound(t) /\ t.len = e /\ t.cap = b.cap
  BY <1>1, <1>15, Stores
<1>3. c = [t EXCEPT !.rpos = q]
  BY DEF Fronted
<1>4. Len(Behind(b)) = p /\ Len(Behind(b)) - Len(s) = q
  BY Lengths
<1> HIDE DEF t
<1>5. c.rpos = q /\ c.len = e /\ c.mem = t.mem
  BY <1>2, <1>3 DEF Sound
<1>6. /\ Span(t, q, q + Len(s)) = s
      /\ \A y, z \in Nat :
            Apart(b, y, z, q, Len(s)) => Span(t, y, z) = Span(b, y, z)
  BY <1>1, <1>15, StoredSpans DEF t
<1> HIDE DEF p, n, q, e, w, o, i
<1>7. /\ Span(t, q, p) = s /\ Span(t, o, q) = Span(b, o, q)
      /\ Span(t, p, e) = Span(b, p, e) /\ Span(t, e, w) = Span(b, e, w)
  <2>1. Apart(b, o, q, q, Len(s))
    BY <1>1 DEF Apart
  <2>2. q + Len(s) <= p /\ q + Len(s) <= e
    BY <1>1
  <2>3. Apart(b, p, e, q, Len(s))
    BY <1>1, <2>2 DEF Apart
  <2>4. Apart(b, e, w, q, Len(s))
    BY <1>1, <2>2 DEF Apart
  <2>5. q + Len(s) = p
    BY <1>1
  <2> QED  BY <1>1, <1>6, <2>1, <2>3, <2>4, <2>5
<1>8. Span(t, q, e) = Span(t, q, p) \o Span(t, p, e)
  <2>1. Sound(t) /\ t.cap \in Nat /\ e <= t.cap
    BY <1>1, <1>2
  <2> QED  BY ONLY <1>1, <2>1, Meet
<1>9. SubSeq(Span(b, o, p), i, q) = Span(b, o, q)
  <2>1. Part(o, p, i, q, o, q)
    BY <1>1 DEF Part
  <2>2. o \in Nat /\ p \in Nat /\ i \in Nat /\ q \in Nat /\ p <= b.cap
    BY <1>1
  <2> QED  BY ONLY Sound(b), <2>1, <2>2, SpanOfSpan
<1>10. \A y, z \in Nat : Span(c, y, z) = Span(t, y, z)
  BY <1>5 DEF Span
<1>11. Behind(b) = Span(b, o, p) /\ Readable(b) = Span(b, p, e)
  BY DEF Behind, Readable, p, e, o
<1>12. Behind(c) = Span(c, o, q) /\ Readable(c) = Span(c, q, e)
  BY <1>5 DEF Behind, Readable, o
<1>13. Tape!First(Behind(b), Len(Behind(b)) - Len(s)) = Span(b, o, q)
  BY <1>4, <1>9, <1>11 DEF Tape!First, i
<1>14. Span(c, c.len, c.len + x) = Span(b, b.len, b.len + x)
  <2>1. Span(c, e, w) = Span(b, e, w)
    BY <1>1, <1>7, <1>10
  <2> QED  BY <1>5, <2>1 DEF e, w
<1> QED  BY <1>1, <1>7, <1>8, <1>10, <1>11, <1>12, <1>13, <1>14

\* Giving up the last bytes shortens what is readable.
LEMMA TrimShows ==
    ASSUME NEW b, Sound(b), NEW n \in Nat, b.len >= b.rpos + n,
           NEW c, c = [b EXCEPT !.len = b.len - n]
    PROVE  /\ n <= Len(Readable(b))
           /\ Behind(c) = Behind(b)
           /\ Readable(c) = Tape!First(Readable(b), Len(Readable(b)) - n)
<1> DEFINE p == b.rpos
           e == b.len
           r == e - n
           l == r - p
           i == 1
<1>1. /\ p \in Nat /\ r \in Nat /\ e \in Nat /\ b.cap \in Nat /\ l \in Nat
      /\ p <= r /\ r <= e /\ e <= b.cap /\ p <= e /\ i <= l + 1 /\ l <= e - p
      /\ i \in Nat /\ 1 <= i /\ p = p + i - 1 /\ r = p + l
  BY Parts
<1>2. c.rpos = p /\ c.len = r /\ c.mem = b.mem
  BY DEF Sound
<1>3. n <= Len(Readable(b)) /\ Len(Readable(b)) - n = l
  BY <1>1, Lengths
<1> HIDE DEF p, e, r, l, i
<1>4. SubSeq(Span(b, p, e), i, l) = Span(b, p, r)
  <2>1. Part(p, e, i, l, p, r)
    BY <1>1 DEF Part
  <2> QED  BY ONLY Sound(b), <1>1, <2>1, SpanOfSpan
<1>5. Behind(c) = Span(b, 0, p) /\ Readable(c) = Span(b, p, r)
  BY <1>2 DEF Behind, Readable, Span
<1>6. Behind(b) = Span(b, 0, p) /\ Readable(b) = Span(b, p, e)
  BY DEF Behind, Readable, p, e
<1>7. Tape!First(Readable(b), Len(Readable(b)) - n) = Span(b, p, r)
  BY <1>3, <1>4, <1>6 DEF Tape!First, i
<1> QED  BY <1>3, <1>5, <1>6, <1>7

\* A commit makes readable what lies behind the end of the bytes.
LEMMA ExtendShows ==
    ASSUME NEW b, Sound(b), NEW n \in Nat, b.len + n <= b.cap,
           NEW c, c = [b EXCEPT !.len = b.len + n]
    PROVE  /\ Behind(c) = Behind(b)
           /\ Readable(c) = Readable(b) \o Span(b, b.len, b.len + n)
<1> DEFINE p == b.rpos
           e == b.len
           r == e + n
<1>1. /\ p \in Nat /\ r \in Nat /\ e \in Nat /\ b.cap \in Nat
      /\ p <= e /\ e <= r /\ r <= b.cap
  BY Parts
<1>2. c.rpos = p /\ c.len = r /\ c.mem = b.mem
  BY DEF Sound
<1> HIDE DEF p, e, r
<1>3. Span(b, p, r) = Span(b, p, e) \o Span(b, e, r)
  BY ONLY Sound(b), <1>1, Meet
<1>4. Behind(c) = Span(b, 0, p) /\ Readable(c) = Span(b, p, r)
  BY <1>2 DEF Behind, Readable, Span
<1>5. Behind(b) = Span(b, 0, p) /\ Readable(b) = Span(b, p, e)
  BY DEF Behind, Readable, p, e
<1>6. Span(b, b.len, b.len + n) = Span(b, e, r)
  BY DEF e, r
<1> QED  BY <1>3, <1>4, <1>5, <1>6

----------------------------------------------------------------------------
\* With nothing lent, nothing is staged.
LEMMA NothingStaged ==
    ASSUME NEW b, Sound(b), NEW l, l = 0
    PROVE  Span(b, b.len, b.len + l) = <<>>
<1>1. b.len \in Nat /\ b.len + l = b.len
  BY Parts
<1> QED  BY <1>1, EmptySpan

\* What is staged is as long as what is lent.
LEMMA StagedLength ==
    ASSUME IInv
    PROVE  /\ lent \in Nat /\ Sound(buf)
           /\ Staged \in Seq(Cells) /\ Len(Staged) = lent
<1> DEFINE e == buf.len
           w == buf.len + lent
<1>1. /\ e \in Nat /\ w \in Nat /\ e <= w /\ w <= buf.cap /\ buf.cap \in Nat
      /\ w - e = lent /\ Sound(buf) /\ lent \in Nat
  BY Parts DEF IInv
<1>2. Staged = Span(buf, e, w)
  BY DEF Staged
<1> HIDE DEF e, w
<1>3. /\ Span(buf, e, w) \in Seq(Cells)
      /\ Len(Span(buf, e, w)) = w - e
  BY <1>1, Spans
<1> QED  BY <1>1, <1>2, <1>3

\* The buffer starts as an empty tape, or as one with the bytes given.
LEMMA TapeInit == Init => Tape!Init
<1> SUFFICES ASSUME Init PROVE Tape!Init
  OBVIOUS
<1>1. Sound(buf)
  BY InitSound DEF IInv
<1>2. Span(buf, buf.len, buf.len + lent) = <<>>
  BY <1>1, NothingStaged DEF Init
<1>3. ASSUME NEW c \in 0..MaxCapacity, buf = Empty(c)
      PROVE  Behind(buf) = <<>> /\ Readable(buf) = <<>>
  <2>1. buf.rpos = 0 /\ buf.len = 0
    BY <1>3 DEF Empty
  <2> QED  BY <2>1, EmptySpan DEF Behind, Readable
<1>4. <<>> \in Slices
  <2>1. 0 \in 0..MaxWrite /\ <<>> \in [1..0 -> Bytes]
    BY BufferAssumption
  <2> QED  BY <2>1 DEF Slices
<1>5. ASSUME NEW s \in Slices, buf = Push(Empty(Len(s)), s)
      PROVE  Behind(buf) = <<>> /\ Readable(buf) = s
  <2> DEFINE e == Empty(Len(s))
  <2>1. Len(s) \in Nat /\ s \in Seq(Bytes)
    BY SliceLength
  <2>2. e.rpos = 0 /\ e.len = 0 /\ e.cap = Len(s)
    BY DEF Empty
  <2>3. Sound(e)
    <3>1. [i \in 0..(Len(s) - 1) |-> Junk] \in Memories
      BY <2>1 DEF Memories, Cells
    <3> QED  BY <2>1, <3>1 DEF Empty, Sound
  <2> HIDE DEF e
  <2>4. e.len + Len(s) <= e.cap
    BY <2>1, <2>2
  <2>5. Behind(Push(e, s)) = Behind(e) /\ Readable(Push(e, s)) = Readable(e) \o s
    BY <2>1, <2>3, <2>4, PushedShows
  <2>6. Behind(e) = <<>> /\ Readable(e) = <<>>
    BY <2>2, EmptySpan DEF Behind, Readable
  <2>7. <<>> \o s = s
    BY <2>1, ConcatEmptySeq
  <2> QED  BY <1>5, <2>5, <2>6, <2>7 DEF e
<1>6. Behind(buf) = <<>> /\ Readable(buf) \in Slices
  BY <1>3, <1>4, <1>5 DEF Init
<1>7. call = [op |-> "new", arg |-> 0, ok |-> TRUE, bytes |-> <<>>]
  BY DEF Init, Did
<1>8. Tape!Slices(Bytes) = Slices
  BY DEF Slices, Tape!Slices
<1> QED  BY <1>2, <1>6, <1>7, <1>8 DEF Tape!Init

\* Appending, after making room in whatever way, is a Write of the tape.
LEMMA AppendWrites ==
    ASSUME NEW s \in Seq(Bytes), NEW r, Sound(r), r.len + Len(s) <= r.cap,
           Behind(r) = Behind(buf) \/ Behind(r) = <<>>,
           Readable(r) = Readable(buf),
           buf' = Push(r, s), lent' = 0, call' = Did("write", s)
    PROVE  Tape!Write(s)
<1>1. Behind(buf') = Behind(r) /\ Readable(buf') = Readable(buf) \o s
  BY PushedShows
<1>2. Sound(buf')
  <2>1. Len(s) \in Nat /\ \A i \in 1..Len(s) : s[i] \in Bytes
    OBVIOUS
  <2> QED  BY <2>1, Pushes
<1>3. Span(buf', buf'.len, buf'.len + lent') = <<>>
  BY <1>2, NothingStaged
<1> QED
  BY <1>1, <1>3 DEF Tape!Write, Tape!KeptOrForgotten, Tape!Done, Tape!Called, Did

\* write_slice, write and unsafe_write.
LEMMA TapeWrites ==
    ASSUME IInv
    PROVE  /\ \A s \in Slices : WriteSlice(s) => Tape!Write(s)
           /\ \A c \in Bytes : Write(c) \/ UnsafeWrite(c) => Tape!Write(<<c>>)
<1>0. Sound(buf)
  BY DEF IInv
<1>1. ASSUME NEW s \in Slices, WriteSlice(s) PROVE Tape!Write(s)
  <2>1. Len(s) \in Nat /\ s \in Seq(Bytes)
    BY SliceLength
  <2>2. PICK b \in Prepared(buf, Len(s)) :
          \E r \in Reserve(b, Len(s)) : buf' = Push(r, s)
    BY <1>1 DEF WriteSlice
  <2>3. PICK r \in Reserve(b, Len(s)) : buf' = Push(r, s)
    BY <2>2
  <2>4. Sound(b) /\ Sound(r) /\ r.len + Len(s) <= r.cap
    BY <1>0, <2>1, Prepares, Reserves
  <2>5. /\ Behind(b) = Behind(buf) \/ Behind(b) = <<>>
        /\ Readable(b) = Readable(buf)
    BY <1>0, <2>1, PreparedShows
  <2>6. Behind(r) = Behind(b) /\ Readable(r) = Readable(b)
    BY <2>1, <2>4, ReservedShows
  <2> QED
    BY <1>1, <2>1, <2>3, <2>4, <2>5, <2>6, AppendWrites DEF WriteSlice
<1>2. ASSUME NEW c \in Bytes, Write(c) PROVE Tape!Write(<<c>>)
  <2>1. <<c>> \in Seq(Bytes) /\ Len(<<c>>) = 1
    OBVIOUS
  <2>2. PICK r \in Reserve(buf, 1) : buf' = Push(r, <<c>>)
    BY <1>2 DEF Write
  <2>3. Sound(r) /\ r.len + 1 <= r.cap
    BY <1>0, Reserves
  <2>4. Behind(r) = Behind(buf) /\ Readable(r) = Readable(buf)
    BY <1>0, ReservedShows
  <2> QED  BY <1>2, <2>1, <2>2, <2>3, <2>4, AppendWrites DEF Write
<1>3. ASSUME NEW c \in Bytes, UnsafeWrite(c) PROVE Tape!Write(<<c>>)
  <2>1. <<c>> \in Seq(Bytes) /\ Len(<<c>>) = 1
    OBVIOUS
  <2>2. buf.len + Len(<<c>>) <= buf.cap
    BY <1>0, <1>3, <2>1, Parts DEF UnsafeWrite
  <2> QED  BY <1>0, <1>3, <2>1, <2>2, AppendWrites DEF UnsafeWrite
<1> QED  BY <1>1, <1>2, <1>3

\* prepare, and what the caller fills in.
LEMMA TapePrepares ==
    ASSUME IInv, NEW s \in Slices, Prepare(s)
    PROVE  Tape!Prepare(s)
<1>1. /\ Len(s) \in Nat /\ s \in Seq(Bytes) /\ Sound(buf)
      /\ \A i \in 1..Len(s) : s[i] \in Bytes
  BY SliceLength DEF IInv
<1>2. PICK b \in Prepared(buf, Len(s)) : buf' = Store(b, b.len, s)
  BY DEF Prepare
<1>3. Sound(b) /\ b.len + Len(s) <= b.cap
  BY <1>1, Prepares
<1>4. /\ Behind(b) = Behind(buf) \/ Behind(b) = <<>>
      /\ Readable(b) = Readable(buf)
  BY <1>1, PreparedShows
<1>5. /\ b.rpos \in Nat /\ b.len \in Nat /\ b.cap \in Nat
      /\ b.rpos <= b.len /\ b.len <= b.cap
  BY <1>3, Parts
<1>6. buf'.rpos = b.rpos /\ buf'.len = b.len
  BY <1>1, <1>2, <1>3, <1>5, Stores
<1>7. /\ Span(buf', b.len, b.len + Len(s)) = s
      /\ Span(buf', 0, b.rpos) = Span(b, 0, b.rpos)
      /\ Span(buf', b.rpos, b.len) = Span(b, b.rpos, b.len)
  <2>1. /\ Apart(b, 0, b.rpos, b.len, Len(s))
        /\ Apart(b, b.rpos, b.len, b.len, Len(s))
    BY <1>5 DEF Apart
  <2> QED  BY <1>1, <1>2, <1>3, <1>5, <2>1, StoredSpans
<1>8. Behind(buf') = Behind(b) /\ Readable(buf') = Readable(b)
  BY <1>6, <1>7 DEF Behind, Readable
<1>9. Span(buf', buf'.len, buf'.len + lent') = s
  BY <1>6, <1>7 DEF Prepare
<1>10. call' = Did("prepare", s)
  BY DEF Prepare
<1> QED
  BY <1>4, <1>8, <1>9, <1>10
     DEF Tape!Prepare, Tape!KeptOrForgotten, Tape!Done, Tape!Called, Did

\* write_front and write_front_byte, where there is room in front.
LEMMA FrontWrites ==
    ASSUME IInv, NEW s \in Seq(Bytes), Len(s) <= buf.rpos,
           buf' = [Store(buf, buf.rpos - Len(s), s) EXCEPT
                     !.rpos = buf.rpos - Len(s)],
           lent' = lent, call' = Did("front", s)
    PROVE  Tape!WriteFront(s)
<1>1. /\ Sound(buf) /\ lent \in Nat /\ buf.len + lent <= buf.cap
      /\ buf.rpos \in Nat /\ Len(s) \in Nat
  BY Parts DEF IInv
<1>2. /\ Behind(buf') = Tape!First(Behind(buf), Len(Behind(buf)) - Len(s))
      /\ Readable(buf') = s \o Readable(buf)
      /\ Span(buf', buf'.len, buf'.len + lent) = Span(buf, buf.len, buf.len + lent)
  <2>1. buf' = Fronted(buf, s) /\ HasSpare(buf, lent)
    BY <1>1 DEF Fronted, HasSpare
  <2>2. Sound(buf) /\ lent \in Nat
    BY <1>1
  <2>3. s \in Seq(Bytes) /\ Len(s) <= buf.rpos
    OBVIOUS
  <2> QED  BY ONLY <2>1, <2>2, <2>3, FrontShows, ZenonT(60)
<1>3. ~(Len(s) > Len(Behind(buf)))
  BY <1>1, Lengths
<1> QED
  BY <1>2, <1>3 DEF Tape!WriteFront, Tape!Done, Tape!Called, Did

\* Where there is none the call is refused, and the buffer stays as it is.
LEMMA FrontRefuses ==
    ASSUME IInv, NEW s \in Seq(Bytes), Len(s) > buf.rpos,
           UNCHANGED <<buf, lent>>, call' = Refused("front", s)
    PROVE  Tape!WriteFront(s)
<1>1. Len(s) > Len(Behind(buf))
  BY Lengths DEF IInv
<1>2. call' = [op |-> "front", arg |-> s, ok |-> FALSE, bytes |-> <<>>]
  BY DEF Refused, Did
<1> QED  BY <1>1, <1>2 DEF Tape!WriteFront, Tape!Refuse, Tape!Called

\* write_front and write_front_byte, with and without room in front.
LEMMA TapeFronts ==
    ASSUME IInv
    PROVE  /\ \A s \in Slices : WriteFront(s) => Tape!WriteFront(s)
           /\ \A c \in Bytes : WriteFrontByte(c) => Tape!WriteFront(<<c>>)
<1>0. buf.rpos \in Nat
  BY Parts DEF IInv
<1>1. ASSUME NEW s \in Slices, WriteFront(s) PROVE Tape!WriteFront(s)
  <2>1. Len(s) \in Nat /\ s \in Seq(Bytes)
    BY SliceLength
  <2>2. CASE Len(s) > buf.rpos
    BY <1>1, <2>1, <2>2, FrontRefuses DEF WriteFront
  <2>3. CASE Len(s) <= buf.rpos
    <3>1. ~(Len(s) > buf.rpos)
      BY <1>0, <2>1, <2>3
    <3> QED  BY <1>1, <2>1, <2>3, <3>1, FrontWrites DEF WriteFront
  <2> QED  BY <1>0, <2>1, <2>2, <2>3
<1>2. ASSUME NEW c \in Bytes, WriteFrontByte(c) PROVE Tape!WriteFront(<<c>>)
  <2>1. <<c>> \in Seq(Bytes) /\ Len(<<c>>) = 1
    OBVIOUS
  <2>2. CASE buf.rpos = 0
    <3>1. Len(<<c>>) > buf.rpos
      BY <2>1, <2>2
    <3> QED  BY <1>2, <2>1, <2>2, <3>1, FrontRefuses DEF WriteFrontByte
  <2>3. CASE buf.rpos # 0
    <3>1. Len(<<c>>) <= buf.rpos
      BY <1>0, <2>1, <2>3
    <3>2. buf' = [Store(buf, buf.rpos - Len(<<c>>), <<c>>) EXCEPT
                    !.rpos = buf.rpos - Len(<<c>>)]
      BY <1>2, <2>1, <2>3 DEF WriteFrontByte
    <3> QED  BY <1>2, <2>1, <2>3, <3>1, <3>2, FrontWrites DEF WriteFrontByte
  <2> QED  BY <2>2, <2>3
<1> QED  BY <1>1, <1>2

\* What the calls that move the read position forward share.
LEMMA Passes ==
    ASSUME IInv, NEW n \in Nat, ~Short(n),
           buf' = [buf EXCEPT !.rpos = @ + n], lent' = lent
    PROVE  /\ Tape!Pass(n) /\ ~(n > Len(Readable(buf)))
           /\ Span(buf, buf.rpos, buf.rpos + n) = Tape!First(Readable(buf), n)
<1>1. Sound(buf) /\ buf.rpos + n <= buf.len /\ buf.rpos \in Nat /\ buf.len \in Nat
  BY Parts DEF IInv, Short
<1>2. buf' = [buf EXCEPT !.rpos = buf.rpos + n]
  OBVIOUS
<1>3. /\ n <= Len(Readable(buf))
      /\ Span(buf, buf.rpos, buf.rpos + n) = Tape!First(Readable(buf), n)
      /\ Behind(buf') = Behind(buf) \o Tape!First(Readable(buf), n)
      /\ Readable(buf') = Tape!Rest(Readable(buf), n)
  BY <1>1, <1>2, ForwardShows
<1>4. buf'.len = buf.len /\ buf'.mem = buf.mem
  BY <1>1, <1>2 DEF Sound
<1>5. Span(buf', buf'.len, buf'.len + lent') = Span(buf, buf.len, buf.len + lent)
  BY <1>4 DEF Span
<1>6. ~(n > Len(Readable(buf)))
  BY <1>1, <1>3, Lengths
<1> QED  BY <1>3, <1>5, <1>6 DEF Tape!Pass

\* And why they do nothing: there is less to be read.
LEMMA IsShort ==
    ASSUME IInv, NEW n \in Nat, Short(n)
    PROVE  n > Len(Readable(buf))
BY Parts, Lengths DEF IInv, Short

\* read, consume and seek.
LEMMA TapeMoves ==
    ASSUME IInv, NEW n \in Nat
    PROVE  /\ Read(n) => Tape!Read(n)
           /\ Consume(n) => Tape!Consume(n)
           /\ SeekForward(n) => Tape!Forward(n)
           /\ SeekBack(n) => Tape!Back(n)
<1>1. ASSUME Read(n) PROVE Tape!Read(n)
  <2>1. CASE Short(n)
    <3>1. UNCHANGED <<buf, lent>> /\ call' = Refused("read", n)
      BY <1>1, <2>1 DEF Read
    <3>2. n > Len(Readable(buf))
      BY <2>1, IsShort
    <3>3. call' = [op |-> "read", arg |-> n, ok |-> FALSE, bytes |-> <<>>]
      BY <3>1 DEF Refused, Did
    <3> QED  BY <3>1, <3>2, <3>3 DEF Tape!Read, Tape!Refuse, Tape!Called
  <2>2. CASE ~Short(n)
    <3>1. /\ call' = Got("read", n, Span(buf, buf.rpos, buf.rpos + n))
          /\ buf' = [buf EXCEPT !.rpos = @ + n] /\ lent' = lent
      BY <1>1, <2>2 DEF Read
    <3>2. /\ Tape!Pass(n) /\ ~(n > Len(Readable(buf)))
          /\ Span(buf, buf.rpos, buf.rpos + n) = Tape!First(Readable(buf), n)
      BY <2>2, <3>1, Passes
    <3>3. call' = [op |-> "read", arg |-> n, ok |-> TRUE,
                   bytes |-> Tape!First(Readable(buf), n)]
      BY <3>1, <3>2 DEF Got, Did
    <3> QED  BY <3>2, <3>3 DEF Tape!Read, Tape!Called
  <2> QED  BY <2>1, <2>2
<1>2. ASSUME Consume(n) PROVE Tape!Consume(n)
  <2>1. CASE Short(n)
    <3>1. UNCHANGED <<buf, lent>> /\ call' = Did("consume", n)
      BY <1>2, <2>1 DEF Consume
    <3>2. n > Len(Readable(buf))
      BY <2>1, IsShort
    <3> QED  BY <3>1, <3>2 DEF Tape!Consume, Tape!Done, Tape!Called, Did
  <2>2. CASE ~Short(n)
    <3>1. /\ call' = Did("consume", n)
          /\ buf' = [buf EXCEPT !.rpos = @ + n] /\ lent' = lent
      BY <1>2, <2>2 DEF Consume
    <3>2. Tape!Pass(n) /\ ~(n > Len(Readable(buf)))
      BY <2>2, <3>1, Passes
    <3> QED  BY <3>1, <3>2 DEF Tape!Consume, Tape!Done, Tape!Called, Did
  <2> QED  BY <2>1, <2>2
<1>3. ASSUME SeekForward(n) PROVE Tape!Forward(n)
  <2>1. CASE Short(n)
    <3>1. UNCHANGED <<buf, lent>> /\ call' = Refused("forward", n)
      BY <1>3, <2>1 DEF SeekForward
    <3>2. n > Len(Readable(buf))
      BY <2>1, IsShort
    <3>3. call' = [op |-> "forward", arg |-> n, ok |-> FALSE, bytes |-> <<>>]
      BY <3>1 DEF Refused, Did
    <3> QED  BY <3>1, <3>2, <3>3 DEF Tape!Forward, Tape!Refuse, Tape!Called
  <2>2. CASE ~Short(n)
    <3>1. /\ call' = Did("forward", n)
          /\ buf' = [buf EXCEPT !.rpos = @ + n] /\ lent' = lent
      BY <1>3, <2>2 DEF SeekForward
    <3>2. Tape!Pass(n) /\ ~(n > Len(Readable(buf)))
      BY <2>2, <3>1, Passes
    <3> QED  BY <3>1, <3>2 DEF Tape!Forward, Tape!Done, Tape!Called, Did
  <2> QED  BY <2>1, <2>2
<1>4. ASSUME SeekBack(n) PROVE Tape!Back(n)
  <2>0. Sound(buf) /\ buf.rpos \in Nat /\ Len(Behind(buf)) = buf.rpos
    BY Parts, Lengths DEF IInv
  <2>1. CASE buf.rpos < n
    <3>1. UNCHANGED <<buf, lent>> /\ call' = Refused("back", n)
      BY <1>4, <2>1 DEF SeekBack
    <3>2. n > Len(Behind(buf))
      BY <2>0, <2>1
    <3>3. call' = [op |-> "back", arg |-> n, ok |-> FALSE, bytes |-> <<>>]
      BY <3>1 DEF Refused, Did
    <3> QED  BY <3>1, <3>2, <3>3 DEF Tape!Back, Tape!Refuse, Tape!Called
  <2>2. CASE ~(buf.rpos < n)
    <3>1. /\ call' = Did("back", n) /\ lent' = lent
          /\ buf' = [buf EXCEPT !.rpos = buf.rpos - n]
      BY <1>4, <2>2 DEF SeekBack
    <3>2. n <= buf.rpos /\ ~(n > Len(Behind(buf)))
      BY <2>0, <2>2
    <3>3. /\ Behind(buf') = Tape!First(Behind(buf), Len(Behind(buf)) - n)
          /\ Readable(buf') = Tape!Last(Behind(buf), n) \o Readable(buf)
      BY <2>0, <3>1, <3>2, BackShows
    <3>4. buf'.len = buf.len /\ buf'.mem = buf.mem
      BY <2>0, <3>1 DEF Sound
    <3>5. Span(buf', buf'.len, buf'.len + lent')
            = Span(buf, buf.len, buf.len + lent)
      BY <3>1, <3>4 DEF Span
    <3> QED
      BY <3>1, <3>2, <3>3, <3>5 DEF Tape!Back, Tape!Done, Tape!Called, Did
  <2> QED  BY <2>1, <2>2
<1> QED  BY <1>1, <1>2, <1>3, <1>4

\* commit: within what was filled in, beyond it, or refused.
LEMMA TapeCommits ==
    ASSUME IInv, NEW n \in Nat, Commit(n)
    PROVE  Tape!Commit(n)
<1> DEFINE e == buf.len
           w == e + lent
           r == e + n
<1>1. /\ Sound(buf) /\ lent \in Nat /\ Staged \in Seq(Cells)
      /\ Len(Staged) = lent
  BY StagedLength
<1>2. /\ e \in Nat /\ w \in Nat /\ r \in Nat /\ buf.cap \in Nat
      /\ e <= w /\ w <= buf.cap /\ e <= buf.cap /\ e <= r
  BY <1>1, Parts DEF IInv
<1>3. Staged = Span(buf, e, w)
  BY DEF Staged
<1>4. CASE r > buf.cap
  <2>1. UNCHANGED <<buf, lent>> /\ call' = Refused("commit", n)
    BY <1>4 DEF Commit
  <2>2. n > Len(Staged)
    BY <1>1, <1>2, <1>4
  <2>3. call' = [op |-> "commit", arg |-> n, ok |-> FALSE, bytes |-> <<>>]
    BY <2>1 DEF Refused, Did
  <2> QED
    BY <2>1, <2>2, <2>3 DEF Tape!Commit, Tape!Refuse, Tape!Called, Staged
<1>5. CASE r <= buf.cap
  <2>1. /\ buf' = [buf EXCEPT !.len = buf.len + n]
        /\ lent' = IF lent > n THEN lent - n ELSE 0
        /\ call' = [op |-> "commit", arg |-> n, ok |-> TRUE, bytes |-> <<>>]
    <3>1. ~(buf.len + n > buf.cap)
      BY <1>2, <1>5
    <3> QED  BY <3>1 DEF Commit, Did
  <2>2. Behind(buf') = Behind(buf) /\ Readable(buf') = Readable(buf) \o Span(buf, e, r)
    BY <1>1, <1>5, <2>1, ExtendShows
  <2>3. buf'.len = r /\ buf'.mem = buf.mem
    BY <1>1, <2>1 DEF Sound
  <2>4. \A x, z \in Nat : Span(buf', x, z) = Span(buf, x, z)
    BY <2>3 DEF Span
  <2>5. CASE n <= lent
    <3> DEFINE i == 1
               m == n + 1
    <3>1. r + lent' = w /\ r <= w /\ lent' \in Nat
      BY <1>1, <1>2, <2>1, <2>5
    <3>2. Part(e, w, i, n, e, r)
      BY <1>1, <1>2, <2>5, <3>1 DEF Part
    <3>3. Part(e, w, m, lent, r, w)
      BY <1>1, <1>2, <2>5, <3>1 DEF Part
    <3>a. i \in Nat /\ m \in Nat /\ n \in Nat
      OBVIOUS
    <3> HIDE DEF i, m, e, w, r
    <3>b. /\ Sound(buf) /\ e \in Nat /\ w \in Nat /\ r \in Nat
          /\ w <= buf.cap /\ lent \in Nat
      BY <1>1, <1>2
    <3>4. SubSeq(Span(buf, e, w), i, n) = Span(buf, e, r)
      BY ONLY <3>b, <3>a, <3>2, SpanOfSpan
    <3>5. SubSeq(Span(buf, e, w), m, lent) = Span(buf, r, w)
      BY ONLY <3>b, <3>a, <3>3, SpanOfSpan
    <3>6. Tape!First(Staged, n) = Span(buf, e, r)
      BY <1>3, <3>4 DEF Tape!First, i
    <3>7. Tape!Rest(Staged, n) = Span(buf, r, w)
      BY <1>1, <1>3, <3>5 DEF Tape!Rest, m
    <3>8. Span(buf', buf'.len, buf'.len + lent') = Tape!Rest(Staged, n)
      BY <1>2, <2>3, <2>4, <3>1, <3>7
    <3>9. n <= Len(Staged)
      BY <1>1, <2>5
    <3> QED
      BY <2>1, <2>2, <3>6, <3>8, <3>9
         DEF Tape!Commit, Tape!Done, Tape!Called, Staged
  <2>6. CASE n > lent
    <3> DEFINE x == Span(buf, w, r)
    <3>1. lent' = 0 /\ w <= r /\ r - w = n - lent /\ n - lent \in Nat
      BY <1>1, <1>2, <2>1, <2>6
    <3>2. Span(buf, e, r) = Span(buf, e, w) \o Span(buf, w, r)
      <4> HIDE DEF e, w, r
      <4> QED  BY <1>1, <1>2, <1>5, <3>1, Meet
    <3>3. x \in Seq(Cells) /\ Len(x) = n - lent
      <4> HIDE DEF e, w, r
      <4> QED  BY <1>1, <1>2, <1>5, <3>1, Spans
    <3> HIDE DEF x
    <3>4. x \in [1..(n - Len(Staged)) -> Bytes \cup {Junk}]
      BY <1>1, <3>3, LenProperties DEF Cells
    <3>5. Readable(buf) \in Seq(Cells)
      BY <1>1, Lengths
    <3>6. Readable(buf') = Readable(buf) \o Staged \o x
      <4>1. Span(buf, e, r) = Staged \o x
        BY <1>3, <3>2 DEF x
      <4>2. (Readable(buf) \o Staged) \o x = Readable(buf) \o (Staged \o x)
        BY <1>1, <3>3, <3>5, ConcatAssociative
      <4> HIDE DEF e, w, r
      <4> QED  BY <2>2, <4>1, <4>2
    <3>7. Span(buf', buf'.len, buf'.len + lent') = <<>>
      <4>1. buf'.len \in Nat /\ buf'.len + lent' = buf'.len
        BY <1>2, <2>3, <3>1
      <4> QED  BY <4>1, EmptySpan
    <3>8. n > Len(Staged)
      BY <1>1, <2>6
    <3> QED
      BY <2>1, <2>2, <3>4, <3>6, <3>7, <3>8
         DEF Tape!Commit, Tape!Done, Tape!Called, Staged
  <2> QED  BY <1>1, <2>5, <2>6
<1> QED  BY <1>2, <1>4, <1>5

\* revert and clear.
LEMMA TapeCuts ==
    ASSUME IInv
    PROVE  /\ \A n \in Nat : Revert(n) => Tape!Revert(n)
           /\ Clear => Tape!Clear
<1>0. Sound(buf) /\ buf.len \in Nat /\ buf.rpos \in Nat
  BY Parts DEF IInv
<1>1. ASSUME NEW n \in Nat, Revert(n) PROVE Tape!Revert(n)
  <2>1. /\ buf.len >= buf.rpos + n /\ buf' = [buf EXCEPT !.len = buf.len - n]
        /\ lent' = 0 /\ call' = Did("revert", n)
    BY <1>1 DEF Revert
  <2>2. /\ n <= Len(Readable(buf)) /\ Behind(buf') = Behind(buf)
        /\ Readable(buf') = Tape!First(Readable(buf), Len(Readable(buf)) - n)
    BY <1>0, <2>1, TrimShows
  <2>3. buf'.len = buf.len - n /\ buf'.len \in Nat /\ buf'.len + lent' = buf'.len
    BY <1>0, <2>1 DEF Sound
  <2>4. Span(buf', buf'.len, buf'.len + lent') = <<>>
    BY <2>3, EmptySpan
  <2> QED
    BY <2>1, <2>2, <2>4 DEF Tape!Revert, Tape!Done, Tape!Called, Did
<1>2. ASSUME Clear PROVE Tape!Clear
  <2>1. buf'.rpos = 0 /\ buf'.len = 0 /\ lent' = 0 /\ call' = Did("clear", 0)
    BY <1>0, <1>2 DEF Clear, Sound
  <2>2. Behind(buf') = <<>> /\ Readable(buf') = <<>>
    BY <2>1, EmptySpan DEF Behind, Readable
  <2>3. buf'.len \in Nat /\ buf'.len + lent' = buf'.len
    BY <2>1
  <2>4. Span(buf', buf'.len, buf'.len + lent') = <<>>
    BY <2>3, EmptySpan
  <2> QED  BY <2>1, <2>2, <2>4 DEF Tape!Clear, Tape!Done, Tape!Called, Did
<1> QED  BY <1>1, <1>2

\* The integers are read from the readable bytes.
LEMMA TapePeeks ==
    ASSUME IInv, NEW pos \in Nat, NEW width \in Nat, NEW le \in BOOLEAN,
           ReadInt(pos, width, le)
    PROVE  Tape!Peek(pos, width)
<1> DEFINE p == buf.rpos
           e == buf.len
           l == p + pos
           r == p + pos + width
           m == pos + 1
           n == pos + width
           s == Span(buf, l, r)
<1>1. Sound(buf) /\ Len(Readable(buf)) = e - p
  BY Lengths DEF IInv
<1>2. pos + width <= e - p
  BY DEF ReadInt
<1>3. /\ p \in Nat /\ e \in Nat /\ buf.cap \in Nat /\ l \in Nat /\ r \in Nat
      /\ m \in Nat /\ n \in Nat /\ p <= e /\ e <= buf.cap /\ l <= r /\ r <= e
      /\ r <= buf.cap /\ r - l = width
  <2>1. /\ p \in Nat /\ e \in Nat /\ buf.cap \in Nat /\ p <= e /\ e <= buf.cap
    BY <1>1, Parts
  <2> QED  BY <1>2, <2>1
<1>4. Part(p, e, m, n, l, r)
  BY <1>2, <1>3 DEF Part
<1>5. Readable(buf) = Span(buf, p, e)
  BY DEF Readable
<1>6. /\ UNCHANGED <<buf, lent>>
      /\ call' = Got(IF le THEN "le" ELSE "be", <<pos, width>>,
                     IF le THEN s ELSE Flip(s))
  BY DEF ReadInt
<1> HIDE DEF p, e, l, r, m, n
<1>7. SubSeq(Span(buf, p, e), m, n) = s
  <2>1. /\ Sound(buf) /\ p \in Nat /\ e \in Nat /\ e <= buf.cap
        /\ m \in Nat /\ n \in Nat /\ l \in Nat /\ r \in Nat
    BY <1>1, <1>3
  <2> QED  BY ONLY <1>4, <2>1, SpanOfSpan
<1>8. s \in Seq(Cells) /\ Len(s) = width
  BY <1>1, <1>3, Spans
<1> HIDE DEF s
<1>9. SubSeq(Readable(buf), pos + 1, pos + width) = s
  BY <1>5, <1>7 DEF m, n
<1>10. Flip(s) = [i \in 1..width |-> s[width + 1 - i]]
  BY <1>8 DEF Flip
<1>11. pos + width <= Len(Readable(buf))
  BY <1>1, <1>2 DEF p, e
<1>12. CASE le
  <2>1. call' = [op |-> "le", arg |-> <<pos, width>>, ok |-> TRUE, bytes |-> s]
    BY <1>6, <1>12 DEF Got, Did
  <2> QED  BY <1>6, <1>9, <1>11, <2>1 DEF Tape!Peek, Tape!Called
<1>13. CASE ~le
  <2>1. call' = [op |-> "be", arg |-> <<pos, width>>, ok |-> TRUE,
                 bytes |-> [i \in 1..width |-> s[width + 1 - i]]]
    BY <1>6, <1>10, <1>13 DEF Got, Did
  <2> QED  BY <1>6, <1>9, <1>11, <2>1 DEF Tape!Peek, Tape!Called
<1> QED  BY <1>12, <1>13

\* Every call is the tape's call of the same name, for the same answer.
LEMMA TapeStep ==
    ASSUME IInv, [Next]_vars
    PROVE  [Tape!Next]_(Tape!vars)
<1>0. /\ Tape!Slices(Bytes) = Slices /\ Sizes = 0..MaxWrite
      /\ \A n \in Sizes : n \in Nat
  BY BufferAssumption DEF Slices, Tape!Slices, Sizes
<1>1. ASSUME NEW s \in Slices, WriteSlice(s) \/ WriteFront(s) \/ Prepare(s)
      PROVE  Tape!Next
  <2>1. Tape!Write(s) \/ Tape!WriteFront(s) \/ Tape!Prepare(s)
    BY <1>1, TapeWrites, TapeFronts, TapePrepares
  <2> QED  BY <1>0, <2>1 DEF Tape!Next
<1>2. ASSUME NEW c \in Bytes, Write(c) \/ UnsafeWrite(c) \/ WriteFrontByte(c)
      PROVE  Tape!Next
  <2>1. Tape!Write(<<c>>) \/ Tape!WriteFront(<<c>>)
    BY <1>2, TapeWrites, TapeFronts
  <2> QED  BY <2>1 DEF Tape!Next
<1>3. ASSUME NEW n \in Sizes, \/ Read(n) \/ Consume(n) \/ SeekBack(n)
                              \/ SeekForward(n) \/ Commit(n) \/ Revert(n)
      PROVE  Tape!Next
  <2>1. n \in Nat /\ n \in 0..MaxWrite
    BY <1>0
  <2>2. \/ Tape!Read(n) \/ Tape!Consume(n) \/ Tape!Back(n) \/ Tape!Forward(n)
        \/ Tape!Commit(n) \/ Tape!Revert(n)
    BY <1>3, <2>1, TapeMoves, TapeCommits, TapeCuts
  <2> QED  BY <2>1, <2>2 DEF Tape!Next
<1>4. ASSUME Clear PROVE Tape!Next
  BY <1>4, TapeCuts DEF Tape!Next
<1>5. ASSUME NEW pos \in Sizes, NEW width \in {1, 2, 4}, NEW le \in BOOLEAN,
             ReadInt(pos, width, le)
      PROVE  Tape!Next
  <2>1. pos \in Nat /\ width \in Nat /\ pos \in 0..MaxWrite
    BY <1>0
  <2>2. Tape!Peek(pos, width)
    BY <1>5, <2>1, TapePeeks
  <2> QED  BY <2>1, <2>2 DEF Tape!Next
<1>6. ASSUME UNCHANGED vars PROVE UNCHANGED Tape!vars
  BY <1>6 DEF vars, Tape!vars
<1> QED  BY <1>1, <1>2, <1>3, <1>4, <1>5, <1>6 DEF Next

\* The buffer implements the tape: whatever the calls in whatever order, what
\* is read is what was written, and moving or growing the memory loses nothing
\* that is readable.
THEOREM BufferIsTape == Spec => ImplementsTape
<1>1. IInv /\ [Next]_vars => [Tape!Next]_(Tape!vars)
  BY TapeStep
<1> QED
  BY <1>1, InitSound, StepSound, TapeInit, PTL DEF Spec, ImplementsTape, Tape!Spec
=============================================================================
