------------------------------ MODULE ByteTape ------------------------------
(***************************************************************************)
(* What Buffer promises: a tape of bytes cut at the read position, and a   *)
(* piece of tape that is filled before it is attached.                     *)
(***************************************************************************)
EXTENDS Integers, Sequences

CONSTANTS Bytes, Junk, MaxWrite

VARIABLES
    behind,    \* bytes in front of the read position that are still there
    content,   \* bytes to be read
    staged,    \* bytes filled in by the caller, not yet committed
    call       \* the last call and what it returned

vars == <<behind, content, staged, call>>

Slices(S) == UNION {[1..n -> S] : n \in 0..MaxWrite}
First(s, n) == SubSeq(s, 1, n)
Rest(s, n) == SubSeq(s, n + 1, Len(s))
Last(s, n) == SubSeq(s, Len(s) - n + 1, Len(s))

Called(op, arg, ok, bytes) ==
    call' = [op |-> op, arg |-> arg, ok |-> ok, bytes |-> bytes]
Done(op, arg) == Called(op, arg, TRUE, <<>>)
Refuse(op, arg) ==
    Called(op, arg, FALSE, <<>>) /\ UNCHANGED <<behind, content, staged>>

Init ==
    /\ behind = <<>> /\ staged = <<>>
    /\ content \in Slices(Bytes)
    /\ call = [op |-> "new", arg |-> 0, ok |-> TRUE, bytes |-> <<>>]

\* Making room may forget what was consumed, never what is to be read.
KeptOrForgotten == behind' = behind \/ behind' = <<>>

Write(s) ==
    /\ content' = content \o s
    /\ KeptOrForgotten
    /\ staged' = <<>> /\ Done("write", s)

Prepare(s) ==
    /\ staged' = s
    /\ KeptOrForgotten
    /\ Done("prepare", s) /\ UNCHANGED content

\* Only for want of memory is a commit refused; beyond what was filled in,
\* it exposes whatever is in the memory.
Commit(n) ==
    \/ /\ n > Len(staged)
       /\ Refuse("commit", n)
    \/ /\ n <= Len(staged)
       /\ content' = content \o First(staged, n) /\ staged' = Rest(staged, n)
       /\ Done("commit", n) /\ UNCHANGED behind
    \/ /\ n > Len(staged)
       /\ \E x \in [1..(n - Len(staged)) -> Bytes \cup {Junk}] :
             content' = content \o staged \o x
       /\ staged' = <<>>
       /\ Done("commit", n) /\ UNCHANGED behind

\* Bytes put in front take the place of the last ones consumed.
WriteFront(s) ==
    IF Len(s) > Len(behind)
      THEN Refuse("front", s)
      ELSE /\ behind' = First(behind, Len(behind) - Len(s))
           /\ content' = s \o content
           /\ Done("front", s) /\ UNCHANGED staged

Pass(n) ==
    /\ behind' = behind \o First(content, n)
    /\ content' = Rest(content, n)
    /\ UNCHANGED staged

Read(n) ==
    IF n > Len(content)
      THEN Refuse("read", n)
      ELSE Pass(n) /\ Called("read", n, TRUE, First(content, n))

Forward(n) ==
    IF n > Len(content) THEN Refuse("forward", n)
                        ELSE Pass(n) /\ Done("forward", n)

Consume(n) ==
    /\ IF n > Len(content) THEN UNCHANGED <<behind, content, staged>> ELSE Pass(n)
    /\ Done("consume", n)

Back(n) ==
    IF n > Len(behind)
      THEN Refuse("back", n)
      ELSE /\ behind' = First(behind, Len(behind) - n)
           /\ content' = Last(behind, n) \o content
           /\ Done("back", n) /\ UNCHANGED staged

Revert(n) ==
    /\ n <= Len(content)
    /\ content' = First(content, Len(content) - n)
    /\ staged' = <<>>
    /\ Done("revert", n) /\ UNCHANGED behind

Clear ==
    /\ content' = <<>> /\ behind' = <<>> /\ staged' = <<>>
    /\ Done("clear", 0)

\* An integer's bytes, the least significant one first.
Peek(pos, width) ==
    LET s == SubSeq(content, pos + 1, pos + width)
    IN /\ pos + width <= Len(content)
       /\ \/ Called("le", <<pos, width>>, TRUE, s)
          \/ Called("be", <<pos, width>>, TRUE,
                    [i \in 1..width |-> s[width + 1 - i]])
       /\ UNCHANGED <<behind, content, staged>>

Next ==
    \/ Clear
    \/ \E s \in Slices(Bytes) : Write(s) \/ Prepare(s) \/ WriteFront(s)
    \/ \E c \in Bytes : Write(<<c>>) \/ WriteFront(<<c>>)
    \/ \E n \in 0..MaxWrite : \/ Commit(n) \/ Read(n) \/ Forward(n) \/ Consume(n)
                              \/ Back(n) \/ Revert(n)
    \/ \E pos \in 0..MaxWrite, width \in {1, 2, 4} : Peek(pos, width)

Spec == Init /\ [][Next]_vars
=============================================================================
