--------------------------- MODULE LuaBindings_proofs -----------------------
(***************************************************************************)
(* Two of the bindings that Lua services call.                             *)
(*                                                                         *)
(* Safety of SqlxNative for every set of push() and transaction() calls    *)
(* and every depth to which finalizers nest them; and safety of MongoActor *)
(* for every set of services and operations, whichever of them close.  The *)
(* two share no constant and no variable.                                  *)
(***************************************************************************)
EXTENDS SqlxNative, MongoActor, FiniteSetTheorems, SequenceTheorems, TLAPS

(***************************************************************************)
(* SqlxNative.                                                             *)
(***************************************************************************)
\* Where a call stands, and who owns its lease there.
Stands(f) ==
    /\ result[f.call] = "none"
    /\ f.at = "reporting" => f.verdict \in Errors
    /\ f.call \in Calls =>
          /\ f.at \in {"looking", "building", "creating"} =>
                lease[f.call] = "rust"
          /\ f.at = "guarded" => lease[f.call] = "userdata"
          /\ f.at \in {"params", "reporting"} =>
                lease[f.call] \in {"none", "dropped"}
          /\ f.at \in {"creating", "guarded"} => guard[f.call] \in finalizable

\* Each call is on the stack at most once.
StackInv ==
    /\ \A f \in Frames, i \in 1..Len(frames) : frames[i] = f => Stands(f)
    /\ \A i, j \in 1..Len(frames) : frames[i].call = frames[j].call => i = j

\* A native call that is under way.
OnStack(x) == \E i \in 1..Len(frames) : frames[i].call = x

\* A call that is not on the stack has not been made or is over.
CallOf(c) ==
    /\ result[c] = "none" /\ ~OnStack(c) => lease[c] = "none"
    /\ result[c] = "session" => lease[c] \in {"userdata", "dropped", "stuck"}
    /\ result[c] \in Errors \cup {"thrown"} => lease[c] \in {"none", "dropped"}
    /\ lease[c] = "userdata" => guard[c] \in finalizable

CallInv == \A c \in Calls : CallOf(c)

\* Statements were sent once for every session there is.
SentInv ==
    \A c \in Calls :
        (\E i \in 1..Len(sent) : sent[i].call = c) <=> result[c] = "session"

\* The table under the registry key has its __gc.
MetaInv == meta = NoMeta \/ meta \in finalizable

\* The inductive invariant.
IInv == TypeOK /\ StackInv /\ CallInv /\ SentInv /\ MetaInv /\ StatementsKept

----------------------------------------------------------------------------
\* The steps of native calls, finalizers and other services.
LEMMA Actions ==
    ASSUME [Next]_vars
    PROVE  \/ \E p \in Pushes :
                 \/ Push(p)
                 \/ Pushed(p)
                 \/ BadParam(p)
           \/ Collect
           \/ CloseState
           \/ Closes
           \/ \E c \in Calls :
                 \/ Transaction(c)
                 \/ Look(c)
                 \/ Publish(c)
                 \/ Create(c)
                 \/ Submit(c)
                 \/ SubmitFails(c)
                 \/ SubmitCollected(c)
                 \/ CloseLease(c)
           \/ \E x \in Natives :
                 \/ Report(x)
                 \/ Throw(x)
           \/ UNCHANGED vars
BY DEF Next

\* push() and transaction() calls are different calls.
LEMMA Kinds ==
    /\ \A p \in Pushes : p \in Natives /\ p \notin Calls
    /\ \A c \in Calls : c \in Natives /\ c \notin Pushes
    /\ \A x \in Natives : x \in Pushes \/ x \in Calls
BY NativeAssumption DEF Natives

\* The innermost call stands somewhere.
LEMMA TopStands ==
    ASSUME IInv, frames # <<>>
    PROVE  /\ frames \in Seq(Frames) /\ Len(frames) \in Nat \ {0}
           /\ Top = frames[Len(frames)] /\ Top \in Frames
           /\ \E f \in Frames : f = Top /\ Stands(f)
<1>1. frames \in Seq(Frames) /\ Len(frames) \in Nat \ {0}
  BY DEF IInv, TypeOK
<1>2. Top = frames[Len(frames)] /\ Top \in Frames
  BY <1>1 DEF Top, Last
<1> QED  BY <1>1, <1>2 DEF IInv, StackInv

\* What a call does to the stack: it enters, moves on, or returns.
Entered(t) ==
    /\ frames' \in Seq(Frames) /\ t \in Frames /\ ~OnStack(t.call)
    /\ Len(frames) \in Nat /\ Len(frames') = Len(frames) + 1
    /\ \A i \in 1..Len(frames) : frames'[i] = frames[i] /\ frames[i] \in Frames
    /\ frames'[Len(frames) + 1] = t

Moved(t) ==
    /\ frames' \in Seq(Frames) /\ t \in Frames
    /\ Len(frames) \in Nat \ {0} /\ Len(frames') = Len(frames)
    /\ \A i \in 1..(Len(frames) - 1) : frames'[i] = frames[i]
    /\ frames[Len(frames)].call = t.call /\ frames'[Len(frames)] = t

Left(x) ==
    /\ frames' \in Seq(Frames)
    /\ Len(frames) \in Nat \ {0} /\ Len(frames') = Len(frames) - 1
    /\ \A i \in 1..Len(frames') : frames'[i] = frames[i]
    /\ frames[Len(frames)].call = x

\* A new call comes on top of the stack.
LEMMA Enters ==
    ASSUME IInv, NEW x \in Natives, NEW at \in Stages,
           NEW v \in Errors \cup {"ok"}, Enter(x, at, v)
    PROVE  Entered(Frame(x, at, v)) /\ result[x] = "none"
<1>1. frames \in Seq(Frames) /\ DOMAIN frames = 1..Len(frames)
  BY DEF IInv, TypeOK
<1>2. Frame(x, at, v) \in Frames /\ Frame(x, at, v).call = x
  BY DEF Frame, Frames
<1>3. result[x] = "none" /\ ~OnStack(x) /\ frames' = Append(frames, Frame(x, at, v))
  BY <1>1 DEF Enter, OnStack
<1> QED  BY <1>1, <1>2, <1>3 DEF Entered

\* All but the last frame.
LEMMA FrontOf ==
    ASSUME NEW s \in Seq(Frames), s # <<>>
    PROVE  /\ Front(s) \in Seq(Frames) /\ Len(s) \in Nat \ {0}
           /\ Len(Front(s)) = Len(s) - 1
           /\ \A i \in 1..(Len(s) - 1) : Front(s)[i] = s[i]
<1> DEFINE n == Len(s)
<1>1. n \in Nat \ {0} /\ \A i \in 1..(n - 1) : s[i] \in Frames
  OBVIOUS
<1> HIDE DEF n
<1>2. SubSeq(s, 1, n - 1) = [i \in 1..(n - 1) |-> s[i]]
  BY <1>1
<1>3. [i \in 1..(n - 1) |-> s[i]] \in Seq(Frames)
  BY <1>1
<1>4. Len([i \in 1..(n - 1) |-> s[i]]) = n - 1
  BY <1>1
<1> QED  BY <1>1, <1>2, <1>3, <1>4 DEF Front, n

\* The innermost call moves on.
LEMMA Moves ==
    ASSUME IInv, NEW x \in Natives, NEW from, NEW at \in Stages,
           NEW v \in Errors \cup {"ok"}, At(x, from), Goes(at, v)
    PROVE  /\ Moved(Frame(x, at, v))
           /\ \E f \in Frames : f.call = x /\ f.at = from /\ Stands(f)
<1>1. frames # <<>> /\ Top.call = x /\ Top.at = from
  BY DEF At
<1>2. frames' = Append(Front(frames), Frame(x, at, v))
  BY <1>1 DEF Goes
<1>3. Frame(x, at, v) \in Frames /\ Frame(x, at, v).call = x
  BY DEF Frame, Frames
<1>4. /\ frames \in Seq(Frames) /\ Len(frames) \in Nat \ {0}
      /\ frames[Len(frames)].call = x
  BY <1>1, TopStands
<1>5. Moved(Frame(x, at, v))
  BY <1>1, <1>2, <1>3, <1>4, FrontOf DEF Moved
<1> QED  BY <1>1, <1>5, TopStands

\* The innermost call returns.
LEMMA Leaves ==
    ASSUME IInv, NEW x \in Natives, NEW r, frames # <<>>, Top.call = x,
           Returns(x, r)
    PROVE  /\ Left(x) /\ result' = [result EXCEPT ![x] = r]
           /\ \E f \in Frames : f.call = x /\ f.at = Top.at
                                /\ f.verdict = Top.verdict /\ Stands(f)
<1>1. frames' = Front(frames) /\ result' = [result EXCEPT ![x] = r]
  BY DEF Returns
<1>2. /\ frames \in Seq(Frames) /\ Len(frames) \in Nat \ {0}
      /\ frames[Len(frames)].call = x
  BY TopStands
<1>3. Left(x)
  BY <1>1, <1>2, FrontOf DEF Left
<1> QED  BY <1>1, <1>3, TopStands

\* A step that does not touch a call leaves it where it stands.
Untouched(x) ==
    /\ result'[x] = result[x]
    /\ x \in Calls => lease'[x] = lease[x] /\ guard'[x] = guard[x]
    /\ finalizable \subseteq finalizable'

\* A frame whose call is not touched stands where it stood.
LEMMA StandsKept ==
    ASSUME NEW f \in Frames, Stands(f), Untouched(f.call)
    PROVE  Stands(f)'
BY DEF Stands, Untouched

\* The stack after a call has moved on, entered or left.
LEMMA StackMoved ==
    ASSUME IInv, NEW t \in Frames, Moved(t), Stands(t)',
           \A x \in Natives \ {t.call} : Untouched(x)
    PROVE  StackInv'
<1>1. ASSUME NEW f \in Frames, NEW i \in 1..Len(frames'), frames'[i] = f
      PROVE  Stands(f)'
  <2>1. CASE i = Len(frames)
    BY <1>1, <2>1 DEF Moved
  <2>2. CASE i # Len(frames)
    <3>1. i \in 1..(Len(frames) - 1) /\ frames[i] = f
      BY <1>1, <2>2 DEF Moved
    <3>2. f.call # t.call /\ f.call \in Natives
      BY <3>1 DEF Moved, IInv, StackInv, Frames
    <3>3. Stands(f)
      BY <3>1 DEF Moved, IInv, StackInv
    <3> QED  BY <3>2, <3>3, StandsKept
  <2> QED  BY <2>1, <2>2
<1>2. \A i \in 1..Len(frames) : frames'[i].call = frames[i].call
  BY DEF Moved
<1>3. Len(frames') = Len(frames)
  BY DEF Moved
<1>4. \A i, j \in 1..Len(frames) : frames[i].call = frames[j].call => i = j
  BY DEF IInv, StackInv
<1> QED  BY <1>1, <1>2, <1>3, <1>4 DEF StackInv

\* The stack after a new call has come on top of it.
LEMMA StackEntered ==
    ASSUME IInv, NEW t \in Frames, Entered(t), Stands(t)',
           \A x \in Natives \ {t.call} : Untouched(x)
    PROVE  StackInv'
<1>1. ASSUME NEW f \in Frames, NEW i \in 1..Len(frames'), frames'[i] = f
      PROVE  Stands(f)'
  <2>1. CASE i = Len(frames) + 1
    BY <1>1, <2>1 DEF Entered
  <2>2. CASE i # Len(frames) + 1
    <3>1. i \in 1..Len(frames) /\ frames[i] = f
      BY <1>1, <2>2 DEF Entered
    <3>2. f.call # t.call /\ f.call \in Natives
      BY <3>1 DEF Entered, OnStack, Frames
    <3>3. Stands(f)
      BY <3>1 DEF IInv, StackInv
    <3> QED  BY <3>2, <3>3, StandsKept
  <2> QED  BY <2>1, <2>2
<1>2. ASSUME NEW i \in 1..Len(frames'), NEW j \in 1..Len(frames'),
             frames'[i].call = frames'[j].call
      PROVE  i = j
  <2>1. \A k, l \in 1..Len(frames) : frames[k].call = frames[l].call => k = l
    BY DEF IInv, StackInv
  <2>2. \A k \in 1..Len(frames) : frames[k].call # t.call
    BY DEF Entered, OnStack
  <2> QED  BY <1>2, <2>1, <2>2 DEF Entered
<1> QED  BY <1>1, <1>2 DEF StackInv

\* The stack after its innermost call has returned.
LEMMA StackLeft ==
    ASSUME IInv, NEW c \in Natives, Left(c),
           \A x \in Natives \ {c} : Untouched(x)
    PROVE  StackInv'
<1>1. ASSUME NEW f \in Frames, NEW i \in 1..Len(frames'), frames'[i] = f
      PROVE  Stands(f)'
  <2>1. i \in 1..Len(frames) /\ i # Len(frames) /\ frames[i] = f
    BY <1>1 DEF Left
  <2>2. f.call # c /\ f.call \in Natives
    BY <2>1 DEF Left, IInv, StackInv, Frames
  <2>3. Stands(f)
    BY <2>1 DEF IInv, StackInv
  <2> QED  BY <2>2, <2>3, StandsKept
<1>2. \A i, j \in 1..Len(frames) : frames[i].call = frames[j].call => i = j
  BY DEF IInv, StackInv
<1> QED  BY <1>1, <1>2 DEF StackInv, Left

\* Who else is on the stack stays on it.
LEMMA OthersStay ==
    ASSUME NEW y, NEW x,
           \/ \E t \in Frames : (Moved(t) \/ Entered(t)) /\ t.call = y
           \/ Left(y),
           x # y
    PROVE  OnStack(x)' <=> OnStack(x)
<1>1. ASSUME NEW t \in Frames, Moved(t), t.call = y PROVE OnStack(x)' <=> OnStack(x)
  BY <1>1 DEF Moved, OnStack
<1>2. ASSUME NEW t \in Frames, Entered(t), t.call = y PROVE OnStack(x)' <=> OnStack(x)
  BY <1>2 DEF Entered, OnStack
<1>3. ASSUME Left(y) PROVE OnStack(x)' <=> OnStack(x)
  BY <1>3 DEF Left, OnStack
<1> QED  BY <1>1, <1>2, <1>3

\* A call that entered or moved on is on the stack.
LEMMA OnTop ==
    ASSUME NEW t \in Frames, Moved(t) \/ Entered(t), NEW x, x = t.call
    PROVE  OnStack(x)'
<1>1. CASE Moved(t)
  BY <1>1 DEF Moved, OnStack
<1>2. CASE Entered(t)
  BY <1>2 DEF Entered, OnStack
<1> QED  BY <1>1, <1>2

\* A call that is not touched keeps what is known of it.
LEMMA CallKept ==
    ASSUME NEW c \in Calls, CallOf(c), Untouched(c), OnStack(c) => OnStack(c)'
    PROVE  CallOf(c)'
BY DEF CallOf, Untouched

\* Every variable keeps its type.
LEMMA TypeStep ==
    ASSUME IInv, [Next]_vars
    PROVE  TypeOK'
<1>1. ASSUME NEW p \in Pushes, Push(p) PROVE TypeOK'
  <2>1. Entered(Frame(p, "params", "ok")) /\ result[p] = "none"
    BY <1>1, Kinds, Enters DEF Push, Stages, Errors
  <2> QED
    BY <1>1, <2>1 DEF Push, Entered, IInv, TypeOK, builder, leases
<1>2. ASSUME NEW p \in Pushes, Pushed(p) PROVE TypeOK'
  <2>1. CASE collected
    <3>1. /\ Moved(Frame(p, "reporting", "error"))
          /\ \E f \in Frames : f.call = p /\ f.at = "params" /\ Stands(f)
      BY <1>2, <2>1, Kinds, Moves DEF Pushed, Stages, Errors
    <3> QED
      BY <1>2, <2>1, <3>1 DEF Pushed, Moved, IInv, TypeOK, builder, leases
  <2>2. CASE ~collected
    <3>1. Left(p) /\ result' = [result EXCEPT ![p] = "ok"]
      BY <1>2, <2>2, Kinds, Leaves DEF Pushed, At
    <3>2. list' = Append(list, p) /\ pushed' = Append(pushed, p)
      BY <1>2, <2>2 DEF Pushed
    <3>3. list' \in Seq(Pushes) /\ pushed' \in Seq(Pushes)
      BY <3>2 DEF IInv, TypeOK
    <3>4. result' \in [Natives -> Errors \cup {"none", "ok", "session", "thrown"}]
      BY <3>1, Kinds DEF IInv, TypeOK
    <3>5. frames' \in Seq(Frames)
      BY <3>1 DEF Left
    <3>6. UNCHANGED <<collected, leases, closing, sent, dead>>
      BY <1>2, <2>2 DEF Pushed
    <3> QED
      BY <3>3, <3>4, <3>5, <3>6 DEF IInv, TypeOK, leases
  <2> QED  BY <2>1, <2>2
<1>3. ASSUME NEW p \in Pushes, BadParam(p) PROVE TypeOK'
  <2>1. /\ Moved(Frame(p, "reporting", "error"))
        /\ \E f \in Frames : f.call = p /\ f.at = "params" /\ Stands(f)
    BY <1>3, Kinds, Moves DEF BadParam, Stages, Errors
  <2> QED
    BY <1>3, <2>1 DEF BadParam, Moved, IInv, TypeOK, builder, leases
<1>4. ASSUME Collect PROVE TypeOK'
  <2>1. <<>> \in Seq(Pushes)
    OBVIOUS
  <2> QED  BY <1>4, <2>1 DEF Collect, IInv, TypeOK, builder, leases
<1>5. ASSUME NEW c \in Calls, Transaction(c) PROVE TypeOK'
  <2>1. CASE collected
    <3>1. Entered(Frame(c, "reporting", "error")) /\ result[c] = "none"
      BY <1>5, <2>1, Kinds, Enters DEF Transaction, Stages, Errors
    <3> QED
      BY <1>5, <2>1, <3>1
         DEF Transaction, Entered, IInv, TypeOK, builder, leases
  <2>2. CASE ~collected /\ closing
    <3>1. Entered(Frame(c, "reporting", "closed")) /\ result[c] = "none"
      BY <1>5, <2>2, Kinds, Enters DEF Transaction, Stages, Errors
    <3> QED
      BY <1>5, <2>2, <3>1
         DEF Transaction, Entered, IInv, TypeOK, builder, leases
  <2>3. CASE ~collected /\ ~closing
    <3>1. Entered(Frame(c, "looking", "closed")) /\ result[c] = "none"
      BY <1>5, <2>3, Kinds, Enters DEF Transaction, Stages, Errors
    <3> QED
      BY <1>5, <2>3, <3>1
         DEF Transaction, Entered, IInv, TypeOK, builder, leases
  <2> QED  BY <2>1, <2>2, <2>3
<1>6. ASSUME NEW c \in Calls, Look(c) PROVE TypeOK'
  <2>1. CASE meta = NoMeta
    <3>1. /\ Moved(Frame(c, "building", "ok"))
          /\ \E f \in Frames : f.call = c /\ f.at = "looking" /\ Stands(f)
      BY <1>6, <2>1, Kinds, Moves DEF Look, Stages, Errors
    <3> QED
      BY <1>6, <2>1, <3>1 DEF Look, Moved, IInv, TypeOK, builder, leases
  <2>2. CASE meta # NoMeta
    <3>1. /\ Moved(Frame(c, "creating", "ok"))
          /\ \E f \in Frames : f.call = c /\ f.at = "looking" /\ Stands(f)
      BY <1>6, <2>2, Kinds, Moves DEF Look, Stages, Errors
    <3> QED
      BY <1>6, <2>2, <3>1 DEF Look, Moved, IInv, TypeOK, builder, leases
  <2> QED  BY <2>1, <2>2
<1>7. ASSUME NEW c \in Calls, Publish(c) PROVE TypeOK'
  <2>1. /\ Moved(Frame(c, "creating", "ok"))
        /\ \E f \in Frames : f.call = c /\ f.at = "building" /\ Stands(f)
    BY <1>7, Kinds, Moves DEF Publish, Stages, Errors
  <2> QED
    BY <1>7, <2>1 DEF Publish, Moved, IInv, TypeOK, builder, leases
<1>8. ASSUME NEW c \in Calls, Create(c) PROVE TypeOK'
  <2>1. /\ Moved(Frame(c, "guarded", "ok"))
        /\ \E f \in Frames : f.call = c /\ f.at = "creating" /\ Stands(f)
    BY <1>8, Kinds, Moves DEF Create, Stages, Errors
  <2> QED
    BY <1>8, <2>1 DEF Create, Moved, IInv, TypeOK, builder, leases
<1>9. ASSUME NEW c \in Calls, Submit(c) PROVE TypeOK'
  <2>1. /\ Left(c) /\ result' = [result EXCEPT ![c] = "session"]
        /\ \E f \in Frames : f.call = c /\ f.at = "guarded" /\ Stands(f)
    BY <1>9, Kinds, Leaves DEF Submit, At
  <2>2. [call |-> c, statements |-> list]
           \in [call : Calls, statements : Seq(Pushes)]
    BY DEF IInv, TypeOK
  <2> QED
    BY <1>9, <2>1, <2>2, Kinds DEF Submit, Left, IInv, TypeOK, leases
<1>10. ASSUME NEW c \in Calls, SubmitFails(c) PROVE TypeOK'
  <2>1. /\ Moved(Frame(c, "reporting", "busy"))
        /\ \E f \in Frames : f.call = c /\ f.at = "guarded" /\ Stands(f)
    BY <1>10, Kinds, Moves DEF SubmitFails, Stages, Errors
  <2> QED
    BY <1>10, <2>1 DEF SubmitFails, Drops, Moved, IInv, TypeOK, builder, leases
<1>11. ASSUME NEW c \in Calls, SubmitCollected(c) PROVE TypeOK'
  <2>1. /\ Moved(Frame(c, "reporting", "error"))
        /\ \E f \in Frames : f.call = c /\ f.at = "guarded" /\ Stands(f)
    BY <1>11, Kinds, Moves DEF SubmitCollected, Stages, Errors
  <2> QED
    BY <1>11, <2>1 DEF SubmitCollected, Drops, Moved, IInv, TypeOK, builder, leases
<1>12. ASSUME NEW x \in Natives, Report(x) PROVE TypeOK'
  <2>1. /\ Left(x)
        /\ \E f \in Frames : /\ f.call = x /\ f.at = "reporting" /\ Stands(f)
                            /\ result' = [result EXCEPT ![x] = f.verdict]
    BY <1>12, Leaves DEF Report, At
  <2>2. result' \in [Natives -> Errors \cup {"none", "ok", "session", "thrown"}]
    BY <2>1 DEF Stands, IInv, TypeOK
  <2> QED
    BY <1>12, <2>1, <2>2 DEF Report, Left, IInv, TypeOK, builder, leases
<1>13. ASSUME NEW x \in Natives, Throw(x) PROVE TypeOK'
  <2>1. /\ Left(x) /\ result' = [result EXCEPT ![x] = "thrown"]
        /\ \E f \in Frames : f.call = x /\ f.at \in Allocating /\ Stands(f)
    BY <1>13, Leaves DEF Throw
  <2> QED
    BY <1>13, <2>1 DEF Throw, Left, IInv, TypeOK, builder, leases
<1>14. ASSUME NEW c \in Calls, CloseLease(c) PROVE TypeOK'
  BY <1>14 DEF CloseLease, Finalized, IInv, TypeOK, builder, leases
<1>15. ASSUME CloseState PROVE TypeOK'
  <2>1. <<>> \in Seq(Pushes)
    OBVIOUS
  <2> QED
    BY <1>15, <2>1 DEF CloseState, Finalized, IInv, TypeOK, builder, leases
<1>16. ASSUME Closes PROVE TypeOK'
  BY <1>16 DEF Closes, IInv, TypeOK, builder, leases
<1>17. ASSUME UNCHANGED <<frames, list, pushed, collected, closing, dead,
                          meta, finalizable, guard, lease, result, sent>>
      PROVE  TypeOK'
  BY <1>17 DEF IInv, TypeOK, builder, leases
<1> QED
  BY <1>1, <1>2, <1>3, <1>4, <1>5, <1>6, <1>7, <1>8, <1>9, <1>10, <1>11, <1>12,
     <1>13, <1>14, <1>15, <1>16, <1>17, Actions
     DEF builder, leases, vars

\* The calls on the stack stay different, and where they are known to be.
LEMMA StackStep ==
    ASSUME IInv, [Next]_vars
    PROVE  StackInv'
<1>1. ASSUME NEW p \in Pushes, Push(p) PROVE StackInv'
  <2>1. Entered(Frame(p, "params", "ok")) /\ result[p] = "none"
    BY <1>1, Kinds, Enters DEF Push, Stages, Errors
  <2>2. Frame(p, "params", "ok").call = p
    BY DEF Frame
  <2>3. Stands(Frame(p, "params", "ok"))'
    BY <1>1, <2>1, Kinds DEF Push, Stands, Frame
  <2>4. \A y \in Natives \ {p} : Untouched(y)
    BY <1>1 DEF Push, Untouched, leases
  <2> QED
    BY <2>1, <2>2, <2>3, <2>4, StackEntered DEF Entered
<1>2. ASSUME NEW p \in Pushes, Pushed(p) PROVE StackInv'
  <2>1. CASE collected
    <3>1. /\ Moved(Frame(p, "reporting", "error"))
          /\ \E f \in Frames : f.call = p /\ f.at = "params" /\ Stands(f)
      BY <1>2, <2>1, Kinds, Moves DEF Pushed, Stages, Errors
    <3>2. Frame(p, "reporting", "error").call = p
      BY DEF Frame
    <3>3. Stands(Frame(p, "reporting", "error"))'
      BY <1>2, <2>1, <3>1, Kinds
         DEF Pushed, Stands, Frame, Errors, IInv, TypeOK, MetaInv,
             builder, leases
    <3>4. \A y \in Natives \ {p} : Untouched(y)
      BY <1>2, <2>1, <3>1, Kinds
         DEF Pushed, Untouched, IInv, TypeOK, builder, leases
    <3> QED
      BY <3>1, <3>2, <3>3, <3>4, StackMoved DEF Moved
  <2>2. CASE ~collected
    <3>1. Left(p) /\ result' = [result EXCEPT ![p] = "ok"]
      BY <1>2, <2>2, Kinds, Leaves DEF Pushed, At
    <3>2. \A y \in Natives \ {p} : Untouched(y)
      BY <1>2, <2>2, <3>1, Kinds DEF Pushed, Untouched, IInv, TypeOK, leases
    <3> QED  BY <3>1, <3>2, Kinds, StackLeft
  <2> QED  BY <2>1, <2>2
<1>3. ASSUME NEW p \in Pushes, BadParam(p) PROVE StackInv'
  <2>1. /\ Moved(Frame(p, "reporting", "error"))
        /\ \E f \in Frames : f.call = p /\ f.at = "params" /\ Stands(f)
    BY <1>3, Kinds, Moves DEF BadParam, Stages, Errors
  <2>2. Frame(p, "reporting", "error").call = p
    BY DEF Frame
  <2>3. Stands(Frame(p, "reporting", "error"))'
    BY <1>3, <2>1, Kinds
       DEF BadParam, Stands, Frame, Errors, IInv, TypeOK, MetaInv,
           builder, leases
  <2>4. \A y \in Natives \ {p} : Untouched(y)
    BY <1>3, <2>1, Kinds
       DEF BadParam, Untouched, IInv, TypeOK, builder, leases
  <2> QED
    BY <2>1, <2>2, <2>3, <2>4, StackMoved DEF Moved
<1>4. ASSUME NEW c \in Calls, Transaction(c) PROVE StackInv'
  <2>1. CASE collected
    <3>1. Entered(Frame(c, "reporting", "error")) /\ result[c] = "none"
      BY <1>4, <2>1, Kinds, Enters DEF Transaction, Stages, Errors
    <3>2. Frame(c, "reporting", "error").call = c
      BY DEF Frame
    <3>3. Stands(Frame(c, "reporting", "error"))'
      BY <1>4, <2>1, <3>1, Kinds
         DEF Transaction, Stands, Frame, Errors, IInv, TypeOK, MetaInv,
             builder, leases
    <3>4. \A y \in Natives \ {c} : Untouched(y)
      BY <1>4, <2>1, <3>1, Kinds
         DEF Transaction, Untouched, IInv, TypeOK, builder, leases
    <3> QED
      BY <3>1, <3>2, <3>3, <3>4, StackEntered DEF Entered
  <2>2. CASE ~collected /\ closing
    <3>1. Entered(Frame(c, "reporting", "closed")) /\ result[c] = "none"
      BY <1>4, <2>2, Kinds, Enters DEF Transaction, Stages, Errors
    <3>2. Frame(c, "reporting", "closed").call = c
      BY DEF Frame
    <3>3. Stands(Frame(c, "reporting", "closed"))'
      BY <1>4, <2>2, <3>1, Kinds
         DEF Transaction, Stands, Frame, Errors, IInv, TypeOK, MetaInv,
             builder, leases
    <3>4. \A y \in Natives \ {c} : Untouched(y)
      BY <1>4, <2>2, <3>1, Kinds
         DEF Transaction, Untouched, IInv, TypeOK, builder, leases
    <3> QED
      BY <3>1, <3>2, <3>3, <3>4, StackEntered DEF Entered
  <2>3. CASE ~collected /\ ~closing
    <3>1. Entered(Frame(c, "looking", "closed")) /\ result[c] = "none"
      BY <1>4, <2>3, Kinds, Enters DEF Transaction, Stages, Errors
    <3>2. Frame(c, "looking", "closed").call = c
      BY DEF Frame
    <3>3. Stands(Frame(c, "looking", "closed"))'
      BY <1>4, <2>3, <3>1, Kinds
         DEF Transaction, Stands, Frame, Errors, IInv, TypeOK, MetaInv,
             builder, leases
    <3>4. \A y \in Natives \ {c} : Untouched(y)
      BY <1>4, <2>3, <3>1, Kinds
         DEF Transaction, Untouched, IInv, TypeOK, builder, leases
    <3> QED
      BY <3>1, <3>2, <3>3, <3>4, StackEntered DEF Entered
  <2> QED  BY <2>1, <2>2, <2>3
<1>5. ASSUME NEW c \in Calls, Look(c) PROVE StackInv'
  <2>1. CASE meta = NoMeta
    <3>1. /\ Moved(Frame(c, "building", "ok"))
          /\ \E f \in Frames : f.call = c /\ f.at = "looking" /\ Stands(f)
      BY <1>5, <2>1, Kinds, Moves DEF Look, Stages, Errors
    <3>2. Frame(c, "building", "ok").call = c
      BY DEF Frame
    <3>3. Stands(Frame(c, "building", "ok"))'
      BY <1>5, <2>1, <3>1, Kinds
         DEF Look, Stands, Frame, Errors, IInv, TypeOK, MetaInv,
             builder, leases
    <3>4. \A y \in Natives \ {c} : Untouched(y)
      BY <1>5, <2>1, <3>1, Kinds
         DEF Look, Untouched, IInv, TypeOK, builder, leases
    <3> QED
      BY <3>1, <3>2, <3>3, <3>4, StackMoved DEF Moved
  <2>2. CASE meta # NoMeta
    <3>1. /\ Moved(Frame(c, "creating", "ok"))
          /\ \E f \in Frames : f.call = c /\ f.at = "looking" /\ Stands(f)
      BY <1>5, <2>2, Kinds, Moves DEF Look, Stages, Errors
    <3>2. Frame(c, "creating", "ok").call = c
      BY DEF Frame
    <3>3. Stands(Frame(c, "creating", "ok"))'
      BY <1>5, <2>2, <3>1, Kinds
         DEF Look, Stands, Frame, Errors, IInv, TypeOK, MetaInv,
             builder, leases
    <3>4. \A y \in Natives \ {c} : Untouched(y)
      BY <1>5, <2>2, <3>1, Kinds
         DEF Look, Untouched, IInv, TypeOK, builder, leases
    <3> QED
      BY <3>1, <3>2, <3>3, <3>4, StackMoved DEF Moved
  <2> QED  BY <2>1, <2>2
<1>6. ASSUME NEW c \in Calls, Publish(c) PROVE StackInv'
  <2>1. /\ Moved(Frame(c, "creating", "ok"))
        /\ \E f \in Frames : f.call = c /\ f.at = "building" /\ Stands(f)
    BY <1>6, Kinds, Moves DEF Publish, Stages, Errors
  <2>2. Frame(c, "creating", "ok").call = c
    BY DEF Frame
  <2>3. Stands(Frame(c, "creating", "ok"))'
    BY <1>6, <2>1, Kinds
       DEF Publish, Stands, Frame, Errors, IInv, TypeOK, MetaInv,
           builder, leases
  <2>4. \A y \in Natives \ {c} : Untouched(y)
    BY <1>6, <2>1, Kinds
       DEF Publish, Untouched, IInv, TypeOK, builder, leases
  <2> QED
    BY <2>1, <2>2, <2>3, <2>4, StackMoved DEF Moved
<1>7. ASSUME NEW c \in Calls, Create(c) PROVE StackInv'
  <2>1. /\ Moved(Frame(c, "guarded", "ok"))
        /\ \E f \in Frames : f.call = c /\ f.at = "creating" /\ Stands(f)
    BY <1>7, Kinds, Moves DEF Create, Stages, Errors
  <2>2. Frame(c, "guarded", "ok").call = c
    BY DEF Frame
  <2>3. Stands(Frame(c, "guarded", "ok"))'
    BY <1>7, <2>1, Kinds
       DEF Create, Stands, Frame, Errors, IInv, TypeOK, MetaInv,
           builder, leases
  <2>4. \A y \in Natives \ {c} : Untouched(y)
    BY <1>7, <2>1, Kinds
       DEF Create, Untouched, IInv, TypeOK, builder, leases
  <2> QED
    BY <2>1, <2>2, <2>3, <2>4, StackMoved DEF Moved
<1>8. ASSUME NEW c \in Calls, Submit(c) PROVE StackInv'
  <2>1. /\ Left(c) /\ result' = [result EXCEPT ![c] = "session"]
        /\ \E f \in Frames : f.call = c /\ f.at = "guarded" /\ Stands(f)
    BY <1>8, Kinds, Leaves DEF Submit, At
  <2>2. \A y \in Natives \ {c} : Untouched(y)
    BY <1>8, <2>1, Kinds DEF Submit, Untouched, IInv, TypeOK, leases, builder
  <2> QED  BY <2>1, <2>2, Kinds, StackLeft
<1>9. ASSUME NEW c \in Calls, SubmitFails(c) PROVE StackInv'
  <2>1. /\ Moved(Frame(c, "reporting", "busy"))
        /\ \E f \in Frames : f.call = c /\ f.at = "guarded" /\ Stands(f)
    BY <1>9, Kinds, Moves DEF SubmitFails, Stages, Errors
  <2>2. Frame(c, "reporting", "busy").call = c
    BY DEF Frame
  <2>3. Stands(Frame(c, "reporting", "busy"))'
    BY <1>9, <2>1, Kinds
       DEF SubmitFails, Drops, Stands, Frame, Errors, IInv, TypeOK, MetaInv,
           builder, leases
  <2>4. \A y \in Natives \ {c} : Untouched(y)
    BY <1>9, <2>1, Kinds
       DEF SubmitFails, Drops, Untouched, IInv, TypeOK, builder, leases
  <2> QED
    BY <2>1, <2>2, <2>3, <2>4, StackMoved DEF Moved
<1>10. ASSUME NEW c \in Calls, SubmitCollected(c) PROVE StackInv'
  <2>1. /\ Moved(Frame(c, "reporting", "error"))
        /\ \E f \in Frames : f.call = c /\ f.at = "guarded" /\ Stands(f)
    BY <1>10, Kinds, Moves DEF SubmitCollected, Stages, Errors
  <2>2. Frame(c, "reporting", "error").call = c
    BY DEF Frame
  <2>3. Stands(Frame(c, "reporting", "error"))'
    BY <1>10, <2>1, Kinds
       DEF SubmitCollected, Drops, Stands, Frame, Errors, IInv, TypeOK, MetaInv,
           builder, leases
  <2>4. \A y \in Natives \ {c} : Untouched(y)
    BY <1>10, <2>1, Kinds
       DEF SubmitCollected, Drops, Untouched, IInv, TypeOK, builder, leases
  <2> QED
    BY <2>1, <2>2, <2>3, <2>4, StackMoved DEF Moved
<1>11. ASSUME NEW x \in Natives, Report(x) PROVE StackInv'
  <2>1. /\ Left(x)
        /\ \E f \in Frames : /\ f.call = x /\ f.at = "reporting" /\ Stands(f)
                            /\ result' = [result EXCEPT ![x] = f.verdict]
    BY <1>11, Leaves DEF Report, At
  <2>2. \A y \in Natives \ {x} : Untouched(y)
    BY <1>11, <2>1, Kinds DEF Report, Untouched, IInv, TypeOK, leases, builder
  <2> QED  BY <2>1, <2>2, Kinds, StackLeft
<1>12. ASSUME NEW x \in Natives, Throw(x) PROVE StackInv'
  <2>1. /\ Left(x) /\ result' = [result EXCEPT ![x] = "thrown"]
        /\ \E f \in Frames : f.call = x /\ f.at \in Allocating /\ Stands(f)
    BY <1>12, Leaves DEF Throw
  <2>2. \A y \in Natives \ {x} : Untouched(y)
    BY <1>12, <2>1, Kinds DEF Throw, Untouched, IInv, TypeOK, leases, builder
  <2> QED  BY <2>1, <2>2, Kinds, StackLeft
<1>13. ASSUME NEW c \in Calls, CloseLease(c) PROVE StackInv'
  <2>1. ASSUME NEW f \in Frames, NEW i \in 1..Len(frames), frames[i] = f
        PROVE  Stands(f)'
    <3>1. Stands(f) /\ result[f.call] = "none"
      BY <2>1 DEF IInv, StackInv, Stands
    <3>2. f.call \in Natives /\ f.call # c
      BY <1>13, <3>1 DEF CloseLease, Frames
    <3> QED
      BY <1>13, <3>1, <3>2, StandsKept
         DEF CloseLease, Untouched, IInv, TypeOK
  <2> QED  BY <1>13, <2>1 DEF CloseLease, IInv, StackInv
<1>14. ASSUME CloseState PROVE StackInv'
  BY <1>14 DEF CloseState, StackInv
<1>15. ASSUME UNCHANGED <<frames, result, lease, guard, finalizable>>
      PROVE  StackInv'
  BY <1>15 DEF IInv, StackInv, Stands
<1> QED
  BY <1>1, <1>2, <1>3, <1>4, <1>5, <1>6, <1>7, <1>8, <1>9, <1>10, <1>11, <1>12,
     <1>13, <1>14, <1>15, Actions
     DEF Collect, Closes, builder, leases, vars

\* A lease is left where the outcome of its call says.
LEMMA CallStep ==
    ASSUME IInv, [Next]_vars
    PROVE  CallInv'
<1> SUFFICES ASSUME NEW d \in Calls PROVE CallOf(d)'
  BY DEF CallInv
<1>0. CallOf(d)
  BY DEF IInv, CallInv
<1>1. ASSUME NEW p \in Pushes, Push(p) PROVE CallOf(d)'
  <2>1. Entered(Frame(p, "params", "ok")) /\ result[p] = "none"
    BY <1>1, Kinds, Enters DEF Push, Stages, Errors
  <2>2. Frame(p, "params", "ok").call = p /\ Frame(p, "params", "ok") \in Frames
    BY <2>1 DEF Frame, Entered
  <2>3. d # p /\ Untouched(d)
    BY <1>1, Kinds DEF Push, Untouched, leases
  <2>4. OnStack(d)' <=> OnStack(d)
    BY <2>1, <2>2, <2>3, OthersStay
  <2> QED  BY <1>0, <2>3, <2>4, CallKept
<1>2. ASSUME NEW p \in Pushes, Pushed(p) PROVE CallOf(d)'
  <2>1. CASE collected
    <3>1. /\ Moved(Frame(p, "reporting", "error"))
          /\ \E f \in Frames : f.call = p /\ f.at = "params" /\ Stands(f)
      BY <1>2, <2>1, Kinds, Moves DEF Pushed, Stages, Errors
    <3>2. Frame(p, "reporting", "error").call = p
           /\ Frame(p, "reporting", "error") \in Frames
      BY <3>1 DEF Frame, Moved
    <3>3. d # p /\ Untouched(d)
      BY <1>2, <2>1, Kinds DEF Pushed, Untouched, leases
    <3>4. OnStack(d)' <=> OnStack(d)
      BY <3>1, <3>2, <3>3, OthersStay
    <3> QED  BY <1>0, <3>3, <3>4, CallKept
  <2>2. CASE ~collected
    <3>1. Left(p) /\ result' = [result EXCEPT ![p] = "ok"]
      BY <1>2, <2>2, Kinds, Leaves DEF Pushed, At
    <3>2. d # p /\ Untouched(d)
      BY <1>2, <2>2, <3>1, Kinds DEF Pushed, Untouched, IInv, TypeOK, leases
    <3>3. OnStack(d)' <=> OnStack(d)
      BY <3>1, <3>2, OthersStay
    <3> QED  BY <1>0, <3>2, <3>3, CallKept
  <2> QED  BY <2>1, <2>2
<1>3. ASSUME NEW p \in Pushes, BadParam(p) PROVE CallOf(d)'
  <2>1. /\ Moved(Frame(p, "reporting", "error"))
        /\ \E f \in Frames : f.call = p /\ f.at = "params" /\ Stands(f)
    BY <1>3, Kinds, Moves DEF BadParam, Stages, Errors
  <2>2. Frame(p, "reporting", "error").call = p
         /\ Frame(p, "reporting", "error") \in Frames
    BY <2>1 DEF Frame, Moved
  <2>3. d # p /\ Untouched(d)
    BY <1>3, Kinds DEF BadParam, Untouched, leases
  <2>4. OnStack(d)' <=> OnStack(d)
    BY <2>1, <2>2, <2>3, OthersStay
  <2> QED  BY <1>0, <2>3, <2>4, CallKept
<1>4. ASSUME NEW c \in Calls, Transaction(c) PROVE CallOf(d)'
  <2>1. CASE collected
    <3>1. Entered(Frame(c, "reporting", "error")) /\ result[c] = "none"
      BY <1>4, <2>1, Kinds, Enters DEF Transaction, Stages, Errors
    <3>2. /\ Frame(c, "reporting", "error").call = c
          /\ Frame(c, "reporting", "error") \in Frames
      BY <3>1 DEF Frame, Moved, Entered
    <3>3. CASE d # c
      <4>1. OnStack(d)' <=> OnStack(d)
        BY <3>1, <3>2, <3>3, OthersStay
      <4>2. Untouched(d)
        BY <1>4, <2>1, <3>1, <3>3, Kinds
           DEF Transaction, Untouched, IInv, TypeOK, builder, leases
      <4> QED  BY <1>0, <4>1, <4>2, CallKept
    <3>4. CASE d = c
      <4>1. OnStack(d)'
        BY <3>1, <3>2, <3>4, OnTop
      <4> QED
        BY <1>0, <1>4, <2>1, <3>1, <3>4, <4>1, Kinds
           DEF Transaction, CallOf, Stands, Errors, IInv, TypeOK, builder,
               leases
    <3> QED  BY <3>3, <3>4
  <2>2. CASE ~collected /\ closing
    <3>1. Entered(Frame(c, "reporting", "closed")) /\ result[c] = "none"
      BY <1>4, <2>2, Kinds, Enters DEF Transaction, Stages, Errors
    <3>2. /\ Frame(c, "reporting", "closed").call = c
          /\ Frame(c, "reporting", "closed") \in Frames
      BY <3>1 DEF Frame, Moved, Entered
    <3>3. CASE d # c
      <4>1. OnStack(d)' <=> OnStack(d)
        BY <3>1, <3>2, <3>3, OthersStay
      <4>2. Untouched(d)
        BY <1>4, <2>2, <3>1, <3>3, Kinds
           DEF Transaction, Untouched, IInv, TypeOK, builder, leases
      <4> QED  BY <1>0, <4>1, <4>2, CallKept
    <3>4. CASE d = c
      <4>1. OnStack(d)'
        BY <3>1, <3>2, <3>4, OnTop
      <4> QED
        BY <1>0, <1>4, <2>2, <3>1, <3>4, <4>1, Kinds
           DEF Transaction, CallOf, Stands, Errors, IInv, TypeOK, builder,
               leases
    <3> QED  BY <3>3, <3>4
  <2>3. CASE ~collected /\ ~closing
    <3>1. Entered(Frame(c, "looking", "closed")) /\ result[c] = "none"
      BY <1>4, <2>3, Kinds, Enters DEF Transaction, Stages, Errors
    <3>2. /\ Frame(c, "looking", "closed").call = c
          /\ Frame(c, "looking", "closed") \in Frames
      BY <3>1 DEF Frame, Moved, Entered
    <3>3. CASE d # c
      <4>1. OnStack(d)' <=> OnStack(d)
        BY <3>1, <3>2, <3>3, OthersStay
      <4>2. Untouched(d)
        BY <1>4, <2>3, <3>1, <3>3, Kinds
           DEF Transaction, Untouched, IInv, TypeOK, builder, leases
      <4> QED  BY <1>0, <4>1, <4>2, CallKept
    <3>4. CASE d = c
      <4>1. OnStack(d)'
        BY <3>1, <3>2, <3>4, OnTop
      <4> QED
        BY <1>0, <1>4, <2>3, <3>1, <3>4, <4>1, Kinds
           DEF Transaction, CallOf, Stands, Errors, IInv, TypeOK, builder,
               leases
    <3> QED  BY <3>3, <3>4
  <2> QED  BY <2>1, <2>2, <2>3
<1>5. ASSUME NEW c \in Calls, Look(c) PROVE CallOf(d)'
  <2>1. CASE meta = NoMeta
    <3>1. /\ Moved(Frame(c, "building", "ok"))
          /\ \E f \in Frames : f.call = c /\ f.at = "looking" /\ Stands(f)
      BY <1>5, <2>1, Kinds, Moves DEF Look, Stages, Errors
    <3>2. /\ Frame(c, "building", "ok").call = c
          /\ Frame(c, "building", "ok") \in Frames
      BY <3>1 DEF Frame, Moved, Entered
    <3>3. CASE d # c
      <4>1. OnStack(d)' <=> OnStack(d)
        BY <3>1, <3>2, <3>3, OthersStay
      <4>2. Untouched(d)
        BY <1>5, <2>1, <3>1, <3>3, Kinds
           DEF Look, Untouched, IInv, TypeOK, builder, leases
      <4> QED  BY <1>0, <4>1, <4>2, CallKept
    <3>4. CASE d = c
      <4>1. OnStack(d)'
        BY <3>1, <3>2, <3>4, OnTop
      <4> QED
        BY <1>0, <1>5, <2>1, <3>1, <3>4, <4>1, Kinds
           DEF Look, CallOf, Stands, Errors, IInv, TypeOK, builder,
               leases
    <3> QED  BY <3>3, <3>4
  <2>2. CASE meta # NoMeta
    <3>1. /\ Moved(Frame(c, "creating", "ok"))
          /\ \E f \in Frames : f.call = c /\ f.at = "looking" /\ Stands(f)
      BY <1>5, <2>2, Kinds, Moves DEF Look, Stages, Errors
    <3>2. /\ Frame(c, "creating", "ok").call = c
          /\ Frame(c, "creating", "ok") \in Frames
      BY <3>1 DEF Frame, Moved, Entered
    <3>3. CASE d # c
      <4>1. OnStack(d)' <=> OnStack(d)
        BY <3>1, <3>2, <3>3, OthersStay
      <4>2. Untouched(d)
        BY <1>5, <2>2, <3>1, <3>3, Kinds
           DEF Look, Untouched, IInv, TypeOK, builder, leases
      <4> QED  BY <1>0, <4>1, <4>2, CallKept
    <3>4. CASE d = c
      <4>1. OnStack(d)'
        BY <3>1, <3>2, <3>4, OnTop
      <4> QED
        BY <1>0, <1>5, <2>2, <3>1, <3>4, <4>1, Kinds
           DEF Look, CallOf, Stands, Errors, IInv, TypeOK, builder,
               leases
    <3> QED  BY <3>3, <3>4
  <2> QED  BY <2>1, <2>2
<1>6. ASSUME NEW c \in Calls, Publish(c) PROVE CallOf(d)'
  <2>1. /\ Moved(Frame(c, "creating", "ok"))
        /\ \E f \in Frames : f.call = c /\ f.at = "building" /\ Stands(f)
    BY <1>6, Kinds, Moves DEF Publish, Stages, Errors
  <2>2. /\ Frame(c, "creating", "ok").call = c
        /\ Frame(c, "creating", "ok") \in Frames
    BY <2>1 DEF Frame, Moved, Entered
  <2>3. CASE d # c
    <3>1. OnStack(d)' <=> OnStack(d)
      BY <2>1, <2>2, <2>3, OthersStay
    <3>2. Untouched(d)
      BY <1>6, <2>1, <2>3, Kinds
         DEF Publish, Untouched, IInv, TypeOK, builder, leases
    <3> QED  BY <1>0, <3>1, <3>2, CallKept
  <2>4. CASE d = c
    <3>1. OnStack(d)'
      BY <2>1, <2>2, <2>4, OnTop
    <3> QED
      BY <1>0, <1>6, <2>1, <2>4, <3>1, Kinds
         DEF Publish, CallOf, Stands, Errors, IInv, TypeOK, builder,
             leases
  <2> QED  BY <2>3, <2>4
<1>7. ASSUME NEW c \in Calls, Create(c) PROVE CallOf(d)'
  <2>1. /\ Moved(Frame(c, "guarded", "ok"))
        /\ \E f \in Frames : f.call = c /\ f.at = "creating" /\ Stands(f)
    BY <1>7, Kinds, Moves DEF Create, Stages, Errors
  <2>2. /\ Frame(c, "guarded", "ok").call = c
        /\ Frame(c, "guarded", "ok") \in Frames
    BY <2>1 DEF Frame, Moved, Entered
  <2>3. CASE d # c
    <3>1. OnStack(d)' <=> OnStack(d)
      BY <2>1, <2>2, <2>3, OthersStay
    <3>2. Untouched(d)
      BY <1>7, <2>1, <2>3, Kinds
         DEF Create, Untouched, IInv, TypeOK, builder, leases
    <3> QED  BY <1>0, <3>1, <3>2, CallKept
  <2>4. CASE d = c
    <3>1. OnStack(d)'
      BY <2>1, <2>2, <2>4, OnTop
    <3> QED
      BY <1>0, <1>7, <2>1, <2>4, <3>1, Kinds
         DEF Create, CallOf, Stands, Errors, IInv, TypeOK, builder,
             leases
  <2> QED  BY <2>3, <2>4
<1>8. ASSUME NEW c \in Calls, Submit(c) PROVE CallOf(d)'
  <2>1. /\ Left(c) /\ result' = [result EXCEPT ![c] = "session"]
        /\ \E f \in Frames : f.call = c /\ f.at = "guarded" /\ Stands(f)
    BY <1>8, Kinds, Leaves DEF Submit, At
  <2>2. CASE d # c
    <3>1. OnStack(d)' <=> OnStack(d)
      BY <2>1, <2>2, OthersStay
    <3>2. Untouched(d)
      BY <1>8, <2>1, <2>2, Kinds DEF Submit, Untouched, IInv, TypeOK, leases, builder
    <3> QED  BY <1>0, <3>1, <3>2, CallKept
  <2>3. CASE d = c
    BY <1>0, <1>8, <2>1, <2>3, Kinds
       DEF Submit, CallOf, Stands, Errors, Allocating, IInv, TypeOK, leases, builder
  <2> QED  BY <2>2, <2>3
<1>9. ASSUME NEW c \in Calls, SubmitFails(c) PROVE CallOf(d)'
  <2>1. /\ Moved(Frame(c, "reporting", "busy"))
        /\ \E f \in Frames : f.call = c /\ f.at = "guarded" /\ Stands(f)
    BY <1>9, Kinds, Moves DEF SubmitFails, Stages, Errors
  <2>2. /\ Frame(c, "reporting", "busy").call = c
        /\ Frame(c, "reporting", "busy") \in Frames
    BY <2>1 DEF Frame, Moved, Entered
  <2>3. CASE d # c
    <3>1. OnStack(d)' <=> OnStack(d)
      BY <2>1, <2>2, <2>3, OthersStay
    <3>2. Untouched(d)
      BY <1>9, <2>1, <2>3, Kinds
         DEF SubmitFails, Drops, Untouched, IInv, TypeOK, builder, leases
    <3> QED  BY <1>0, <3>1, <3>2, CallKept
  <2>4. CASE d = c
    <3>1. OnStack(d)'
      BY <2>1, <2>2, <2>4, OnTop
    <3> QED
      BY <1>0, <1>9, <2>1, <2>4, <3>1, Kinds
         DEF SubmitFails, Drops, CallOf, Stands, Errors, IInv, TypeOK, builder,
             leases
  <2> QED  BY <2>3, <2>4
<1>10. ASSUME NEW c \in Calls, SubmitCollected(c) PROVE CallOf(d)'
  <2>1. /\ Moved(Frame(c, "reporting", "error"))
        /\ \E f \in Frames : f.call = c /\ f.at = "guarded" /\ Stands(f)
    BY <1>10, Kinds, Moves DEF SubmitCollected, Stages, Errors
  <2>2. /\ Frame(c, "reporting", "error").call = c
        /\ Frame(c, "reporting", "error") \in Frames
    BY <2>1 DEF Frame, Moved, Entered
  <2>3. CASE d # c
    <3>1. OnStack(d)' <=> OnStack(d)
      BY <2>1, <2>2, <2>3, OthersStay
    <3>2. Untouched(d)
      BY <1>10, <2>1, <2>3, Kinds
         DEF SubmitCollected, Drops, Untouched, IInv, TypeOK, builder, leases
    <3> QED  BY <1>0, <3>1, <3>2, CallKept
  <2>4. CASE d = c
    <3>1. OnStack(d)'
      BY <2>1, <2>2, <2>4, OnTop
    <3> QED
      BY <1>0, <1>10, <2>1, <2>4, <3>1, Kinds
         DEF SubmitCollected, Drops, CallOf, Stands, Errors, IInv, TypeOK, builder,
             leases
  <2> QED  BY <2>3, <2>4
<1>11. ASSUME NEW x \in Natives, Report(x) PROVE CallOf(d)'
  <2>1. /\ Left(x)
        /\ \E f \in Frames : /\ f.call = x /\ f.at = "reporting" /\ Stands(f)
                            /\ result' = [result EXCEPT ![x] = f.verdict]
    BY <1>11, Leaves DEF Report, At
  <2>2. CASE d # x
    <3>1. OnStack(d)' <=> OnStack(d)
      BY <2>1, <2>2, OthersStay
    <3>2. Untouched(d)
      BY <1>11, <2>1, <2>2, Kinds DEF Report, Untouched, IInv, TypeOK, leases, builder
    <3> QED  BY <1>0, <3>1, <3>2, CallKept
  <2>3. CASE d = x
    BY <1>0, <1>11, <2>1, <2>3, Kinds
       DEF Report, CallOf, Stands, Errors, Allocating, IInv, TypeOK, leases, builder
  <2> QED  BY <2>2, <2>3
<1>12. ASSUME NEW x \in Natives, Throw(x) PROVE CallOf(d)'
  <2>1. /\ Left(x) /\ result' = [result EXCEPT ![x] = "thrown"]
        /\ \E f \in Frames : f.call = x /\ f.at \in Allocating /\ Stands(f)
    BY <1>12, Leaves DEF Throw
  <2>2. CASE d # x
    <3>1. OnStack(d)' <=> OnStack(d)
      BY <2>1, <2>2, OthersStay
    <3>2. Untouched(d)
      BY <1>12, <2>1, <2>2, Kinds DEF Throw, Untouched, IInv, TypeOK, leases, builder
    <3> QED  BY <1>0, <3>1, <3>2, CallKept
  <2>3. CASE d = x
    BY <1>0, <1>12, <2>1, <2>3, Kinds
       DEF Throw, CallOf, Stands, Errors, Allocating, IInv, TypeOK, leases, builder
  <2> QED  BY <2>2, <2>3
<1>13. ASSUME NEW c \in Calls, CloseLease(c) PROVE CallOf(d)'
  BY <1>0, <1>13 DEF CloseLease, Finalized, CallOf, OnStack, Errors, IInv, TypeOK
<1>14. ASSUME CloseState PROVE CallOf(d)'
  <2>1. ~OnStack(d) /\ frames' = frames
    BY <1>14 DEF CloseState, OnStack
  <2> QED
    BY <1>0, <1>14, <2>1
       DEF CloseState, Finalized, CallOf, OnStack, Errors, IInv, TypeOK
<1>15. ASSUME UNCHANGED <<frames, result, lease, guard, finalizable>>
      PROVE  CallOf(d)'
  BY <1>15, <1>0 DEF CallOf, OnStack
<1> QED
  BY <1>1, <1>2, <1>3, <1>4, <1>5, <1>6, <1>7, <1>8, <1>9, <1>10, <1>11, <1>12,
     <1>13, <1>14, <1>15, Actions
     DEF Collect, Closes, builder, leases, vars

\* A session is returned for what was sent, and for nothing else.
LEMMA SentStep ==
    ASSUME IInv, [Next]_vars
    PROVE  SentInv'
<1>1. ASSUME NEW p \in Pushes, Pushed(p) PROVE SentInv'
  <2>1. \A c \in Calls : result'[c] = result[c]
    BY <1>1, Kinds DEF Pushed, Returns, IInv, TypeOK
  <2>2. sent' = sent
    BY <1>1 DEF Pushed
  <2> QED  BY <2>1, <2>2 DEF IInv, SentInv
<1>2. ASSUME NEW c \in Calls, Submit(c) PROVE SentInv'
  <2>1. /\ Left(c) /\ result' = [result EXCEPT ![c] = "session"]
        /\ \E f \in Frames : f.call = c /\ f.at = "guarded" /\ Stands(f)
    BY <1>2, Kinds, Leaves DEF Submit, At
  <2> DEFINE s == [call |-> c, statements |-> list]
  <2>2. sent' = Append(sent, s) /\ s.call = c
    BY <1>2 DEF Submit
  <2>3. Len(sent) \in Nat /\ Len(sent') = Len(sent) + 1
    BY <2>2 DEF IInv, TypeOK
  <2>4. /\ \A i \in 1..Len(sent) : sent'[i] = sent[i]
        /\ sent'[Len(sent) + 1].call = c
    BY <2>2 DEF IInv, TypeOK
  <2>5. \A d \in Calls : result'[d] = IF d = c THEN "session" ELSE result[d]
    BY <2>1, Kinds DEF IInv, TypeOK
  <2> QED  BY <2>3, <2>4, <2>5 DEF IInv, SentInv
<1>3. ASSUME NEW x \in Natives, Report(x) PROVE SentInv'
  <2>1. /\ Left(x)
        /\ \E f \in Frames : /\ f.call = x /\ f.at = "reporting" /\ Stands(f)
                            /\ result' = [result EXCEPT ![x] = f.verdict]
    BY <1>3, Leaves DEF Report, At
  <2>2. result[x] = "none" /\ result'[x] # "session"
    BY <2>1 DEF Stands, Errors, IInv, TypeOK
  <2>3. sent' = sent
    BY <1>3 DEF Report
  <2>4. \A c \in Calls : result'[c] = "session" <=> result[c] = "session"
    BY <2>1, <2>2, Kinds DEF IInv, TypeOK
  <2> QED  BY <2>3, <2>4 DEF IInv, SentInv
<1>4. ASSUME NEW x \in Natives, Throw(x) PROVE SentInv'
  <2>1. /\ Left(x) /\ result' = [result EXCEPT ![x] = "thrown"]
        /\ \E f \in Frames : f.call = x /\ f.at \in Allocating /\ Stands(f)
    BY <1>4, Leaves DEF Throw
  <2>2. result[x] = "none" /\ result'[x] # "session"
    BY <2>1 DEF Stands, Errors, IInv, TypeOK
  <2>3. sent' = sent
    BY <1>4 DEF Throw
  <2>4. \A c \in Calls : result'[c] = "session" <=> result[c] = "session"
    BY <2>1, <2>2, Kinds DEF IInv, TypeOK
  <2> QED  BY <2>3, <2>4 DEF IInv, SentInv
<1>5. ASSUME UNCHANGED <<sent, result>> PROVE SentInv'
  BY <1>5 DEF IInv, SentInv
<1> QED
  BY <1>1, <1>2, <1>3, <1>4, <1>5, Actions
     DEF Push, BadParam, Collect, Transaction, Look, Publish, Create,
         SubmitFails, SubmitCollected, CloseLease, CloseState, Closes, builder,
         leases, vars

\* A table goes to the registry together with its __gc.
LEMMA MetaStep ==
    ASSUME IInv, [Next]_vars
    PROVE  MetaInv'
<1>1. ASSUME NEW c \in Calls, Publish(c) PROVE MetaInv'
  BY <1>1 DEF Publish, IInv, MetaInv
<1>2. ASSUME UNCHANGED <<meta, finalizable>> PROVE MetaInv'
  BY <1>2 DEF IInv, MetaInv
<1> QED
  BY <1>1, <1>2, Actions
     DEF Push, Pushed, BadParam, Collect, Transaction, Look, Create, Submit,
         SubmitFails, SubmitCollected, Report, Throw, CloseLease, CloseState,
         Closes, builder, leases, vars

\* A statement that goes in comes out once, in its place.
LEMMA KeptStep ==
    ASSUME IInv, [Next]_vars
    PROVE  StatementsKept'
<1>1. ASSUME NEW p \in Pushes, Pushed(p) PROVE StatementsKept'
  <2>1. CASE collected
    BY <1>1, <2>1 DEF Pushed, builder, IInv, StatementsKept, Cuts, Continues
  <2>2. CASE ~collected
    <3>1. PICK cut \in [0..Len(sent) -> 0..Len(pushed)] : Cuts(cut)
      BY DEF IInv, StatementsKept
    <3>2. /\ Len(pushed') = Len(pushed) + 1 /\ Len(pushed) \in Nat
          /\ \A i \in 1..Len(pushed) : pushed'[i] = pushed[i]
          /\ pushed'[Len(pushed) + 1] = p
      <4>1. pushed' = Append(pushed, p)
        BY <1>1, <2>2 DEF Pushed
      <4>2. pushed \in Seq(Pushes)
        BY DEF IInv, TypeOK
      <4> QED  BY <4>1, <4>2
    <3>3. /\ Len(list') = Len(list) + 1 /\ Len(list) \in Nat
          /\ \A i \in 1..Len(list) : list'[i] = list[i]
          /\ list'[Len(list) + 1] = p
      <4>1. list' = Append(list, p)
        BY <1>1, <2>2 DEF Pushed
      <4>2. list \in Seq(Pushes)
        BY DEF IInv, TypeOK
      <4> QED  BY <4>1, <4>2
    <3>4. sent' = sent /\ collected' = collected /\ Len(sent) \in Nat
      BY <1>1, <2>2 DEF Pushed, IInv, TypeOK
    <3>5. cut \in [0..Len(sent') -> 0..Len(pushed')]
      BY <3>1, <3>2, <3>4
    <3>6. ASSUME NEW i \in 1..Len(sent)
          PROVE  /\ Continues(sent[i].statements, cut[i - 1])'
                 /\ cut[i] = cut[i - 1] + Len(sent[i].statements)
      <4>1. /\ Continues(sent[i].statements, cut[i - 1])
            /\ cut[i] = cut[i - 1] + Len(sent[i].statements)
        BY <3>1 DEF Cuts
      <4>2. i - 1 \in 0..Len(sent) /\ i \in 1..Len(sent)
        BY <3>4
      <4>3. cut[i - 1] \in Nat
        BY <3>1, <3>2, <4>2
      <4> DEFINE Transactions == [call : Calls, statements : Seq(Pushes)]
      <4>9. sent \in Seq(Transactions)
        BY DEF IInv, TypeOK
      <4>4. sent[i] \in Transactions
        <5> HIDE DEF Transactions
        <5> QED  BY <4>2, <4>9
      <4>5. Len(sent[i].statements) \in Nat
        BY <4>4
      <4>6. sent'[i].statements = sent[i].statements
        BY <3>4
      <4>7. \A k \in 1..Len(sent[i].statements) :
               pushed'[cut[i - 1] + k] = pushed[cut[i - 1] + k]
        <5> DEFINE n == cut[i - 1]
                   l == Len(sent[i].statements)
        <5>1. n \in Nat /\ l \in Nat /\ n + l <= Len(pushed)
          BY <4>1, <4>3, <4>5 DEF Continues
        <5> HIDE DEF n, l
        <5>2. \A k \in 1..l : n + k \in 1..Len(pushed)
          BY <3>2, <5>1
        <5>3. \A k \in 1..l : pushed'[n + k] = pushed[n + k]
          BY <3>2, <5>2
        <5> QED  BY <5>3 DEF n, l
      <4>8. cut[i - 1] + Len(sent[i].statements) <= Len(pushed')
        BY <3>2, <4>1, <4>3, <4>5 DEF Continues
      <4> QED  BY <4>1, <4>6, <4>7, <4>8 DEF Continues
    <3>7. Continues(list, cut[Len(sent)])' /\ Len(pushed') = cut[Len(sent')] + Len(list')
      <4>1. /\ Continues(list, cut[Len(sent)]) /\ cut[Len(sent)] \in Nat
            /\ Len(pushed) = cut[Len(sent)] + Len(list)
        BY <2>2, <3>1, <3>2, <3>4 DEF Cuts
      <4> QED  BY <3>2, <3>3, <3>4, <4>1 DEF Continues
    <3>8. Cuts(cut)'
      BY <3>1, <3>4, <3>6, <3>7 DEF Cuts
    <3> QED  BY <3>5, <3>8 DEF StatementsKept
  <2> QED  BY <2>1, <2>2
<1>2. ASSUME Collect PROVE StatementsKept'
  <2>1. collected' = TRUE /\ UNCHANGED <<pushed, sent>>
    BY <1>2 DEF Collect
  <2> QED  BY <2>1 DEF IInv, StatementsKept, Cuts, Continues
<1>3. ASSUME NEW c \in Calls, Submit(c) PROVE StatementsKept'
  <2>1. PICK cut \in [0..Len(sent) -> 0..Len(pushed)] : Cuts(cut)
    BY DEF IInv, StatementsKept
  <2> DEFINE s == [call |-> c, statements |-> list]
             n == Len(sent)
             new == [i \in 0..(n + 1) |-> IF i = n + 1 THEN Len(pushed) ELSE cut[i]]
  <2>2. /\ ~collected /\ collected' = collected /\ pushed' = pushed /\ list' = <<>>
        /\ n \in Nat /\ Len(pushed) \in Nat /\ Len(list) \in Nat
    BY <1>3 DEF Submit, IInv, TypeOK
  <2>3. sent' = Append(sent, s) /\ s.statements = list
    BY <1>3 DEF Submit
  <2>4. /\ Len(sent') = n + 1
        /\ \A i \in 1..n : sent'[i] = sent[i]
        /\ sent'[n + 1].statements = list
    BY <2>3 DEF IInv, TypeOK
  <2> HIDE DEF s
  <2>5. /\ Continues(list, cut[n]) /\ cut[n] \in Nat /\ cut[0] = 0
        /\ Len(pushed) = cut[n] + Len(list)
        /\ \A i \in 1..n : /\ Continues(sent[i].statements, cut[i - 1])
                          /\ cut[i] = cut[i - 1] + Len(sent[i].statements)
    BY <2>1, <2>2 DEF Cuts
  <2>6. /\ \A i \in 0..n : cut[i] \in 0..Len(pushed)
        /\ new \in [0..(n + 1) -> 0..Len(pushed)]
    BY <2>1, <2>2
  <2>7. /\ \A i \in 0..n : new[i] = cut[i]
        /\ new[n + 1] = Len(pushed)
    BY <2>2
  <2> HIDE DEF new, n
  <2>8. ASSUME NEW i \in 1..(n + 1)
        PROVE  /\ Continues(sent'[i].statements, new[i - 1])
               /\ new[i] = new[i - 1] + Len(sent'[i].statements)
    <3>1. CASE i = n + 1
      BY <2>2, <2>4, <2>5, <2>7, <3>1
    <3>2. CASE i # n + 1
      <4>1. i \in 1..n /\ i - 1 \in 0..n /\ i \in 0..n
        BY <2>2, <3>2
      <4> QED  BY <2>4, <2>5, <2>7, <4>1
    <3> QED  BY <3>1, <3>2
  <2>9. Len(<<>>) = 0
    OBVIOUS
  <2>10. new \in [0..Len(sent') -> 0..Len(pushed')]
    BY <2>2, <2>4, <2>6
  <2>11. new[0] = 0
    BY <2>2, <2>5, <2>7
  <2> QED
    <3>1. \A i \in 1..Len(sent') :
              /\ new[i - 1] + Len(sent'[i].statements) <= Len(pushed')
              /\ \A k \in 1..Len(sent'[i].statements) :
                    sent'[i].statements[k] = pushed'[new[i - 1] + k]
              /\ new[i] = new[i - 1] + Len(sent'[i].statements)
      BY <2>2, <2>4, <2>8 DEF Continues
    <3>2. /\ new[n + 1] + Len(list') <= Len(pushed')
          /\ Len(pushed') = new[n + 1] + Len(list')
      BY <2>2, <2>7, <2>9
    <3>3. \A k \in 1..Len(list') : list'[k] = pushed'[new[n + 1] + k]
      BY <2>2
    <3> QED
      BY <2>4, <2>10, <2>11, <3>1, <3>2, <3>3 DEF StatementsKept, Cuts, Continues
<1>4. ASSUME CloseState PROVE StatementsKept'
  <2>1. collected' = TRUE /\ UNCHANGED <<pushed, sent>>
    BY <1>4 DEF CloseState
  <2> QED  BY <2>1 DEF IInv, StatementsKept, Cuts, Continues
<1>5. ASSUME UNCHANGED <<list, collected, pushed, sent>> PROVE StatementsKept'
  BY <1>5 DEF IInv, StatementsKept, Cuts, Continues
<1> QED
  BY <1>1, <1>2, <1>3, <1>4, <1>5, Actions
     DEF Push, BadParam, Transaction, Look, Publish, Create, SubmitFails,
         SubmitCollected, Report, Throw, CloseLease, Closes, builder, leases,
         vars

----------------------------------------------------------------------------
\* No call has been made.
LEMMA InitInv == Init => IInv
<1> SUFFICES ASSUME Init PROVE IInv
  OBVIOUS
<1>1. /\ Len(<<>>) = 0 /\ <<>> \in Seq(Frames) /\ <<>> \in Seq(Pushes)
      /\ <<>> \in Seq([call : Calls, statements : Seq(Pushes)])
  OBVIOUS
<1>2. TypeOK
  BY <1>1 DEF Init, TypeOK
<1>3. StackInv /\ CallInv /\ SentInv /\ MetaInv
  BY <1>1, Kinds DEF Init, StackInv, CallInv, CallOf, SentInv, MetaInv, Errors
<1>4. StatementsKept
  <2> DEFINE cut == [i \in 0..0 |-> 0]
  <2>1. cut \in [0..Len(sent) -> 0..Len(pushed)] /\ cut[0] = 0
    BY <1>1 DEF Init
  <2>2. sent = <<>> /\ list = <<>> /\ pushed = <<>> /\ Len(sent) = 0
    BY <1>1 DEF Init
  <2>3. Cuts(cut)
    BY <1>1, <2>1, <2>2 DEF Cuts, Continues
  <2> QED  BY <2>1, <2>3 DEF StatementsKept
<1> QED  BY <1>2, <1>3, <1>4 DEF IInv

\* The conjuncts of the inductive invariant, together.
LEMMA StepInv == IInv /\ [Next]_vars => IInv'
BY TypeStep, StackStep, CallStep, SentStep, MetaStep, KeptStep DEF IInv

\* The inductive invariant holds in every reachable state.
LEMMA Invariance == Spec => []IInv
BY InitInv, StepInv, PTL DEF Spec

\* Every variable of the boundary keeps its type.
THEOREM TypeCorrect == Spec => []TypeOK
<1>1. IInv => TypeOK
  BY DEF IInv
<1> QED  BY <1>1, Invariance, PTL

\* No statement is lost, doubled or reordered between push() and the channel,
\* whichever calls fail, throw, or run inside another.
THEOREM StatementsCorrect == Spec => []StatementsKept
<1>1. IInv => StatementsKept
  BY DEF IInv
<1> QED  BY <1>1, Invariance, PTL

\* A transaction() call that returns a session has sent its request and left
\* its lease to Lua; any other outcome has sent nothing and left no lease.
THEOREM TransactionsCorrect == Spec => []AllOrNothing
<1>1. IInv => AllOrNothing
  <2> SUFFICES ASSUME IInv, NEW c \in Calls
               PROVE  /\ (\E i \in DOMAIN sent : sent[i].call = c)
                            <=> result[c] = "session"
                      /\ lease[c] = "userdata" => guard[c] \in finalizable
                      /\ result[c] \in {"busy", "closed", "error", "thrown"} =>
                            lease[c] \in {"none", "dropped"}
    BY DEF AllOrNothing
  <2>1. DOMAIN sent = 1..Len(sent)
    BY DEF IInv, TypeOK
  <2> QED  BY <2>1 DEF IInv, SentInv, CallInv, CallOf, Errors
<1> QED  BY <1>1, Invariance, PTL

----------------------------------------------------------------------------
(***************************************************************************)
(* MongoActor.                                                             *)
(***************************************************************************)

\* Where a request stands behind the channel, and its call in front of it.
StageInv ==
    /\ \A r \in Requests : stage[r] = "none" <=> call[r] \in {"new", "refused"}
    /\ \A r \in Requests : stage[r] = "running" <=> r = cur
    /\ \A r \in Requests : stage[r] = "lost" => conn = "gone"

\* The channel holds queued requests, each once.
QueueInv ==
    /\ \A i \in 1..Len(queue) : stage[queue[i]] = "queued"
    /\ \A i, j \in 1..Len(queue) : queue[i] = queue[j] => i = j

\* Requests that have left the channel while there is a receiver.
Begun == Len(accepted) - Len(queue)

\* The channel continues the accepted requests where the handler stands.
OrderInv ==
    conn # "gone" =>
        /\ Len(queue) <= Len(accepted)
        /\ \A i \in 1..Len(queue) : accepted[Begun + i] = queue[i]

\* Everything before the request the handler met last was finished; that one
\* runs, is finished, or is the Close with which the handler leaves.
BegunInv ==
    conn # "gone" =>
        /\ \A i \in 1..(Begun - 1) : stage[accepted[i]] = "ended"
        /\ Begun >= 1 =>
              stage[accepted[Begun]] = IF cur # NoReq THEN "running"
                                       ELSE IF conn = "leaving" THEN "closed"
                                       ELSE "ended"
        /\ conn = "leaving" => Begun >= 1

\* Once the receiver is gone, a Close stands between what was finished and
\* what was lost.
GoneInv ==
    conn = "gone" =>
        \E j \in 1..Len(accepted) :
            /\ stage[accepted[j]] = "closed"
            /\ \A k \in 1..(j - 1) : stage[accepted[k]] = "ended"
            /\ \A k \in (j + 1)..Len(accepted) : stage[accepted[k]] = "lost"

MongoInv == /\ MongoTypeOK /\ StageInv /\ QueueInv /\ CounterLagsByCalls
            /\ OrderInv /\ BegunInv /\ GoneInv

\* The histories grow at their end.
Grows(s, t, x) ==
    /\ Len(s) \in Nat /\ Len(t) = Len(s) + 1
    /\ \A i \in 1..Len(s) : t[i] = s[i]
    /\ t[Len(s) + 1] = x

\* Append makes a history grow by its last element.
LEMMA Appends ==
    ASSUME NEW S, NEW s \in Seq(S), NEW x \in S
    PROVE  Grows(s, Append(s, x), x) /\ Append(s, x) \in Seq(S)
BY DEF Grows

\* A set that gains an element has one more.
LEMMA OneMore ==
    ASSUME NEW S, NEW T, NEW x, IsFiniteSet(S), x \notin S, T = S \cup {x}
    PROVE  Cardinality(T) = Cardinality(S) + 1
BY FS_AddElement

\* A set that loses an element has one less.
LEMMA OneLess ==
    ASSUME NEW S, NEW T, NEW x, IsFiniteSet(S), x \in S, T = S \ {x}
    PROVE  Cardinality(T) = Cardinality(S) - 1
BY FS_RemoveElement

----------------------------------------------------------------------------
\* The steps of services and of the handler.
LEMMA MongoActions ==
    ASSUME [MongoNext]_mongoVars
    PROVE  \/ Connect
           \/ DialFails
           \/ DialSucceeds
           \/ Replace
           \/ Recv
           \/ RecvClose
           \/ SendResult
           \/ Uncount
           \/ DropReceiver
           \/ \E c \in Clients :
                 \/ FindConnection(c)
                 \/ ReleaseHandle(c)
           \/ \E r \in Requests :
                 \/ Send(r)
                 \/ SendFails(r)
                 \/ Count(r)
           \/ UNCHANGED mongoVars
BY DEF MongoNext, Handler

\* The head of the queue is taken out of it.
Taken(x) ==
    /\ queue' \in Seq(Requests) /\ Len(queue) \in Nat \ {0}
    /\ Len(queue') = Len(queue) - 1
    /\ x = queue[1] /\ x \in Requests /\ stage[x] = "queued"
    /\ \A i \in 1..Len(queue') : queue'[i] = queue[i + 1]
    /\ \A i \in 1..Len(queue') : queue[i + 1] # x

\* What recv() takes is the queued request that has waited longest.
LEMMA TakesHead ==
    ASSUME MongoInv, queue # <<>>, queue' = Tail(queue)
    PROVE  Taken(Head(queue))
<1>1. /\ queue' \in Seq(Requests) /\ Len(queue) \in Nat \ {0}
      /\ Len(queue') = Len(queue) - 1
      /\ Head(queue) = queue[1] /\ queue[1] \in Requests
      /\ \A i \in 1..Len(queue') : queue'[i] = queue[i + 1]
  BY DEF MongoInv, MongoTypeOK
<1>2. /\ 1 \in 1..Len(queue)
      /\ \A i \in 1..Len(queue') : i + 1 \in 1..Len(queue) /\ i + 1 # 1
  BY <1>1
<1>3. /\ stage[queue[1]] = "queued"
      /\ \A i \in 1..Len(queue') : queue[i + 1] # queue[1]
  BY <1>2 DEF MongoInv, QueueInv
<1> QED  BY <1>1, <1>3 DEF Taken

\* An accepted send puts a request that was nowhere behind the channel.
Sent(r) ==
    /\ stage[r] = "none" /\ call[r] = "new" /\ conn # "gone"
    /\ stage' = [stage EXCEPT ![r] = "queued"]
    /\ call' = [call EXCEPT ![r] = "sent"]
    /\ queue' \in Seq(Requests) /\ accepted' \in Seq(Requests)
    /\ Grows(queue, queue', r) /\ Grows(accepted, accepted', r)
    /\ UNCHANGED <<conn, counter, registered, handle, cur, answer>>

\* What an accepted send changes.
LEMMA Sends ==
    ASSUME MongoInv, NEW r \in Requests, Send(r)
    PROVE  Sent(r)
<1>1. stage[r] = "none"
  BY DEF Send, MongoInv, StageInv
<1>2. Grows(queue, queue', r) /\ queue' \in Seq(Requests)
  BY Appends DEF Send, MongoInv, MongoTypeOK
<1>3. Grows(accepted, accepted', r) /\ accepted' \in Seq(Requests)
  BY Appends DEF Send, MongoInv, MongoTypeOK
<1> QED  BY <1>1, <1>2, <1>3 DEF Send, Sent

\* Every variable keeps its type.
LEMMA MongoTypeStep ==
    ASSUME MongoInv, [MongoNext]_mongoVars
    PROVE  MongoTypeOK'
<1> USE DEF MongoInv, MongoTypeOK
<1>1. ASSUME Connect PROVE MongoTypeOK'
  BY <1>1 DEF Connect
<1>2. ASSUME DialFails PROVE MongoTypeOK'
  BY <1>2 DEF DialFails
<1>3. ASSUME DialSucceeds PROVE MongoTypeOK'
  BY <1>3 DEF DialSucceeds
<1>4. ASSUME Replace PROVE MongoTypeOK'
  BY <1>4 DEF Replace
<1>5. ASSUME NEW c \in Clients, FindConnection(c) PROVE MongoTypeOK'
  BY <1>5 DEF FindConnection
<1>6. ASSUME NEW c \in Clients, ReleaseHandle(c) PROVE MongoTypeOK'
  BY <1>6 DEF ReleaseHandle
<1>7. ASSUME NEW r \in Requests, Send(r) PROVE MongoTypeOK'
  BY <1>7, Sends DEF Sent
<1>8. ASSUME NEW r \in Requests, SendFails(r) PROVE MongoTypeOK'
  BY <1>8 DEF SendFails
<1>9. ASSUME NEW r \in Requests, Count(r) PROVE MongoTypeOK'
  BY <1>9 DEF Count
<1>10. ASSUME Recv PROVE MongoTypeOK'
  <2>1. Taken(Head(queue))
    BY <1>10, TakesHead DEF Recv
  <2> QED  BY <1>10, <2>1, MongoAssumption DEF Recv, Taken
<1>11. ASSUME RecvClose PROVE MongoTypeOK'
  <2>1. Taken(Head(queue))
    BY <1>11, TakesHead DEF RecvClose
  <2> QED  BY <1>11, <2>1 DEF RecvClose, Taken
<1>12. ASSUME SendResult PROVE MongoTypeOK'
  BY <1>12 DEF SendResult
<1>13. ASSUME Uncount PROVE MongoTypeOK'
  BY <1>13 DEF Uncount
<1>14. ASSUME DropReceiver PROVE MongoTypeOK'
  <2>1. <<>> \in Seq(Requests)
    OBVIOUS
  <2> QED  BY <1>14, <2>1 DEF DropReceiver
<1>15. ASSUME UNCHANGED mongoVars PROVE MongoTypeOK'
  BY <1>15 DEF mongoVars
<1> QED
  BY <1>1, <1>2, <1>3, <1>4, <1>5, <1>6, <1>7, <1>8, <1>9, <1>10, <1>11, <1>12,
     <1>13, <1>14, <1>15, MongoActions

\* One request runs, and nothing is lost while there is a receiver.
LEMMA StageStep ==
    ASSUME MongoInv, [MongoNext]_mongoVars
    PROVE  StageInv'
<1>1. ASSUME NEW r \in Requests, Send(r) PROVE StageInv'
  <2>1. Sent(r)
    BY <1>1, Sends
  <2> QED  BY <2>1 DEF Sent, MongoInv, MongoTypeOK, StageInv
<1>2. ASSUME NEW r \in Requests, SendFails(r) PROVE StageInv'
  BY <1>2 DEF SendFails, MongoInv, MongoTypeOK, StageInv
<1>3. ASSUME NEW r \in Requests, Count(r) PROVE StageInv'
  BY <1>3 DEF Count, MongoInv, MongoTypeOK, StageInv
<1>4. ASSUME Recv PROVE StageInv'
  <2>1. Taken(Head(queue))
    BY <1>4, TakesHead DEF Recv
  <2>2. /\ stage' = [stage EXCEPT ![Head(queue)] = "running"]
        /\ cur = NoReq /\ cur' = Head(queue) /\ call' = call
        /\ conn # "gone" /\ conn' # "gone"
    BY <1>4 DEF Recv, MongoInv, MongoTypeOK
  <2>3. \A r \in Requests : stage[r] # "running"
    BY <2>2, MongoAssumption DEF MongoInv, StageInv
  <2> QED  BY <2>1, <2>2, <2>3 DEF Taken, MongoInv, MongoTypeOK, StageInv
<1>5. ASSUME RecvClose PROVE StageInv'
  <2>1. Taken(Head(queue))
    BY <1>5, TakesHead DEF RecvClose
  <2>2. /\ stage' = [stage EXCEPT ![Head(queue)] = "closed"]
        /\ UNCHANGED <<call, cur>> /\ conn # "gone"
    BY <1>5 DEF RecvClose
  <2> QED  BY <2>1, <2>2 DEF Taken, MongoInv, MongoTypeOK, StageInv
<1>6. ASSUME Uncount PROVE StageInv'
  <2>1. cur \in Requests /\ stage[cur] = "running"
    BY <1>6 DEF Uncount, MongoInv, MongoTypeOK, StageInv
  <2>2. /\ stage' = [stage EXCEPT ![cur] = "ended"]
        /\ cur' = NoReq /\ call' = call /\ conn # "gone"
    BY <1>6 DEF Uncount
  <2> QED  BY <2>1, <2>2, MongoAssumption DEF MongoInv, MongoTypeOK, StageInv
<1>7. ASSUME DropReceiver PROVE StageInv'
  BY <1>7 DEF DropReceiver, MongoInv, MongoTypeOK, StageInv
<1>8. ASSUME UNCHANGED <<stage, call, cur>>, conn = "gone" => conn' = "gone"
      PROVE  StageInv'
  BY <1>8 DEF MongoInv, MongoTypeOK, StageInv
<1> QED
  BY <1>1, <1>2, <1>3, <1>4, <1>5, <1>6, <1>7, <1>8, MongoActions
     DEF Connect, DialFails, DialSucceeds, Replace, FindConnection,
         ReleaseHandle, SendResult, mongoVars

\* The channel keeps holding queued requests, each once.
LEMMA QueueStep ==
    ASSUME MongoInv, [MongoNext]_mongoVars
    PROVE  QueueInv'
<1>1. ASSUME NEW r \in Requests, Send(r) PROVE QueueInv'
  <2>1. Sent(r) /\ \A i \in 1..Len(queue) : queue[i] \in Requests
    BY <1>1, Sends DEF MongoInv, MongoTypeOK
  <2>2. \A i \in 1..Len(queue) : queue[i] # r /\ stage[queue[i]] = "queued"
    BY <2>1 DEF Sent, MongoInv, QueueInv
  <2>3. /\ Len(queue) \in Nat /\ Len(queue') = Len(queue) + 1
        /\ \A i \in 1..Len(queue) : queue'[i] = queue[i]
        /\ queue'[Len(queue) + 1] = r
        /\ stage'[r] = "queued"
        /\ \A x \in Requests : x # r => stage'[x] = stage[x]
    BY <2>1 DEF Sent, Grows, MongoInv, MongoTypeOK
  <2>4. \A i \in 1..Len(queue') : i \in 1..Len(queue) \/ i = Len(queue) + 1
    BY <2>3
  <2>5. ASSUME NEW i \in 1..Len(queue') PROVE stage'[queue'[i]] = "queued"
    BY <2>1, <2>2, <2>3, <2>4
  <2>6. ASSUME NEW i \in 1..Len(queue'), NEW j \in 1..Len(queue'),
               queue'[i] = queue'[j]
        PROVE  i = j
    BY <2>2, <2>3, <2>4, <2>6 DEF MongoInv, QueueInv
  <2> QED  BY <2>5, <2>6 DEF QueueInv
<1>2. ASSUME NEW s, s # "queued", Taken(Head(queue)),
             stage' = [stage EXCEPT ![Head(queue)] = s]
      PROVE  QueueInv'
  <2>1. \A i \in 1..Len(queue') :
           /\ i + 1 \in 1..Len(queue)
           /\ queue'[i] = queue[i + 1] /\ queue[i + 1] # Head(queue)
    BY <1>2 DEF Taken
  <2>2. /\ \A i \in 1..Len(queue) :
              queue[i] \in Requests /\ stage[queue[i]] = "queued"
        /\ \A x \in Requests : x # Head(queue) => stage'[x] = stage[x]
    BY <1>2 DEF MongoInv, MongoTypeOK, QueueInv
  <2>3. \A i \in 1..Len(queue') : stage'[queue'[i]] = "queued"
    BY <2>1, <2>2
  <2>4. ASSUME NEW i \in 1..Len(queue'), NEW j \in 1..Len(queue'),
               queue'[i] = queue'[j]
        PROVE  i = j
    <3>1. i + 1 = j + 1
      <4>1. queue[i + 1] = queue[j + 1]
        BY <2>1, <2>4
      <4> QED  BY <2>1, <4>1 DEF MongoInv, QueueInv
    <3> QED  BY <3>1
  <2> QED  BY <2>3, <2>4 DEF QueueInv
<1>3. ASSUME Recv PROVE QueueInv'
  BY <1>2, <1>3, TakesHead DEF Recv
<1>4. ASSUME RecvClose PROVE QueueInv'
  BY <1>2, <1>4, TakesHead DEF RecvClose
<1>5. ASSUME Uncount PROVE QueueInv'
  <2>1. cur \in Requests /\ stage[cur] = "running"
    BY <1>5 DEF Uncount, MongoInv, MongoTypeOK, StageInv
  <2> QED  BY <1>5, <2>1 DEF Uncount, MongoInv, MongoTypeOK, QueueInv
<1>6. ASSUME DropReceiver PROVE QueueInv'
  BY <1>6 DEF DropReceiver, QueueInv
<1>7. ASSUME UNCHANGED <<stage, queue>> PROVE QueueInv'
  BY <1>7 DEF MongoInv, QueueInv
<1> QED
  BY <1>1, <1>3, <1>4, <1>5, <1>6, <1>7, MongoActions
     DEF Connect, DialFails, DialSucceeds, Replace, FindConnection,
         ReleaseHandle, SendFails, Count, SendResult, mongoVars

\* The sets behind the counter are finite.
LEMMA CountedFinite ==
    /\ IsFiniteSet(Unpaid) /\ Cardinality(Unpaid) \in Nat
    /\ IsFiniteSet(Lagging) /\ Cardinality(Lagging) \in Nat
<1>1. Unpaid \subseteq Requests /\ Lagging \subseteq Requests
  BY DEF Unpaid, Lagging
<1> QED  BY <1>1, FS_Subset, FS_CardinalityType, MongoAssumption

\* The counter follows the channel, late by the calls that have not counted.
LEMMA CounterStep ==
    ASSUME MongoInv, [MongoNext]_mongoVars
    PROVE  CounterLagsByCalls'
<1>1. ASSUME NEW r \in Requests, Send(r) PROVE CounterLagsByCalls'
  <2>1. Sent(r)
    BY <1>1, Sends
  <2>2. r \notin Unpaid /\ Unpaid' = Unpaid \cup {r}
    BY <2>1 DEF Sent, Unpaid, MongoInv, MongoTypeOK
  <2>3. r \notin Lagging /\ Lagging' = Lagging \cup {r}
    BY <2>1 DEF Sent, Lagging, MongoInv, MongoTypeOK
  <2>4. /\ Cardinality(Unpaid') = Cardinality(Unpaid) + 1
        /\ Cardinality(Lagging') = Cardinality(Lagging) + 1
    BY <2>2, <2>3, OneMore, CountedFinite
  <2> QED
    BY <2>1, <2>4, CountedFinite
       DEF Sent, MongoInv, MongoTypeOK, CounterLagsByCalls
<1>2. ASSUME NEW r \in Requests, SendFails(r) PROVE CounterLagsByCalls'
  <2>1. UNCHANGED <<stage, counter>> /\ Unpaid' = Unpaid
    BY <1>2 DEF SendFails, Unpaid
  <2>2. Lagging' = Lagging
    BY <1>2 DEF SendFails, Lagging, MongoInv, MongoTypeOK
  <2> QED  BY <2>1, <2>2 DEF MongoInv, CounterLagsByCalls
<1>3. ASSUME NEW r \in Requests, Count(r) PROVE CounterLagsByCalls'
  <2>1. /\ call[r] = "sent" /\ call' = [call EXCEPT ![r] = "returned"]
        /\ counter' = counter + 1 /\ Unpaid' = Unpaid
    BY <1>3 DEF Count, Unpaid
  <2>2. r \in Lagging /\ Lagging' = Lagging \ {r}
    BY <2>1 DEF Lagging, MongoInv, MongoTypeOK
  <2>3. Cardinality(Lagging') = Cardinality(Lagging) - 1
    BY <2>2, OneLess, CountedFinite
  <2> QED
    BY <2>1, <2>3, CountedFinite DEF MongoInv, MongoTypeOK, CounterLagsByCalls
<1>4. ASSUME Recv PROVE CounterLagsByCalls'
  <2>1. Taken(Head(queue))
    BY <1>4, TakesHead DEF Recv
  <2>2. UNCHANGED <<Unpaid, Lagging, counter>>
    BY <1>4, <2>1 DEF Recv, Taken, Unpaid, Lagging, MongoInv, MongoTypeOK
  <2> QED  BY <2>2 DEF MongoInv, CounterLagsByCalls
<1>5. ASSUME RecvClose PROVE CounterLagsByCalls'
  <2>1. Taken(Head(queue))
    BY <1>5, TakesHead DEF RecvClose
  <2>2. UNCHANGED <<Unpaid, Lagging, counter>>
    BY <1>5, <2>1 DEF RecvClose, Taken, Unpaid, Lagging, MongoInv, MongoTypeOK
  <2> QED  BY <2>2 DEF MongoInv, CounterLagsByCalls
<1>6. ASSUME Uncount PROVE CounterLagsByCalls'
  <2>1. /\ cur \in Requests /\ stage[cur] = "running"
        /\ stage' = [stage EXCEPT ![cur] = "ended"]
        /\ counter' = counter - 1 /\ Lagging' = Lagging
    BY <1>6 DEF Uncount, Lagging, MongoInv, MongoTypeOK, StageInv
  <2>2. cur \in Unpaid /\ Unpaid' = Unpaid \ {cur}
    BY <2>1 DEF Unpaid, MongoInv, MongoTypeOK
  <2>3. Cardinality(Unpaid') = Cardinality(Unpaid) - 1
    BY <2>2, OneLess, CountedFinite
  <2> QED
    BY <2>1, <2>3, CountedFinite DEF MongoInv, MongoTypeOK, CounterLagsByCalls
<1>7. ASSUME DropReceiver PROVE CounterLagsByCalls'
  <2>1. UNCHANGED <<Unpaid, Lagging, counter>>
    BY <1>7 DEF DropReceiver, Unpaid, Lagging, MongoInv, MongoTypeOK
  <2> QED  BY <2>1 DEF MongoInv, CounterLagsByCalls
<1>8. ASSUME UNCHANGED <<stage, call, counter>> PROVE CounterLagsByCalls'
  BY <1>8 DEF MongoInv, CounterLagsByCalls, Unpaid, Lagging
<1> QED
  BY <1>1, <1>2, <1>3, <1>4, <1>5, <1>6, <1>7, <1>8, MongoActions
     DEF Connect, DialFails, DialSucceeds, Replace, FindConnection,
         ReleaseHandle, SendResult, mongoVars

\* Where the handler stands among the accepted requests.
LEMMA Positions ==
    ASSUME MongoInv
    PROVE  /\ Len(queue) \in Nat /\ Len(accepted) \in Nat /\ Begun \in Int
           /\ Len(accepted) = Begun + Len(queue)
           /\ conn # "gone" => Begun \in Nat /\ Begun <= Len(accepted)
           /\ \A i \in 1..Len(queue) : queue[i] \in Requests
           /\ \A i \in 1..Len(accepted) : accepted[i] \in Requests
BY DEF MongoInv, MongoTypeOK, OrderInv, Begun

\* Where the channel, the handler and what was accepted stand to each other.
PlaceInv == OrderInv /\ BegunInv /\ GoneInv

\* A send adds its request to the accepted ones and to the channel.
LEMMA OrderSent ==
    ASSUME MongoInv, NEW r \in Requests, Sent(r)
    PROVE  PlaceInv'
<1>1. /\ Grows(queue, queue', r) /\ Grows(accepted, accepted', r)
      /\ conn # "gone" /\ conn' = conn /\ cur' = cur /\ stage[r] = "none"
      /\ stage' = [stage EXCEPT ![r] = "queued"]
  BY DEF Sent
<1>2. Begun \in Nat /\ Begun' = Begun /\ Begun <= Len(accepted)
      /\ Len(accepted) = Begun + Len(queue)
  BY <1>1, Positions DEF Grows, Begun
<1>3. OrderInv'
  <2>1. Len(queue') <= Len(accepted')
    BY <1>1, <1>2, Positions DEF Grows
  <2>2. ASSUME NEW i \in 1..Len(queue') PROVE accepted'[Begun + i] = queue'[i]
    <3>1. CASE i = Len(queue) + 1
      <4>1. Begun + i = Len(accepted) + 1
        BY <1>2, <3>1, Positions
      <4> QED  BY <1>1, <3>1, <4>1 DEF Grows
    <3>2. CASE i # Len(queue) + 1
      <4>1. i \in 1..Len(queue) /\ Begun + i \in 1..Len(accepted)
        BY <1>1, <1>2, <3>2, Positions DEF Grows
      <4>2. accepted[Begun + i] = queue[i]
        BY <1>1, <4>1 DEF MongoInv, OrderInv
      <4> QED  BY <1>1, <4>1, <4>2 DEF Grows
    <3> QED  BY <3>1, <3>2
  <2> QED  BY <1>2, <2>1, <2>2 DEF OrderInv
<1>4. ASSUME NEW i \in 1..Begun
      PROVE  /\ accepted'[i] = accepted[i]
             /\ stage'[accepted'[i]] = stage[accepted[i]]
  <2>1. i \in 1..Len(accepted) /\ accepted[i] \in Requests
    BY <1>2, Positions
  <2>2. accepted'[i] = accepted[i]
    BY <1>1, <2>1 DEF Grows
  <2>3. stage[accepted[i]] # "none"
    <3>1. CASE i \in 1..(Begun - 1)
      BY <1>1, <3>1 DEF MongoInv, BegunInv
    <3>2. CASE i = Begun
      BY <1>1, <1>2, <3>2 DEF MongoInv, BegunInv
    <3> QED  BY <1>2, <3>1, <3>2
  <2> QED  BY <1>1, <2>1, <2>2, <2>3 DEF MongoInv, MongoTypeOK
<1>5. BegunInv'
  <2>1. \A i \in 1..(Begun - 1) : i \in 1..Begun
    BY <1>2
  <2>2. Begun >= 1 => Begun \in 1..Begun
    BY <1>2
  <2> QED  BY <1>1, <1>2, <1>4, <2>1, <2>2 DEF MongoInv, BegunInv
<1>6. GoneInv'
  BY <1>1 DEF GoneInv
<1> QED  BY <1>3, <1>5, <1>6 DEF PlaceInv

\* The request taken from the channel is the next one accepted.
LEMMA OrderTaken ==
    ASSUME MongoInv, NEW r, Taken(r), conn = "recv", cur = NoReq,
           accepted' = accepted, NEW s, stage' = [stage EXCEPT ![r] = s],
           \/ conn' = "running" /\ cur' = r /\ s = "running"
           \/ conn' = "leaving" /\ cur' = NoReq /\ s = "closed",
           r # NoReq
    PROVE  PlaceInv'
<1>1. /\ Len(queue) \in Nat \ {0} /\ Len(queue') = Len(queue) - 1
      /\ r = queue[1] /\ r \in Requests /\ stage[r] = "queued"
      /\ \A i \in 1..Len(queue') : queue'[i] = queue[i + 1]
      /\ conn' # "gone"
  BY DEF Taken
<1>2. /\ Begun \in Nat /\ Begun' = Begun + 1 /\ Begun <= Len(accepted)
      /\ Len(accepted) = Begun + Len(queue) /\ Len(accepted) \in Nat
  BY <1>1, Positions DEF Begun
<1>3. OrderInv'
  <2>1. ASSUME NEW i \in 1..Len(queue')
        PROVE  accepted[Begun + 1 + i] = queue'[i]
    <3>1. i + 1 \in 1..Len(queue) /\ Begun + 1 + i = Begun + (i + 1)
      BY <1>1, <1>2
    <3> QED  BY <1>1, <3>1 DEF MongoInv, OrderInv
  <2>2. Len(queue') <= Len(accepted)
    BY <1>1, <1>2
  <2> QED  BY <1>2, <2>1, <2>2 DEF OrderInv
<1>4. ASSUME NEW i \in 1..Begun
      PROVE  stage'[accepted[i]] = "ended"
  <2>1. accepted[i] \in Requests
    BY <1>2, Positions
  <2>2. stage[accepted[i]] = "ended"
    <3>1. CASE i \in 1..(Begun - 1)
      BY <1>1, <3>1 DEF MongoInv, BegunInv
    <3>2. CASE i = Begun
      BY <1>1, <1>2, <3>2 DEF MongoInv, BegunInv
    <3> QED  BY <1>2, <3>1, <3>2
  <2> QED  BY <1>1, <2>1, <2>2 DEF MongoInv, MongoTypeOK
<1>5. accepted[Begun + 1] = r
  <2>1. 1 \in 1..Len(queue)
    BY <1>1
  <2> QED  BY <1>1, <2>1 DEF MongoInv, OrderInv
<1>6. stage'[r] = s
  BY <1>1 DEF MongoInv, MongoTypeOK
<1>7. BegunInv'
  <2>1. \A i \in 1..(Begun' - 1) : i \in 1..Begun
    BY <1>2
  <2>2. Begun' >= 1
    BY <1>2
  <2> QED  BY <1>2, <1>4, <1>5, <1>6, <2>1, <2>2 DEF BegunInv
<1>8. GoneInv'
  BY <1>1 DEF GoneInv
<1> QED  BY <1>3, <1>7, <1>8 DEF PlaceInv

\* The channel and the handler's place in it follow what was accepted.
LEMMA OrderStep ==
    ASSUME MongoInv, [MongoNext]_mongoVars
    PROVE  PlaceInv'
<1>1. ASSUME NEW r \in Requests, Send(r) PROVE PlaceInv'
  BY <1>1, Sends, OrderSent
<1>2. ASSUME Recv PROVE PlaceInv'
  <2>1. Taken(Head(queue)) /\ cur = NoReq
    BY <1>2, TakesHead DEF Recv, MongoInv, MongoTypeOK
  <2>2. Head(queue) # NoReq
    BY <2>1, MongoAssumption DEF Taken
  <2> QED  BY <1>2, <2>1, <2>2, OrderTaken DEF Recv
<1>3. ASSUME RecvClose PROVE PlaceInv'
  <2>1. Taken(Head(queue)) /\ cur = NoReq
    BY <1>3, TakesHead DEF RecvClose, MongoInv, MongoTypeOK
  <2>2. Head(queue) # NoReq
    BY <2>1, MongoAssumption DEF Taken
  <2> QED  BY <1>3, <2>1, <2>2, OrderTaken DEF RecvClose
<1>4. ASSUME Uncount PROVE PlaceInv'
  <2>1. /\ cur \in Requests /\ stage[cur] = "running" /\ cur # NoReq
        /\ conn = "answered" /\ conn' = "recv" /\ cur' = NoReq
        /\ stage' = [stage EXCEPT ![cur] = "ended"]
        /\ UNCHANGED <<queue, accepted>>
    BY <1>4, MongoAssumption DEF Uncount, MongoInv, MongoTypeOK, StageInv
  <2>2. Begun' = Begun /\ Begun \in Nat
    BY <2>1, Positions DEF Begun
  <2>3. OrderInv' /\ GoneInv'
    BY <2>1, <2>2 DEF MongoInv, OrderInv, GoneInv
  <2>4. ASSUME NEW i \in 1..Begun PROVE stage'[accepted[i]] = "ended"
    <3>1. accepted[i] \in Requests
      BY <2>1, <2>2, Positions
    <3>2. i \in 1..(Begun - 1) \/ i = Begun
      BY <2>2
    <3>3. stage[accepted[i]] \in {"ended", "running"}
      BY <2>1, <2>2, <3>2 DEF MongoInv, BegunInv
    <3>4. stage[accepted[i]] = "running" => accepted[i] = cur
      BY <3>1 DEF MongoInv, StageInv
    <3> QED  BY <2>1, <3>1, <3>3, <3>4 DEF MongoInv, MongoTypeOK
  <2>5. \A i \in 1..(Begun - 1) : i \in 1..Begun
    BY <2>2
  <2>6. Begun >= 1 => Begun \in 1..Begun
    BY <2>2
  <2>7. BegunInv'
    BY <2>1, <2>2, <2>4, <2>5, <2>6 DEF BegunInv
  <2> QED  BY <2>3, <2>7 DEF PlaceInv
<1>5. ASSUME DropReceiver PROVE PlaceInv'
  <2>1. /\ conn = "leaving" /\ conn' = "gone" /\ cur = NoReq
        /\ accepted' = accepted
        /\ \A r \in Requests :
              stage'[r] = IF stage[r] = "queued" THEN "lost" ELSE stage[r]
    BY <1>5 DEF DropReceiver, MongoInv, MongoTypeOK
  <2>2. Begun \in 1..Len(accepted) /\ stage[accepted[Begun]] = "closed"
        /\ \A k \in 1..(Begun - 1) : stage[accepted[k]] = "ended"
    BY <2>1, Positions DEF MongoInv, BegunInv
  <2>3. stage'[accepted[Begun]] = "closed"
    BY <2>1, <2>2, Positions
  <2>4. ASSUME NEW k \in 1..(Begun - 1) PROVE stage'[accepted[k]] = "ended"
    <3>1. k \in 1..Len(accepted)
      BY <2>2, Positions
    <3> QED  BY <2>1, <2>2, <3>1, Positions
  <2>5. ASSUME NEW k \in (Begun + 1)..Len(accepted)
        PROVE  stage'[accepted[k]] = "lost"
    <3>1. k - Begun \in 1..Len(queue) /\ Begun + (k - Begun) = k
      BY <2>2, Positions
    <3>2. accepted[k] = queue[k - Begun] /\ accepted[k] \in Requests
      BY <2>1, <3>1, Positions DEF MongoInv, OrderInv
    <3>3. stage[accepted[k]] = "queued"
      BY <3>1, <3>2 DEF MongoInv, QueueInv
    <3> QED  BY <2>1, <3>2, <3>3
  <2>6. GoneInv'
    BY <2>1, <2>2, <2>3, <2>4, <2>5 DEF GoneInv
  <2> QED  BY <2>1, <2>6 DEF PlaceInv, OrderInv, BegunInv
<1>6. ASSUME UNCHANGED <<queue, accepted, stage, cur>>,
             conn' = conn \/ {conn, conn'} \cap {"gone", "leaving"} = {}
      PROVE  PlaceInv'
  <2>1. Begun' = Begun
    BY <1>6 DEF Begun
  <2> QED  BY <1>6, <2>1 DEF MongoInv, PlaceInv, OrderInv, BegunInv, GoneInv
<1> QED
  BY <1>1, <1>2, <1>3, <1>4, <1>5, <1>6, MongoActions
     DEF Connect, DialFails, DialSucceeds, Replace, FindConnection,
         ReleaseHandle, SendFails, Count, SendResult, mongoVars

\* Nothing has been asked of the connection.
LEMMA MongoInitInv ==
    ASSUME MongoInit
    PROVE  MongoInv
<1>1. Len(<<>>) = 0 /\ <<>> \in Seq(Requests)
  OBVIOUS
<1>2. MongoTypeOK
  <2>1. cur # NoReq <=> conn \in {"running", "answered"}
    BY DEF MongoInit
  <2>2. queue \in Seq(Requests) /\ accepted \in Seq(Requests)
    BY <1>1 DEF MongoInit
  <2>3. handle \in [Clients -> BOOLEAN]
    BY DEF MongoInit
  <2>4. /\ call \in [Requests -> {"new", "sent", "returned", "refused"}]
        /\ stage \in [Requests -> {"none", "queued", "running", "ended",
                                   "closed", "lost"}]
        /\ answer \in [Requests -> {"none", "ok", "error", "logged"}]
    BY DEF MongoInit
  <2>5. conn = "none" /\ counter \in Int /\ cur \in Requests \cup {NoReq}
    BY DEF MongoInit
  <2>6. registered \in BOOLEAN
    BY Zenon DEF MongoInit
  <2> QED  BY <2>1, <2>2, <2>3, <2>4, <2>5, <2>6 DEF MongoTypeOK
<1>3. StageInv
  BY MongoAssumption DEF MongoInit, StageInv
<1>4. QueueInv /\ OrderInv /\ BegunInv /\ GoneInv
  BY <1>1 DEF MongoInit, QueueInv, OrderInv, Begun, BegunInv, GoneInv
<1>5. CounterLagsByCalls
  <2>1. Unpaid = {} /\ Lagging = {}
    BY DEF MongoInit, Unpaid, Lagging
  <2> QED  BY <2>1, FS_EmptySet DEF MongoInit, CounterLagsByCalls
<1> QED  BY <1>2, <1>3, <1>4, <1>5 DEF MongoInv

\* The inductive invariant holds in every reachable state.
LEMMA MongoInvariance == MongoSpec => []MongoInv
<1>1. MongoInit => MongoInv
  BY MongoInitInv
<1>2. MongoInv /\ [MongoNext]_mongoVars => MongoInv'
  BY MongoTypeStep, StageStep, QueueStep, CounterStep, OrderStep
     DEF MongoInv, PlaceInv
<1> QED  BY <1>1, <1>2, PTL DEF MongoSpec

\* The counter lags behind the channel by exactly the calls between send and
\* fetch_add; a Close and what was dropped behind it are counted for ever.
THEOREM MongoCounterCorrect == MongoSpec => []CounterLagsByCalls
<1>1. MongoInv => CounterLagsByCalls
  BY DEF MongoInv
<1> QED  BY <1>1, MongoInvariance, PTL

\* An accepted operation is lost only behind a Close the handler has met, and
\* everything the channel took before that Close was finished.
THEOREM MongoLossCorrect == MongoSpec => []LostOnlyBehindClose
<1>1. MongoInv => LostOnlyBehindClose
  <2> SUFFICES ASSUME MongoInv, NEW i \in DOMAIN accepted,
                      stage[accepted[i]] = "lost"
               PROVE  \E j \in 1..(i - 1) :
                         /\ stage[accepted[j]] = "closed"
                         /\ \A k \in 1..(j - 1) : stage[accepted[k]] = "ended"
    BY DEF LostOnlyBehindClose
  <2>1. i \in 1..Len(accepted) /\ accepted[i] \in Requests
    BY DEF MongoInv, MongoTypeOK
  <2>2. conn = "gone"
    BY <2>1 DEF MongoInv, StageInv
  <2>3. PICK j \in 1..Len(accepted) :
             /\ stage[accepted[j]] = "closed"
             /\ \A k \in 1..(j - 1) : stage[accepted[k]] = "ended"
    BY <2>2 DEF MongoInv, GoneInv
  <2>4. j \in 1..(i - 1)
    <3>1. i # j
      BY <2>3
    <3>2. ~(i < j)
      BY <2>1, <2>3
    <3> QED  BY <2>1, <2>3, <3>1, <3>2
  <2> QED  BY <2>3, <2>4
<1> QED  BY <1>1, MongoInvariance, PTL
=============================================================================
