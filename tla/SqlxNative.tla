----------------------------- MODULE SqlxNative -----------------------------
(***************************************************************************)
(* The boundary between Lua and the SQLx native calls (lua_sqlx.rs,        *)
(* sqlx_lua.rs) in one service, seen through the calls that have most to   *)
(* lose on it: push() on a transaction builder, and transaction(), which   *)
(* takes the builder's statements along with a response lease.             *)
(*                                                                         *)
(* A Lua allocation may fail, which unwinds the call and drops what Rust   *)
(* owns, and it may run finalizers, which may make native calls of their   *)
(* own before the outer call goes on.  So a service has a stack of calls,  *)
(* and only the top one moves, or is interrupted where Lua allocates.      *)
(* Counting and sending are SqlxActor's subject; here the channel either   *)
(* takes a request or does not.                                            *)
(***************************************************************************)
EXTENDS Naturals, Sequences, FiniteSets, SequencesExt

CONSTANTS
    Pushes,     \* push() calls, and the statements they add
    Calls,      \* transaction() calls with a session, each made once
    NoMeta,     \* the registry has no metatable for leases
    MaxDepth    \* bound: calls nested by finalizers

ASSUME NativeAssumption == Pushes \cap Calls = {} /\ MaxDepth \in Nat \ {0}

VARIABLES
    frames,     \* the native calls under way, the innermost last
    list,       \* the builder's statements
    collected,  \* the builder's Option is None: its __gc has run
    meta,       \* the metatable under the lease's registry key, by its maker
    finalizable,\* the metatables that have their __gc
    guard,      \* guard[c]: the metatable of the lease userdata of call c
    lease,      \* lease[c]: who owns the lease that call c registered
    closing,    \* the connection turns requests away
    result,     \* what each call returned
    sent,       \* the requests the channel took
    pushed,     \* history: the statements added to the builder
    dead        \* the Lua state has been closed

builder == <<list, collected, pushed>>
leases  == <<meta, finalizable, guard, lease>>
vars == <<frames, builder, leases, closing, result, sent, dead>>

Natives == Pushes \cup Calls
Stages  == {"params", "looking", "building", "creating", "guarded", "reporting"}
Errors  == {"busy", "closed", "error"}
Frames  == [call : Natives, at : Stages, verdict : Errors \cup {"ok"}]

TypeOK ==
    /\ frames \in Seq(Frames)
    /\ list \in Seq(Pushes) /\ pushed \in Seq(Pushes)
    /\ collected \in BOOLEAN /\ closing \in BOOLEAN /\ dead \in BOOLEAN
    /\ meta \in Calls \cup {NoMeta} /\ finalizable \subseteq Calls
    /\ guard \in [Calls -> Calls \cup {NoMeta}]
    /\ lease \in [Calls -> {"none", "rust", "userdata", "dropped", "stuck"}]
    /\ result \in [Natives -> Errors \cup {"none", "ok", "session", "thrown"}]
    /\ sent \in Seq([call : Calls, statements : Seq(Pushes)])

Frame(x, at, verdict) == [call |-> x, at |-> at, verdict |-> verdict]
Top == Last(frames)
At(x, at) == frames # <<>> /\ Top.call = x /\ Top.at = at
Goes(at, verdict) ==
    frames' = Append(Front(frames), Frame(Top.call, at, verdict))
Returns(x, r) ==
    /\ frames' = Front(frames)
    /\ result' = [result EXCEPT ![x] = r]

\* Where Lua allocates, so that finalizers and failures come in.
Allocating == {"params", "building", "creating", "reporting"}

\* Lua code runs: between native calls, or in a finalizer.
LuaRuns ==
    /\ ~dead
    /\ frames # <<>> => Top.at \in Allocating /\ Len(frames) < MaxDepth

Init ==
    /\ frames = <<>>
    /\ list = <<>> /\ collected = FALSE /\ pushed = <<>>
    /\ meta = NoMeta /\ finalizable = {}
    /\ guard  = [c \in Calls |-> NoMeta]
    /\ lease  = [c \in Calls |-> "none"]
    /\ closing = FALSE /\ dead = FALSE
    /\ result = [x \in Natives |-> "none"]
    /\ sent = <<>>

----------------------------------------------------------------------------
\* push(): the userdata is validated, the parameters are converted, and the
\* userdata is looked up again before the statement goes in.
Enter(x, at, verdict) ==
    /\ result[x] = "none" /\ \A i \in DOMAIN frames : frames[i].call # x
    /\ LuaRuns
    /\ frames' = Append(frames, Frame(x, at, verdict))

Push(p) ==
    /\ Enter(p, "params", "ok")
    /\ UNCHANGED <<builder, leases, closing, result, sent, dead>>

Pushed(p) ==
    /\ At(p, "params")
    /\ IF collected
         THEN Goes("reporting", "error") /\ UNCHANGED <<builder, result>>
         ELSE /\ list' = Append(list, p)
              /\ pushed' = Append(pushed, p)
              /\ Returns(p, "ok")
              /\ UNCHANGED collected
    /\ UNCHANGED <<leases, closing, sent, dead>>

BadParam(p) ==
    /\ At(p, "params")
    /\ Goes("reporting", "error")
    /\ UNCHANGED <<builder, leases, closing, result, sent, dead>>

\* __gc of the builder: its Option becomes None.
Collect ==
    /\ LuaRuns /\ ~collected
    /\ collected' = TRUE /\ list' = <<>>
    /\ UNCHANGED <<frames, pushed, leases, closing, result, sent, dead>>

----------------------------------------------------------------------------
\* transaction(): early returns, then a lease that Rust owns at first.
Transaction(c) ==
    /\ Enter(c, IF collected \/ closing THEN "reporting" ELSE "looking",
                IF collected THEN "error" ELSE "closed")
    /\ lease' = [lease EXCEPT ![c] = IF collected \/ closing THEN "none"
                                                             ELSE "rust"]
    /\ UNCHANGED <<builder, meta, finalizable, guard, closing, result, sent,
                   dead>>

\* As if the table went to the registry before it is filled in.
LookPublishesEarly(c) ==
    /\ At(c, "looking")
    /\ IF meta = NoMeta
         THEN Goes("building", "ok") /\ meta' = c /\ UNCHANGED guard
         ELSE /\ Goes("creating", "ok") /\ guard' = [guard EXCEPT ![c] = meta]
              /\ UNCHANGED meta
    /\ UNCHANGED <<builder, finalizable, lease, closing, result, sent, dead>>

\* The lease's userdata: its metatable is built on first use.
Look(c) ==
    /\ At(c, "looking")
    /\ IF meta = NoMeta
         THEN Goes("building", "ok") /\ UNCHANGED guard
         ELSE Goes("creating", "ok") /\ guard' = [guard EXCEPT ![c] = meta]
    /\ UNCHANGED <<builder, meta, finalizable, lease, closing, result, sent,
                   dead>>

\* The finished table is published, over whatever is there by now.
Publish(c) ==
    /\ At(c, "building")
    /\ meta' = c /\ finalizable' = finalizable \cup {c}
    /\ guard' = [guard EXCEPT ![c] = c]
    /\ Goes("creating", "ok")
    /\ UNCHANGED <<builder, lease, closing, result, sent, dead>>

\* The userdata exists and is rooted, then the lease moves into it.
Create(c) ==
    /\ At(c, "creating")
    /\ lease' = [lease EXCEPT ![c] = "userdata"]
    /\ Goes("guarded", "ok")
    /\ UNCHANGED <<builder, meta, finalizable, guard, closing, result, sent,
                   dead>>

\* No Lua from here to the end of try_send and the restore.
Drops(c) == lease' = [lease EXCEPT ![c] = "dropped"]

Submit(c) ==
    /\ At(c, "guarded") /\ ~collected
    /\ sent' = Append(sent, [call |-> c, statements |-> list])
    /\ list' = <<>>
    /\ Returns(c, "session")
    /\ UNCHANGED <<collected, pushed, leases, closing, dead>>

\* As if the statements were not put back.
SubmitFailsAndLoses(c) ==
    /\ At(c, "guarded") /\ ~collected
    /\ Drops(c) /\ list' = <<>>
    /\ Goes("reporting", "busy")
    /\ UNCHANGED <<collected, pushed, meta, finalizable, guard, closing,
                   result, sent, dead>>

\* BUSY or CLOSED: the lease goes, the statements come back.
SubmitFails(c) ==
    /\ At(c, "guarded") /\ ~collected
    /\ Drops(c)
    /\ Goes("reporting", "busy")
    /\ UNCHANGED <<builder, meta, finalizable, guard, closing, result, sent,
                   dead>>

\* The builder was collected by a finalizer that the lease's allocation ran.
SubmitCollected(c) ==
    /\ At(c, "guarded") /\ collected
    /\ Drops(c)
    /\ Goes("reporting", "error")
    /\ UNCHANGED <<builder, meta, finalizable, guard, closing, result, sent,
                   dead>>

----------------------------------------------------------------------------
\* The error table is built and returned.
Report(x) ==
    /\ At(x, "reporting")
    /\ Returns(x, Top.verdict)
    /\ UNCHANGED <<builder, leases, closing, sent, dead>>

\* An allocation fails: pcall returns, Rust unwinds and drops what it owns,
\* run_entry raises the Lua error again.
Throw(x) ==
    /\ frames # <<>> /\ Top.call = x /\ Top.at \in Allocating
    /\ lease' = [c \in Calls |-> IF c = x /\ lease[c] = "rust" THEN "dropped"
                                                               ELSE lease[c]]
    /\ Returns(x, "thrown")
    /\ UNCHANGED <<builder, meta, finalizable, guard, closing, sent, dead>>

\* __close or __gc of a lease userdata: gc compares the userdata's metatable
\* with the one under the registry key, and only then takes the value out.
Finalized(c) == IF guard[c] = meta THEN "dropped" ELSE "stuck"

CloseLease(c) ==
    /\ LuaRuns /\ result[c] = "session" /\ lease[c] = "userdata"
    /\ lease' = [lease EXCEPT ![c] = Finalized(c)]
    /\ UNCHANGED <<frames, builder, meta, finalizable, guard, closing, result,
                   sent, dead>>

\* lua_close: every userdata that is left is finalized.
CloseState ==
    /\ ~dead /\ frames = <<>>
    /\ dead' = TRUE /\ collected' = TRUE /\ list' = <<>>
    /\ lease' = [c \in Calls |-> IF lease[c] = "userdata" THEN Finalized(c)
                                                          ELSE lease[c]]
    /\ UNCHANGED <<frames, pushed, meta, finalizable, guard, closing, result,
                   sent>>

\* Some service closes the connection.
Closes ==
    /\ ~closing
    /\ closing' = TRUE
    /\ UNCHANGED <<frames, builder, leases, result, sent, dead>>

Next ==
    \/ \E p \in Pushes : Push(p) \/ Pushed(p) \/ BadParam(p)
    \/ \E c \in Calls : \/ Transaction(c) \/ Look(c) \/ Publish(c) \/ Create(c)
                        \/ Submit(c) \/ SubmitFails(c) \/ SubmitCollected(c)
                        \/ CloseLease(c)
    \/ \E x \in Natives : Report(x) \/ Throw(x)
    \/ Collect \/ CloseState \/ Closes

Spec == Init /\ [][Next]_vars

----------------------------------------------------------------------------
\* No statement is lost, doubled or reordered between push() and the queue:
\* what was sent, request after request, and then what the builder holds, is
\* what was pushed, whichever calls failed, threw or ran inside another.  The
\* cut says how many of the pushed statements the first i requests carry.
Continues(part, n) ==
    /\ n + Len(part) <= Len(pushed)
    /\ \A k \in 1..Len(part) : part[k] = pushed[n + k]

Cuts(cut) ==
    /\ cut[0] = 0
    /\ \A i \in 1..Len(sent) :
          /\ Continues(sent[i].statements, cut[i - 1])
          /\ cut[i] = cut[i - 1] + Len(sent[i].statements)
    /\ ~collected => /\ Continues(list, cut[Len(sent)])
                     /\ Len(pushed) = cut[Len(sent)] + Len(list)

StatementsKept == \E cut \in [0..Len(sent) -> 0..Len(pushed)] : Cuts(cut)

\* A transaction() call does everything or nothing.  A session means that its
\* request is in the queue and that its lease can be given up by Lua; anything
\* else, a thrown memory error included, that nothing was sent and that no
\* lease is left to keep the session waiting.
AllOrNothing ==
    \A c \in Calls :
        /\ (\E i \in DOMAIN sent : sent[i].call = c) <=> result[c] = "session"
        /\ lease[c] = "userdata" => guard[c] \in finalizable
        /\ result[c] \in {"busy", "closed", "error", "thrown"} =>
              lease[c] \in {"none", "dropped"}

\* Closing a service's Lua state reclaims its unread responses, and so does
\* closing or collecting a lease: no lease outlives its userdata.
LeasesReclaimed == \A c \in Calls : lease[c] # "stuck"
=============================================================================
