-------------------------------- MODULE Deque --------------------------------
(***************************************************************************)
(* The work-stealing deque, src/src/libstd/sync/deque.rs: one worker that  *)
(* pushes and pops at the bottom, stealers that take from the top, and a   *)
(* circular array that the worker replaces by a larger or a smaller one.   *)
(* One action per atomic instruction or per read or write of a slot; what  *)
(* only the worker writes it reads in the same step.  A local variable is  *)
(* cleared when it is no longer needed.                                    *)
(***************************************************************************)
EXTENDS Integers, Sequences, SequencesExt, FiniteSets

CONSTANTS Stealers,
          MIN_BITS, K,   \* see deque.rs:69-76
          MaxPush        \* bound: items pushed

ASSUME DequeAssumption ==
    /\ IsFiniteSet(Stealers) /\ MIN_BITS \in Nat /\ MaxPush \in Nat
    /\ K \in Nat /\ K >= 2

VARIABLES
    bottom, top,
    bufs,         \* every buffer there was; array points to the last one
    array,
    wpc, wb, wt,  \* worker: where it is, its b and t
    data,         \* the item it pushes or pops
    npush,
    spc, loc,     \* stealers: where each is, its t, old, b, a and data
                  \* and whether the deque looked empty when it loaded bottom
    deq,          \* ghost: the items that nobody has taken, oldest first
    fails         \* ghost: results that were not the right ones

shared == <<bottom, top, bufs, array>>
worker == <<wpc, wb, wt, data, npush>>
stealer == <<spc, loc>>
ghosts == <<deq, fails>>
vars == <<shared, worker, stealer, ghosts>>

Junk == 0
Slots(bits) == 0..(2 ^ bits - 1)
NewBuffer(bits) == [bits |-> bits, cells |-> [i \in Slots(bits) |-> Junk]]
Size(a) == 2 ^ bufs[a].bits
Get(a, i) == bufs[a].cells[i % Size(a)]

(* Mutant: one cell too few is copied. *)
Resize_Short(a, b, t, delta) ==
    LET new == NewBuffer(bufs[a].bits + delta) IN
    [new EXCEPT !.cells = [i \in DOMAIN @ |->
        LET src == {j \in t..(b - 2) : j % Cardinality(DOMAIN @) = i} IN
        IF src = {} THEN Junk ELSE Get(a, CHOOSE j \in src : TRUE)]]

(* Buffer::resize: the items t..b-1 at the same indices of a new buffer. *)
Resize(a, b, t, delta) ==
    LET new == NewBuffer(bufs[a].bits + delta) IN
    [new EXCEPT !.cells = [i \in DOMAIN @ |->
        LET src == {j \in t..(b - 1) : j % Cardinality(DOMAIN @) = i} IN
        IF src = {} THEN Junk ELSE Get(a, CHOOSE j \in src : TRUE)]]

(* A buffer in the pool may go to another deque: its slots hold anything. *)
Freed(a) == [bufs EXCEPT ![a] = NewBuffer(MIN_BITS)]

NoLocals == [t |-> 0, old |-> 0, b |-> 0, a |-> 0, data |-> Junk, empty |-> FALSE]

Check(cond, site) == fails' = IF cond THEN fails ELSE fails \cup {site}

Init ==
    /\ bottom = 0 /\ top = 0 /\ bufs = <<NewBuffer(MIN_BITS)>> /\ array = 1
    /\ wpc = "idle" /\ wb = 0 /\ wt = 0 /\ data = Junk /\ npush = 0
    /\ spc = [s \in Stealers |-> "idle"]
    /\ loc = [s \in Stealers |-> NoLocals]
    /\ deq = <<>> /\ fails = {}
-----------------------------------------------------------------------------
(* The worker.                                                              *)

Return == wpc' = "idle" /\ wb' = 0 /\ wt' = 0 /\ data' = Junk

(* push: the buffer grows unless a slot stays free. *)
Push ==
    /\ wpc = "idle" /\ npush < MaxPush
    /\ npush' = npush + 1 /\ data' = npush'
    /\ IF bottom - top >= Size(array) - 1
         THEN /\ bufs' = Append(bufs, Resize(array, bottom, top, 1))
              /\ wpc' = "grow" /\ wb' = bottom
         ELSE wpc' = "put" /\ UNCHANGED <<bufs, wb>>
    /\ UNCHANGED <<bottom, top, array, wt, stealer, ghosts>>

Put ==
    /\ wpc = "put" /\ wpc' = "publish"
    /\ bufs' = [bufs EXCEPT ![array].cells[bottom % Size(array)] = data]
    /\ UNCHANGED <<bottom, top, array, wb, wt, data, npush, stealer, ghosts>>

Publish ==
    /\ wpc = "publish" /\ Return
    /\ bottom' = bottom + 1 /\ deq' = Append(deq, data)
    /\ UNCHANGED <<top, bufs, array, npush, stealer, fails>>

(* swap_buffer, for "grow" and "shrink": the new buffer is stored, ...      *)
SwapArray ==
    /\ wpc \in {"grow", "shrink"} /\ array' = Len(bufs)
    /\ wpc' = IF wpc = "grow" THEN "growBottom" ELSE "shrinkBottom"
    /\ UNCHANGED <<bottom, top, bufs, wb, wt, data, npush, stealer, ghosts>>

Swapping(step) == wpc \in {"grow" \o step, "shrink" \o step}
SwapNext(step) == wpc' = IF \E x \in {"Bottom", "Load", "Cas"} : wpc = "grow" \o x
                         THEN "grow" \o step ELSE "shrink" \o step

(* ... bottom moves up by its size, ... *)
SwapBottom ==
    /\ Swapping("Bottom") /\ SwapNext("Load")
    /\ bottom' = wb + Size(array)
    /\ UNCHANGED <<top, bufs, array, wb, wt, data, npush, stealer, ghosts>>

SwapLoad ==
    /\ Swapping("Load") /\ SwapNext("Cas") /\ wt' = top
    /\ UNCHANGED <<shared, wb, data, npush, stealer, ghosts>>

(* ... and top follows, or bottom comes back down; the old buffer is freed. *)
SwapCas ==
    /\ Swapping("Cas")
    /\ IF wpc = "growCas" THEN wpc' = "put" /\ wb' = 0 /\ wt' = 0 /\ UNCHANGED data
       ELSE Return
    /\ IF top = wt THEN top' = top + Size(array) /\ UNCHANGED bottom
       ELSE bottom' = wb /\ UNCHANGED top
    /\ bufs' = Freed(array - 1)
    /\ UNCHANGED <<array, npush, stealer, ghosts>>

Pop ==
    /\ wpc = "idle" /\ wpc' = "pop"
    /\ wb' = bottom - 1 /\ bottom' = wb'
    /\ UNCHANGED <<top, bufs, array, wt, data, npush, stealer, ghosts>>

(* Mutant: the last item is taken without a race for it. *)
NotLast_OrLast(size) == size >= 0

NotLast(size) == size > 0

(* maybe_shrink. *)
Shrinks(size) == size < Size(array) \div K /\ size > 2 ^ MIN_BITS

(* One item is not the last: nobody races for it. *)
PopFree(item, size) ==
    /\ Check(deq # <<>> /\ item = Last(deq), "pop") /\ deq' = Front(deq)
    /\ IF Shrinks(size)
         THEN /\ bufs' = Append(bufs, Resize(array, wb, top, -1))
              /\ wpc' = "shrink" /\ UNCHANGED <<wb, wt, data>>
         ELSE Return /\ UNCHANGED bufs

PopLoad ==
    LET size == wb - top IN
    /\ wpc = "pop"
    /\ IF NotLast(size) THEN PopFree(Get(array, wb), size)
       ELSE /\ wt' = top /\ UNCHANGED <<bufs, wb, ghosts>>
            /\ IF size < 0 THEN wpc' = "restore" /\ UNCHANGED data
               ELSE wpc' = "popCas" /\ data' = Get(array, wb)
    /\ UNCHANGED <<bottom, top, array, npush, stealer>>

(* An empty deque: bottom comes back up. *)
PopNone ==
    /\ wpc = "restore" /\ Return /\ bottom' = wt
    /\ Check(deq = <<>>, "none")
    /\ UNCHANGED <<top, bufs, array, npush, stealer, deq>>

(* The race with the stealers for the last item. *)
PopCas ==
    /\ wpc = "popCas" /\ wpc' = "raced" /\ data' = Junk
    /\ IF top = wt
         THEN /\ top' = top + 1 /\ Check(deq = <<data>>, "pop") /\ deq' = <<>>
         ELSE Check(deq = <<>>, "none") /\ UNCHANGED <<top, deq>>
    /\ UNCHANGED <<bottom, bufs, array, wb, wt, npush, stealer>>

PopRaced ==
    /\ wpc = "raced" /\ Return /\ bottom' = wt + 1
    /\ UNCHANGED <<top, bufs, array, npush, stealer, ghosts>>
-----------------------------------------------------------------------------
(* A stealer.                                                               *)

Goto(s, where) == spc' = [spc EXCEPT ![s] = where]
StealReturn(s) == Goto(s, "idle") /\ loc' = [loc EXCEPT ![s] = NoLocals]

StealTop(s) ==
    /\ spc[s] = "idle" /\ wpc # "gone"
    /\ Goto(s, "old") /\ loc' = [loc EXCEPT ![s].t = top]
    /\ UNCHANGED <<shared, worker, ghosts>>

StealOld(s) ==
    /\ spc[s] = "old" /\ Goto(s, "bottom") /\ loc' = [loc EXCEPT ![s].old = array]
    /\ UNCHANGED <<shared, worker, ghosts>>

(* The deque was empty, or the worker is racing for its last item. *)
LooksEmpty == deq = <<>> \/ (wpc \in {"pop", "popCas"} /\ Len(deq) = 1)

StealBottom(s) ==
    /\ spc[s] = "bottom"
    /\ IF bottom <= loc[s].t THEN StealReturn(s) /\ Check(LooksEmpty, "empty")
       ELSE /\ Goto(s, "array") /\ UNCHANGED fails
            /\ loc' = [loc EXCEPT ![s].b = bottom, ![s].empty = LooksEmpty]
    /\ UNCHANGED <<shared, worker, deq>>

(* A whole buffer between t and b: bottom has moved up and top has not.     *)
StealArray(s) ==
    LET l == loc[s] IN
    /\ spc[s] = "array"
    /\ IF (l.b - l.t) % Size(array) # 0
         THEN /\ loc' = [loc EXCEPT ![s] = [NoLocals EXCEPT !.t = l.t, !.a = array]]
              /\ Goto(s, "get")
         ELSE IF array = l.old
         THEN /\ loc' = [loc EXCEPT ![s] = [NoLocals EXCEPT !.t = l.t, !.empty = l.empty]]
              /\ Goto(s, "again")
         ELSE StealReturn(s)
    /\ UNCHANGED <<shared, worker, ghosts>>

StealAgain(s) ==
    /\ spc[s] = "again" /\ StealReturn(s)
    /\ Check(top = loc[s].t => loc[s].empty, "empty")
    /\ UNCHANGED <<shared, worker, deq>>

StealGet(s) ==
    /\ spc[s] = "get" /\ Goto(s, "cas")
    /\ loc' = [loc EXCEPT ![s].a = 0, ![s].data = Get(loc[s].a, loc[s].t)]
    /\ UNCHANGED <<shared, worker, ghosts>>

StealCas(s) ==
    /\ spc[s] = "cas" /\ StealReturn(s)
    /\ IF top = loc[s].t
         THEN /\ top' = top + 1
              /\ Check(deq # <<>> /\ loc[s].data = Head(deq), "steal")
              /\ deq' = IF deq = <<>> THEN deq ELSE Tail(deq)
         ELSE UNCHANGED <<top, ghosts>>
    /\ UNCHANGED <<bottom, bufs, array, worker>>
-----------------------------------------------------------------------------
(* Drop, when the worker and the stealers are gone: the items that are left *)
(* are destroyed.                                                           *)
Drop ==
    /\ wpc = "idle" /\ (\A s \in Stealers : spc[s] = "idle") /\ wpc' = "gone"
    /\ Check(deq = [i \in 1..(bottom - top) |-> Get(array, top + i - 1)], "drop")
    /\ deq' = <<>>
    /\ UNCHANGED <<shared, wb, wt, data, npush, stealer>>

Finished == wpc = "gone" /\ UNCHANGED vars

WorkerNext == \/ Push \/ Put \/ Publish \/ SwapArray \/ SwapBottom \/ SwapLoad
              \/ SwapCas \/ Pop \/ PopLoad \/ PopNone \/ PopCas \/ PopRaced
StealerNext(s) == \/ StealTop(s) \/ StealOld(s) \/ StealBottom(s) \/ StealArray(s)
                  \/ StealAgain(s) \/ StealGet(s) \/ StealCas(s)

Next == WorkerNext \/ (\E s \in Stealers : StealerNext(s)) \/ Drop \/ Finished

Spec == Init /\ [][Next]_vars
-----------------------------------------------------------------------------
(* Every variable keeps its type, and bottom its distance from top. *)
TypeOK ==
    /\ bottom \in (top - 1)..(top + 2 * Size(array)) /\ top \in Nat
    /\ array \in DOMAIN bufs /\ Len(bufs) <= array + 1 /\ npush \in 0..MaxPush
    /\ \A a \in DOMAIN bufs : /\ bufs[a].bits \in Nat /\ bufs[a].bits >= MIN_BITS
                              /\ bufs[a].cells \in [Slots(bufs[a].bits) -> 0..MaxPush]
    /\ data \in 0..MaxPush /\ deq \in Seq(1..MaxPush)

(* "The usage by the deque must ensure that one of the values is forgotten" *)
(* (deque.rs:130): every item is taken once, by the worker the newest, by a *)
(* stealer the oldest that is left, and never out of a buffer that was      *)
(* given back to the pool; pop returns None only from an empty deque; Drop  *)
(* destroys each of the rest once.  steal returns Empty only if, when it    *)
(* looked at bottom, nothing was there but what the worker is about to race *)
(* for.                                                                     *)
TakesEnds == fails = {}

(* With the types: the items nobody has taken are the slots from top on in  *)
(* the current buffer - through a swap, too - and up to bottom when the     *)
(* worker is idle; one slot stays free.                                     *)
Contents ==
    /\ TypeOK
    /\ deq = [i \in 1..Len(deq) |-> Get(array, top + i - 1)]
    /\ Len(deq) < Size(array)
    /\ wpc = "idle" => bottom - top = Len(deq)
=============================================================================
