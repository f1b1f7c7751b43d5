-------------------------------- MODULE Spsc --------------------------------
(***************************************************************************)
(* The single-producer single-consumer queue, libstd/sync/spsc_queue.rs: a *)
(* linked list whose consumed nodes the producer takes back from a cache.  *)
(* A step is one access to what the other side writes too; the accesses to *)
(* a side's own fields go with it.                                         *)
(***************************************************************************)
EXTENDS Integers, Sequences, FiniteSets

CONSTANTS CacheBounds,  \* the bounds of the cache that are tried
          WORD,         \* 2^w for uints of w bits
          SpscPushes    \* bound: values pushed, each with its number

VARIABLES
    sheap,     \* the nodes: [value, next]
    freed,     \* nodes that were given back to the allocator
    squeue,    \* the fields of Queue
    producer,  \* [pc, node]: where the producer is in push
    consumer,  \* [pc, old, next]: where the consumer is in pop
    sret,      \* what the consumer's last operation returned
    spushed    \* values pushed

spscvars == <<sheap, freed, squeue, producer, consumer, sret, spushed>>

Null == 0
NoValue == 0
NewNode == [value |-> NoValue, next |-> Null]
Dead == [value |-> -1, next |-> Null]

SpscInit ==
    /\ sheap = <<[NewNode EXCEPT !.next = 2], NewNode>> /\ freed = {}
    /\ \E b \in CacheBounds :
         squeue = [tail |-> 2, tail_prev |-> 1, head |-> 2, first |-> 1, tail_copy |-> 1,
                   cache_bound |-> b, additions |-> 0, subtractions |-> 0]
    /\ producer = [pc |-> "idle", node |-> Null]
    /\ consumer = [pc |-> "idle", old |-> Null, next |-> Null]
    /\ sret = <<"done">> /\ spushed = 0

-----------------------------------------------------------------------------
(* The producer: push and alloc.                                            *)

(* Where alloc goes on for a value of tail_copy. *)
AllocFrom(tail_copy, otherwise) ==
    IF squeue.first = tail_copy THEN otherwise
    ELSE IF squeue.cache_bound > 0 THEN "count" ELSE "reuse"

SpscPush ==
    /\ producer.pc = "idle" /\ spushed < SpscPushes /\ spushed' = spushed + 1
    /\ producer' = [producer EXCEPT !.pc = AllocFrom(squeue.tail_copy, "reload")]
    /\ UNCHANGED <<sheap, freed, squeue, consumer, sret>>

AllocReload ==
    /\ producer.pc = "reload"
    /\ squeue' = [squeue EXCEPT !.tail_copy = squeue.tail_prev]
    /\ producer' = [producer EXCEPT !.pc = AllocFrom(squeue.tail_prev, "new")]
    /\ UNCHANGED <<sheap, freed, consumer, sret, spushed>>

AllocCount ==
    /\ producer.pc = "count" /\ producer' = [producer EXCEPT !.pc = "reuse"]
    /\ squeue' = [squeue EXCEPT !.subtractions = (@ + 1) % WORD]
    /\ UNCHANGED <<sheap, freed, consumer, sret, spushed>>

AllocReuse ==
    /\ producer.pc = "reuse"
    /\ producer' = [pc |-> "fill", node |-> squeue.first]
    /\ squeue' = [squeue EXCEPT !.first = sheap[squeue.first].next]
    /\ UNCHANGED <<sheap, freed, consumer, sret, spushed>>

AllocNew ==
    /\ producer.pc = "new"
    /\ sheap' = Append(sheap, NewNode)
    /\ producer' = [pc |-> "fill", node |-> Len(sheap) + 1]
    /\ UNCHANGED <<freed, squeue, consumer, sret, spushed>>

(* push: the node is the producer's alone, so it is filled in one step.  An *)
(* assertion that fails shows as an answer that no queue gives.             *)
Fill ==
    LET n == producer.node
    IN  /\ producer.pc = "fill"
        /\ sret' = IF sheap[n].value = NoValue THEN sret ELSE <<"push asserts">>
        /\ sheap' = [sheap EXCEPT ![n] = [value |-> spushed, next |-> Null]]
        /\ producer' = [producer EXCEPT !.pc = "link"]
        /\ UNCHANGED <<freed, squeue, consumer, spushed>>

Link ==
    /\ producer.pc = "link"
    /\ sheap' = [sheap EXCEPT ![squeue.head].next = producer.node]
    /\ squeue' = [squeue EXCEPT !.head = producer.node]
    /\ producer' = [pc |-> "idle", node |-> Null]
    /\ UNCHANGED <<freed, consumer, sret, spushed>>
-----------------------------------------------------------------------------
(* The consumer: pop and peek.                                              *)

SpscCall ==
    /\ consumer.pc = "idle" /\ sret # <<"pending">> /\ sret' = <<"pending">>
    /\ UNCHANGED <<sheap, freed, squeue, producer, consumer, spushed>>

(* pop, up to the cache: what is behind the tail is the consumer's. *)
SpscPop ==
    LET tail == squeue.tail
        next == sheap[tail].next
    IN  /\ consumer.pc = "idle" /\ sret = <<"pending">>
        /\ IF next = Null
             THEN sret' = <<"nothing">> /\ UNCHANGED <<sheap, squeue, consumer>>
             ELSE /\ sret' = IF sheap[next].value = NoValue
                               THEN <<"pop asserts">> ELSE <<"some", sheap[next].value>>
                  /\ sheap' = [sheap EXCEPT ![next].value = NoValue]
                  /\ squeue' = [squeue EXCEPT !.tail = next]
                  /\ consumer' = [pc |-> "cache", old |-> tail, next |-> next]
        /\ UNCHANGED <<freed, producer, spushed>>

(* peek: the answer that pop would give, and nothing is taken. *)
SpscPeek ==
    LET next == sheap[squeue.tail].next
    IN  /\ consumer.pc = "idle" /\ sret = <<"pending">>
        /\ sret' = IF next = Null THEN <<"nothing">> ELSE <<"some", sheap[next].value>>
        /\ UNCHANGED <<sheap, freed, squeue, producer, consumer, spushed>>

(* The old tail goes into the cache unless that is at its bound; the other  *)
(* side may take a node from it before it does.                             *)
CacheHolds ==
    \/ squeue.cache_bound = 0
    \/ (squeue.additions - squeue.subtractions) % WORD < squeue.cache_bound

CacheSize ==
    /\ consumer.pc = "cache"
    /\ consumer' = [consumer EXCEPT !.pc = IF CacheHolds THEN "keep" ELSE "free"]
    /\ UNCHANGED <<sheap, freed, squeue, producer, sret, spushed>>

CacheOld ==
    /\ consumer.pc = "keep"
    /\ squeue' = [squeue EXCEPT !.tail_prev = consumer.old,
                                !.additions = IF squeue.cache_bound = 0 THEN @ ELSE (@ + 1) % WORD]
    /\ consumer' = [pc |-> "idle", old |-> Null, next |-> Null]
    /\ UNCHANGED <<sheap, freed, producer, sret, spushed>>

(* Mutation: the node before the freed one still points to it. *)
FreeOld_NoUnlink ==
    /\ consumer.pc = "free"
    /\ sheap' = [sheap EXCEPT ![consumer.old] = Dead]
    /\ freed' = freed \cup {consumer.old}
    /\ consumer' = [pc |-> "idle", old |-> Null, next |-> Null]
    /\ UNCHANGED <<squeue, producer, sret, spushed>>

(* ... and is otherwise taken out of the list and freed. *)
FreeOld ==
    /\ consumer.pc = "free"
    /\ sheap' = [sheap EXCEPT ![squeue.tail_prev].next = consumer.next,
                              ![consumer.old] = Dead]
    /\ freed' = freed \cup {consumer.old}
    /\ consumer' = [pc |-> "idle", old |-> Null, next |-> Null]
    /\ UNCHANGED <<squeue, producer, sret, spushed>>
-----------------------------------------------------------------------------
RECURSIVE Chain(_, _)
(* The nodes from n on, at most k of them. *)
Chain(n, k) == IF n = Null \/ k = 0 THEN <<>> ELSE <<n>> \o Chain(sheap[n].next, k - 1)
NodesFrom(n) == Chain(n, Len(sheap) + 1)

(* Queue::drop walks the list from `first`: it must free every node once. *)
SpscDrop ==
    LET list == NodesFrom(squeue.first)
        live == DOMAIN sheap \ freed
    IN  /\ producer.pc = "idle" /\ consumer.pc = "idle" /\ freed # DOMAIN sheap
        /\ sret # <<"pending">>
        /\ sret' = IF {list[i] : i \in DOMAIN list} = live /\ Len(list) = Cardinality(live)
                     THEN sret ELSE <<"drop frees wrongly">>
        /\ freed' = DOMAIN sheap
        /\ sheap' = [n \in DOMAIN sheap |-> Dead]
        /\ producer' = [producer EXCEPT !.pc = "gone"]
        /\ consumer' = [consumer EXCEPT !.pc = "gone"]
        /\ UNCHANGED <<squeue, spushed>>

SpscNext ==
    \/ SpscPush \/ AllocReload \/ AllocCount \/ AllocReuse \/ AllocNew \/ Fill \/ Link
    \/ SpscCall \/ SpscPop \/ SpscPeek \/ CacheSize \/ CacheOld \/ FreeOld \/ SpscDrop
    \/ producer.pc = "gone" /\ UNCHANGED spscvars

SpscSpec == SpscInit /\ [][SpscNext]_spscvars
-----------------------------------------------------------------------------
Contents ==
    LET list == IF consumer.pc = "gone" THEN <<>> ELSE Tail(NodesFrom(squeue.tail))
    IN  [i \in DOMAIN list |-> [item |-> sheap[list[i]].value, available |-> TRUE]]

Abstract == INSTANCE Fifo WITH
    Items <- 1..SpscPushes, Clients <- {"consumer"}, capacity <- SpscPushes,
    fifo <- Contents, answer <- [c \in {"consumer"} |-> sret],
    emptying <- {}, exists <- consumer.pc # "gone"

(* The list from the tail on is a FIFO queue: values come out as they were  *)
(* pushed, whatever nodes are reused, cached or freed meanwhile; pop and    *)
(* peek find it empty only when it is; no assertion of push or pop fails,   *)
(* and drop frees every node once.                                          *)
SpscRefines == Abstract!FifoSpec
=============================================================================
