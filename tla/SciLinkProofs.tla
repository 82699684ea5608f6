--------------------------- MODULE SciLinkProofs ---------------------------
(***************************************************************************)
(* Proofs about SciLink: however many messages are sent and however often  *)
(* the connection breaks, semaphores are exact and messages arrive in      *)
(* order.                                                                  *)
(***************************************************************************)
EXTENDS SciLink, TLAPS

WriterPC == {"read", "write", "recover", "frozen", "took"}
ReaderPC == {"read", "release", "await", "frozen", "took", "hello", "out", "outWait"}
ListenerPC == {"accept", "route", "in", "inWait", "out", "outWait"}
MaybeStream == Streams \cup {None}
Slot == [frozen : BOOLEAN, notified : BOOLEAN, ret : MaybeStream]

Typed ==
  /\ data \in [Streams -> [Sides -> Seq(Nat)]]
  /\ queue \in [Sides -> Seq(Nat)] /\ sem \in [Sides -> Nat] /\ produced \in [Sides -> Nat]
  /\ wpc \in [Sides -> WriterPC] /\ rpc \in [Sides -> ReaderPC] /\ lpc \in ListenerPC
  /\ in \in [Sides -> Streams] /\ out \in [Sides -> Streams]
  /\ received \in [Sides -> Seq(Nat)]
  /\ slot \in [Events -> Slot]
  /\ offer \in MaybeStream /\ pending \in MaybeStream /\ handed \in MaybeStream

(***************************************************************************)
(* Sequences of messages, among which RELEASE does not count.              *)
(***************************************************************************)
Ordered(q) ==
  \A i, j \in 1..Len(q) : i < j /\ q[i] # RELEASE /\ q[j] # RELEASE => q[i] < q[j]
Before(p, q) ==
  \A i \in 1..Len(p), j \in 1..Len(q) : p[i] # RELEASE /\ q[j] # RELEASE => p[i] < q[j]
UpTo(q, n) == \A i \in 1..Len(q) : q[i] <= n
Clean(q) == \A i \in 1..Len(q) : q[i] # RELEASE

(***************************************************************************)
(* The handing over of streams.                                            *)
(***************************************************************************)
InSlot == slot[<<"in", "parent">>]
InTook == slot[<<"inTook", "parent">>]
OutSlot == slot[<<"out", "child">>]
OutTook == slot[<<"outTook", "child">>]

HandedOver ==
  /\ (lpc = "accept") <=> (offer = None)
  /\ InSlot.frozen => rpc["parent"] = "frozen"
  /\ InSlot.notified => InSlot.ret = offer /\ lpc = "inWait" /\ rpc["parent"] = "frozen"
  /\ rpc["parent"] = "took" => handed = offer /\ lpc = "inWait" /\ ~InSlot.notified
  /\ InTook.notified => lpc = "inWait" /\ rpc["parent"] # "took" /\ ~InSlot.notified
  /\ OutSlot.frozen \/ OutSlot.notified => wpc["child"] = "frozen"
  /\ OutSlot.notified => OutSlot.ret = in["child"] /\ rpc["child"] = "outWait"
  /\ OutTook.notified => ~OutSlot.notified
  /\ slot[<<"out", "parent">>].notified => slot[<<"out", "parent">>].ret # None

(* A stream that the child has opened and nobody has accepted. *)
Unaccepted ==
  pending # None =>
    /\ pending = in["child"]
    /\ rpc["child"] \in {"hello", "await"}
    /\ rpc["child"] = "await" => pending \in broken
    /\ pending # in["parent"] /\ pending # out["parent"] /\ pending # out["child"]
    /\ pending # offer /\ pending # handed
    /\ \A e \in Events : slot[e].ret # pending
    /\ \A x \in Sides : data[pending][x] = << >>

(* The answer of the Listener is not read as a message. *)
Answered ==
  /\ rpc["child"] \in {"out", "outWait", "read"} => Clean(data[in["child"]]["parent"])
  /\ rpc["child"] = "hello" =>
       \A i \in 2..Len(data[in["child"]]["parent"]) : data[in["child"]]["parent"][i] # RELEASE
  /\ \A s \in Streams : Clean(data[s]["child"])

(* What x sends is in order in the queue, in each stream and at the other side. *)
InOrder ==
  \A x \in Sides :
    /\ Ordered(queue[x]) /\ UpTo(queue[x], produced[x])
    /\ \A s \in Streams : /\ Ordered(data[s][x]) /\ UpTo(data[s][x], produced[x])
                          /\ Before(data[s][x], queue[x])
    /\ Clean(received[Other(x)]) /\ Ordered(received[Other(x)])
    /\ UpTo(received[Other(x)], produced[x])
    /\ Before(received[Other(x)], queue[x])
    /\ Before(received[Other(x)], data[in[Other(x)]][x])

(* The parent reads streams in the order in which the child wrote them. *)
NewStream == offer # None /\ offer # in["parent"]
Older ==
  /\ offer # None => Before(received["parent"], data[offer]["child"])
  /\ NewStream => /\ Before(data[in["parent"]]["child"], data[offer]["child"])
                  /\ in["child"] # in["parent"]
                  /\ out["child"] = in["parent"] => data[offer]["child"] = << >>

LinkInv == Typed /\ SemCounts /\ HandedOver /\ Unaccepted /\ Answered /\ InOrder /\ Older

(***************************************************************************)
(* Lemmas on sequences of messages.                                        *)
(***************************************************************************)
(* The empty sequence is in order with everything. *)
LEMMA EmptySeq ==
  ASSUME NEW p \in Seq(Nat), NEW n \in Nat
  PROVE  /\ << >> \in Seq(Nat) /\ Ordered(<< >>) /\ Clean(<< >>) /\ UpTo(<< >>, n)
         /\ Before(p, << >>) /\ Before(<< >>, p)
BY DEF Ordered, Clean, UpTo, Before

(* What is left when a message is taken is in order with what it was with. *)
LEMMA TailSeq ==
  ASSUME NEW q \in Seq(Nat), q # << >>
  PROVE  /\ Tail(q) \in Seq(Nat) /\ Len(Tail(q)) = Len(q) - 1
         /\ \A i \in 1..Len(Tail(q)) : i + 1 \in 1..Len(q) /\ Tail(q)[i] = q[i + 1]
         /\ Head(q) = q[1] /\ Head(q) \in Nat /\ 1 \in 1..Len(q)
OBVIOUS

LEMMA TailOrdered ==
  ASSUME NEW q \in Seq(Nat), q # << >>
  PROVE  /\ Ordered(q) => Ordered(Tail(q))
         /\ Clean(q) => Clean(Tail(q))
         /\ \A n \in Nat : UpTo(q, n) => UpTo(Tail(q), n)
<1>1. Ordered(q) => Ordered(Tail(q))
  BY TailSeq DEF Ordered
<1>2. Clean(q) => Clean(Tail(q))
  BY TailSeq DEF Clean
<1>3. \A n \in Nat : UpTo(q, n) => UpTo(Tail(q), n)
  BY TailSeq, Zenon DEF UpTo
<1> QED BY <1>1, <1>2, <1>3, Zenon

LEMMA TailBefore ==
  ASSUME NEW q \in Seq(Nat), q # << >>, NEW p \in Seq(Nat)
  PROVE  /\ Before(q, p) => Before(Tail(q), p)
         /\ Before(p, q) => Before(p, Tail(q))
<1>1. Before(q, p) => Before(Tail(q), p)
  BY TailSeq, Zenon DEF Before
<1>2. Before(p, q) => Before(p, Tail(q))
  BY TailSeq DEF Before
<1> QED BY <1>1, <1>2, Zenon

LEMMA AppendSeq ==
  ASSUME NEW q \in Seq(Nat), NEW m \in Nat
  PROVE  /\ Append(q, m) \in Seq(Nat) /\ Len(Append(q, m)) = Len(q) + 1
         /\ Append(q, m)[Len(q) + 1] = m
         /\ \A i \in 1..Len(q) : Append(q, m)[i] = q[i]
OBVIOUS

(* m comes after all of q. *)
After(q, m) == \A i \in 1..Len(q) : q[i] # RELEASE => q[i] < m

LEMMA AppendOrdered ==
  ASSUME NEW q \in Seq(Nat), NEW m \in Nat, m = RELEASE \/ After(q, m)
  PROVE  Ordered(q) => Ordered(Append(q, m))
BY AppendSeq DEF Ordered, After

LEMMA AppendBefore ==
  ASSUME NEW q \in Seq(Nat), NEW m \in Nat, NEW p \in Seq(Nat), m = RELEASE \/ After(p, m)
  PROVE  Before(p, q) => Before(p, Append(q, m))
BY AppendSeq DEF Before, After

LEMMA AppendUpTo ==
  ASSUME NEW q \in Seq(Nat), NEW m \in Nat, NEW n \in Nat
  PROVE  /\ UpTo(q, n) /\ m <= n => UpTo(Append(q, m), n)
         /\ Clean(q) /\ m # RELEASE => Clean(Append(q, m))
BY AppendSeq DEF UpTo, Clean

LEMMA BeforeAppended ==
  ASSUME NEW p \in Seq(Nat), NEW m \in Nat, NEW q, Before(p, q),
         \A j \in 1..Len(q) : m # RELEASE /\ q[j] # RELEASE => m < q[j]
  PROVE  Before(Append(p, m), q)
<1>1. PICK a : a = Append(p, m)
  BY Zenon
<1>2. Len(a) = Len(p) + 1 /\ a[Len(p) + 1] = m /\ \A i \in 1..Len(p) : a[i] = p[i]
  BY <1>1, AppendSeq, Zenon
<1>3. PICK n : n = Len(p)
  OBVIOUS
<1>4. n \in Nat
  BY <1>3
<1>5. \A i \in 1..(n + 1) : i \in 1..n \/ i = n + 1
  BY <1>4
<1>6. Before(a, q)
  BY <1>2, <1>3, <1>5, Zenon DEF Before
<1> QED
  BY <1>1, <1>6, Zenon

(* The head of a queue comes after what the queue comes after. *)
LEMMA HeadAfter ==
  ASSUME NEW q \in Seq(Nat), q # << >>, Head(q) # RELEASE, NEW p \in Seq(Nat), Before(p, q)
  PROVE  After(p, Head(q))
BY TailSeq, Zenon DEF Before, After

(* The head of a queue moves to the end of what comes before it. *)
LEMMA HeadMoves ==
  ASSUME NEW q \in Seq(Nat), q # << >>, Ordered(q), NEW p \in Seq(Nat), Before(p, q)
  PROVE  Before(Append(p, Head(q)), Tail(q))
<1> DEFINE m == Head(q)
           r == Tail(q)
<1>1. m \in Nat /\ r \in Seq(Nat) /\ Before(p, r)
  BY TailSeq, TailBefore, Zenon
<1>2. \A j \in 1..Len(r) : m # RELEASE /\ r[j] # RELEASE => m < r[j]
  BY TailSeq DEF Ordered
<1> HIDE DEF m, r
<1>3. Before(Append(p, m), r)
  BY <1>1, <1>2, BeforeAppended, Zenon
<1> QED BY <1>3, Zenon DEF m, r

(* The head of a stream is read: it is still before what the stream was before. *)
LEMMA HeadRead ==
  ASSUME NEW d \in Seq(Nat), d # << >>, NEW p \in Seq(Nat), NEW q \in Seq(Nat),
         Before(d, q), Before(p, q)
  PROVE  Before(Append(p, Head(d)), q)
<1>1. Head(d) \in Nat /\ \A j \in 1..Len(q) : Head(d) # RELEASE /\ q[j] # RELEASE => Head(d) < q[j]
  BY TailSeq, Zenon DEF Before
<1> QED BY <1>1, BeforeAppended, Zenon

LEMMA UpToAfter ==
  ASSUME NEW p \in Seq(Nat), NEW n \in Nat, UpTo(p, n)
  PROVE  After(p, n + 1) /\ UpTo(p, n + 1)
BY DEF UpTo, After

(***************************************************************************)
(* What a step leaves alone.                                               *)
(***************************************************************************)
LEMMA Frames ==
  ASSUME LinkInv
  PROVE  /\ UNCHANGED <<sem, wpc, queue>> => SemCounts'
         /\ UNCHANGED <<lpc, offer, slot, rpc, handed, wpc, in>> => HandedOver'
         /\ UNCHANGED <<pending, in, rpc, broken, out, offer, handed, slot, data>> => Unaccepted'
         /\ UNCHANGED <<rpc, data, in>> => Answered'
         /\ UNCHANGED <<queue, produced, data, received, in>> => InOrder'
         /\ UNCHANGED <<offer, received, data, in, out>> => Older'
<1>1. UNCHANGED <<sem, wpc, queue>> => SemCounts'
  BY Zenon DEF LinkInv, SemCounts
<1>2. UNCHANGED <<lpc, offer, slot, rpc, handed, wpc, in>> => HandedOver'
  BY Zenon DEF LinkInv, HandedOver, InSlot, InTook, OutSlot, OutTook
<1>3. UNCHANGED <<pending, in, rpc, broken, out, offer, handed, slot, data>> => Unaccepted'
  BY Zenon DEF LinkInv, Unaccepted
<1>4. UNCHANGED <<rpc, data, in>> => Answered'
  BY Zenon DEF LinkInv, Answered
<1>5. UNCHANGED <<queue, produced, data, received, in>> => InOrder'
  BY Zenon DEF LinkInv, InOrder
<1>6. UNCHANGED <<offer, received, data, in, out>> => Older'
  BY Zenon DEF LinkInv, Older, NewStream
<1> QED BY <1>1, <1>2, <1>3, <1>4, <1>5, <1>6, Zenon

(***************************************************************************)
(* The Writers.                                                            *)
(***************************************************************************)
LEMMA SemStep ==
  ASSUME LinkInv, NEW x \in Sides,
         \A y \in Sides \ {x} : sem'[y] = sem[y] /\ wpc'[y] = wpc[y] /\ queue'[y] = queue[y],
         wpc'[x] = "write" => sem'[x] + 1 = Len(queue'[x]),
         wpc'[x] # "write" => sem'[x] + 0 = Len(queue'[x])
  PROVE  SemCounts'
BY Zenon DEF LinkInv, SemCounts

LEMMA ProduceStep ==
  ASSUME LinkInv, NEW x \in Sides, Produce(x)
  PROVE  LinkInv'
<1>0. /\ queue[x] \in Seq(Nat) /\ produced[x] \in Nat /\ sem[x] \in Nat
      /\ produced[x] + 1 \in Nat /\ sem[x] + 1 \in Nat
  <2>1. queue[x] \in Seq(Nat) /\ produced[x] \in Nat /\ sem[x] \in Nat
    BY Zenon DEF LinkInv, Typed
  <2> QED BY <2>1
<1>1. Typed'
  <2>1. Append(queue[x], produced[x] + 1) \in Seq(Nat)
    BY <1>0, AppendSeq, Zenon
  <2> QED BY <1>0, <2>1, Zenon DEF LinkInv, Typed, Produce, net, writers, readers
<1>2. SemCounts'
  <2>1. /\ wpc[x] = "write" => sem[x] + 1 = Len(queue[x])
        /\ wpc[x] # "write" => sem[x] + 0 = Len(queue[x])
    BY Zenon DEF LinkInv, SemCounts
  <2>2. /\ sem'[x] = sem[x] + 1 /\ wpc'[x] = wpc[x]
        /\ queue'[x] = Append(queue[x], produced[x] + 1)
        /\ \A y \in Sides \ {x} : sem'[y] = sem[y] /\ wpc'[y] = wpc[y] /\ queue'[y] = queue[y]
    BY Zenon DEF LinkInv, Typed, Produce, writers
  <2>3. Len(queue'[x]) = Len(queue[x]) + 1
    BY <1>0, <2>2, AppendSeq
  <2>4. /\ wpc'[x] = "write" => sem'[x] + 1 = Len(queue'[x])
        /\ wpc'[x] # "write" => sem'[x] + 0 = Len(queue'[x])
    BY <1>0, <2>1, <2>2, <2>3
  <2> QED BY <2>2, <2>4, SemStep, Zenon
<1>3. HandedOver' /\ Unaccepted' /\ Answered' /\ Older'
  BY Frames, Zenon DEF Produce, net, writers, readers
<1>4. InOrder'
  <2> SUFFICES ASSUME NEW y \in Sides
               PROVE  InOrder!(y)'
    BY Zenon DEF InOrder
  <2>1. InOrder!(y)
    BY Zenon DEF LinkInv, InOrder
  <2>2. UNCHANGED <<data, received, in>>
    BY Zenon DEF Produce, net, readers
  <2>3. CASE y # x
    <3>1. queue'[y] = queue[y] /\ produced'[y] = produced[y]
      BY <2>3, Zenon DEF Produce, LinkInv, Typed
    <3> QED BY <2>1, <2>2, <3>1, Zenon
  <2>4. CASE y = x
    <3> DEFINE n == produced[x]
               o == Other(x)
    <3>1. queue'[x] = Append(queue[x], n + 1) /\ produced'[x] = n + 1
      BY Zenon DEF Produce, LinkInv, Typed
    <3>2. o \in Sides /\ received[o] \in Seq(Nat) /\ in[o] \in Streams
      BY Zenon DEF LinkInv, Typed, Other, Sides
    <3>3. Ordered(queue'[x]) /\ UpTo(queue'[x], produced'[x])
      BY <1>0, <2>1, <2>4, <3>1, UpToAfter, AppendOrdered, AppendUpTo
    <3>4. \A s \in Streams : /\ Ordered(data[s][x]) /\ UpTo(data[s][x], n + 1)
                             /\ Before(data[s][x], queue'[x])
      <4> TAKE s \in Streams
      <4>1. data[s][x] \in Seq(Nat)
        BY DEF LinkInv, Typed
      <4> QED BY <4>1, <1>0, <2>1, <2>4, <3>1, UpToAfter, AppendBefore, Zenon
    <3>5. UpTo(received[o], n + 1) /\ Before(received[o], queue'[x])
      BY <1>0, <2>1, <2>4, <3>1, <3>2, UpToAfter, AppendBefore, Zenon
    <3> QED BY <2>1, <2>2, <2>4, <3>1, <3>3, <3>4, <3>5, Zenon
  <2> QED BY <2>3, <2>4, Zenon
<1> QED BY <1>1, <1>2, <1>3, <1>4, Zenon DEF LinkInv

LEMMA ConsumeStep ==
  ASSUME LinkInv, NEW x \in Sides, Consume(x)
  PROVE  LinkInv'
<1>1. Typed'
  BY DEF LinkInv, Typed, Consume, net, readers, WriterPC
<1>2. SemCounts'
  <2>1. /\ queue[x] \in Seq(Nat) /\ sem[x] \in Nat /\ wpc[x] = "read" /\ sem[x] > 0
        /\ sem[x] = Len(queue[x])
    BY DEF LinkInv, Typed, SemCounts, Consume
  <2>2. /\ sem'[x] = sem[x] - 1 /\ queue'[x] = queue[x]
        /\ wpc'[x] = IF queue[x] = << >> THEN "read" ELSE "write"
        /\ \A y \in Sides \ {x} : sem'[y] = sem[y] /\ wpc'[y] = wpc[y] /\ queue'[y] = queue[y]
    BY Zenon DEF LinkInv, Typed, Consume
  <2>3. queue[x] # << >>
    BY <2>1
  <2>4. /\ wpc'[x] = "write" => sem'[x] + 1 = Len(queue'[x])
        /\ wpc'[x] # "write" => sem'[x] + 0 = Len(queue'[x])
    BY <2>1, <2>2, <2>3
  <2> QED BY <2>2, <2>4, SemStep, Zenon
<1>3. HandedOver'
  BY DEF LinkInv, Typed, HandedOver, InSlot, InTook, OutSlot, OutTook, Consume, readers
<1>4. Unaccepted' /\ Answered' /\ InOrder' /\ Older'
  BY Frames, Zenon DEF Consume, net, readers
<1> QED BY <1>1, <1>2, <1>3, <1>4, Zenon DEF LinkInv

(* The message that the Writer is at is in its queue. *)
LEMMA Writing ==
  ASSUME LinkInv, NEW x \in Sides, wpc[x] = "write"
  PROVE  /\ queue[x] \in Seq(Nat) /\ queue[x] # << >>
         /\ Head(queue[x]) \in Nat /\ Tail(queue[x]) \in Seq(Nat)
         /\ Len(Tail(queue[x])) = Len(queue[x]) - 1
<1>1. queue[x] \in Seq(Nat) /\ sem[x] \in Nat /\ sem[x] + 1 = Len(queue[x])
  BY Zenon DEF LinkInv, Typed, SemCounts
<1>2. queue[x] # << >>
  BY <1>1
<1> QED BY <1>1, <1>2, TailSeq, Zenon

(* What is before a queue is before what is left of it. *)
LEMMA Removed ==
  ASSUME LinkInv, NEW x \in Sides, wpc[x] = "write", remove(x),
         UNCHANGED <<produced, data, received, in>>
  PROVE  InOrder'
<1> SUFFICES ASSUME NEW y \in Sides
             PROVE  InOrder!(y)'
  BY Zenon DEF InOrder
<1>1. InOrder!(y)
  BY Zenon DEF LinkInv, InOrder
<1>2. CASE y # x
  <2>1. queue'[y] = queue[y]
    BY <1>2, Zenon DEF remove, LinkInv, Typed
  <2> QED BY <1>1, <2>1, Zenon
<1>3. CASE y = x
  <2>1. queue'[x] = Tail(queue[x])
    BY Zenon DEF remove, LinkInv, Typed
  <2>2. Other(x) \in Sides /\ received[Other(x)] \in Seq(Nat) /\ produced[x] \in Nat
    BY Zenon DEF LinkInv, Typed, Other, Sides
  <2>3. Ordered(queue'[x]) /\ UpTo(queue'[x], produced[x])
    BY <1>1, <1>3, <2>1, <2>2, Writing, TailOrdered, Zenon
  <2>4. \A s \in Streams : Before(data[s][x], queue'[x])
    <3> TAKE s \in Streams
    <3>1. data[s][x] \in Seq(Nat)
      BY DEF LinkInv, Typed
    <3> QED BY <3>1, <1>1, <1>3, <2>1, Writing, TailBefore, Zenon
  <2>5. Before(received[Other(x)], queue'[x])
    BY <1>1, <1>3, <2>1, <2>2, Writing, TailBefore, Zenon
  <2> QED BY <1>1, <1>3, <2>3, <2>4, <2>5, Zenon
<1> QED BY <1>2, <1>3, Zenon

LEMMA RemovedCounts ==
  ASSUME LinkInv, NEW x \in Sides, wpc[x] = "write", remove(x),
         NEW pc, pc # "write", wpc' = [wpc EXCEPT ![x] = pc]
  PROVE  SemCounts'
<1>1. sem[x] \in Nat /\ sem[x] + 1 = Len(queue[x])
  BY Zenon DEF LinkInv, Typed, SemCounts
<1>2. /\ sem'[x] = sem[x] /\ queue'[x] = Tail(queue[x]) /\ wpc'[x] = pc
      /\ \A y \in Sides \ {x} : sem'[y] = sem[y] /\ wpc'[y] = wpc[y] /\ queue'[y] = queue[y]
  BY Zenon DEF LinkInv, Typed, remove
<1>3. Len(queue'[x]) = Len(queue[x]) - 1
  BY <1>2, Writing, Zenon
<1>4. sem'[x] + 0 = Len(queue'[x])
  BY <1>1, <1>2, <1>3
<1> QED BY <1>2, <1>4, SemStep, Zenon

LEMMA WriteReleaseStep ==
  ASSUME LinkInv, NEW x \in Sides, WriteRelease(x)
  PROVE  LinkInv'
<1>1. Typed'
  BY Writing, Zenon DEF LinkInv, Typed, WriteRelease, remove, net, readers, WriterPC
<1>2. SemCounts'
  <2>1. PICK pc \in {"recover", "read"} : wpc' = [wpc EXCEPT ![x] = pc]
    BY Zenon DEF WriteRelease
  <2> QED BY <2>1, RemovedCounts, Zenon DEF WriteRelease
<1>3. HandedOver'
  BY DEF LinkInv, Typed, HandedOver, InSlot, InTook, OutSlot, OutTook, WriteRelease, readers
<1>4. Unaccepted' /\ Answered' /\ Older'
  BY Frames, Zenon DEF WriteRelease, net, readers
<1>5. InOrder'
  BY Removed, Zenon DEF WriteRelease, net, readers
<1> QED BY <1>1, <1>2, <1>3, <1>4, <1>5, Zenon DEF LinkInv

LEMMA WriteFailsStep ==
  ASSUME LinkInv, NEW x \in Sides, WriteFails(x)
  PROVE  LinkInv'
<1>1. Typed'
  BY DEF LinkInv, Typed, WriteFails, net, readers, WriterPC
<1>2. SemCounts'
  <2>1. sem[x] \in Nat /\ sem[x] + 1 = Len(queue[x])
    BY Zenon DEF LinkInv, Typed, SemCounts, WriteFails
  <2>2. /\ sem'[x] = sem[x] + 1 /\ queue'[x] = queue[x] /\ wpc'[x] = "recover"
        /\ \A y \in Sides \ {x} : sem'[y] = sem[y] /\ wpc'[y] = wpc[y] /\ queue'[y] = queue[y]
    BY Zenon DEF LinkInv, Typed, WriteFails
  <2>3. sem'[x] + 0 = Len(queue'[x])
    BY <2>1, <2>2
  <2> QED BY <2>2, <2>3, SemStep, Zenon
<1>3. HandedOver'
  BY DEF LinkInv, Typed, HandedOver, InSlot, InTook, OutSlot, OutTook, WriteFails, readers
<1>4. Unaccepted' /\ Answered' /\ InOrder' /\ Older'
  BY Frames, Zenon DEF WriteFails, net, readers
<1> QED BY <1>1, <1>2, <1>3, <1>4, Zenon DEF LinkInv

(* What Write does to the streams and the queues when its stream is sound. *)
LEMMA WriteData ==
  ASSUME LinkInv, NEW x \in Sides, Write(x), out[x] \notin broken
  PROVE  /\ out[x] \in Streams /\ data[out[x]][x] \in Seq(Nat)
         /\ data'[out[x]][x] = Append(data[out[x]][x], Head(queue[x]))
         /\ \A s \in Streams, y \in Sides : s # out[x] \/ y # x => data'[s][y] = data[s][y]
         /\ data' \in [Streams -> [Sides -> Seq(Nat)]]
         /\ wpc[x] = "write" /\ Head(queue[x]) # RELEASE
         /\ queue'[x] = Tail(queue[x])
         /\ \A y \in Sides \ {x} : queue'[y] = queue[y]
<1>1. out[x] \in Streams /\ data[out[x]][x] \in Seq(Nat)
  BY DEF LinkInv, Typed
<1>2. Append(data[out[x]][x], Head(queue[x])) \in Seq(Nat)
  BY <1>1, Writing, AppendSeq, Zenon DEF Write
<1>3. /\ data \in [Streams -> [Sides -> Seq(Nat)]] /\ queue \in [Sides -> Seq(Nat)]
      /\ data' = [data EXCEPT ![out[x]][x] = Append(@, Head(queue[x]))]
      /\ queue' = [queue EXCEPT ![x] = Tail(@)]
      /\ wpc[x] = "write" /\ Head(queue[x]) # RELEASE
  BY Zenon DEF LinkInv, Typed, Write, remove
<1>4. data' \in [Streams -> [Sides -> Seq(Nat)]]
  BY <1>1, <1>2, <1>3, Zenon
<1>5. /\ data'[out[x]][x] = Append(data[out[x]][x], Head(queue[x]))
      /\ \A s \in Streams, y \in Sides : s # out[x] \/ y # x => data'[s][y] = data[s][y]
  BY <1>1, <1>3, Zenon
<1> QED BY <1>1, <1>3, <1>4, <1>5, Zenon

LEMMA WriteInOrder ==
  ASSUME LinkInv, NEW x \in Sides, Write(x), out[x] \notin broken
  PROVE  InOrder'
<1> DEFINE w == out[x]
           m == Head(queue[x])
           o == Other(x)
<1>0. UNCHANGED <<produced, received, in>>
  BY Zenon DEF Write, readers
<1> SUFFICES ASSUME NEW y \in Sides
             PROVE  InOrder!(y)'
  BY Zenon DEF InOrder
<1>1. InOrder!(y)
  BY Zenon DEF LinkInv, InOrder
<1>2. CASE y # x
  <2>1. Other(y) \in Sides /\ in[Other(y)] \in Streams
    BY Zenon DEF LinkInv, Typed, Other, Sides
  <2>2. queue'[y] = queue[y] /\ \A s \in Streams : data'[s][y] = data[s][y]
    BY <1>2, WriteData, Zenon
  <2> QED BY <1>0, <1>1, <2>1, <2>2, Zenon
<1>3. CASE y = x
  <2>0. InOrder!(x)
    BY <1>1, <1>3, Zenon
  <2>1. /\ o \in Sides /\ received[o] \in Seq(Nat) /\ produced[x] \in Nat /\ in[o] \in Streams
        /\ queue[x] \in Seq(Nat) /\ queue[x] # << >> /\ m \in Nat /\ m # RELEASE
        /\ w \in Streams /\ data[w][x] \in Seq(Nat)
    BY Writing, WriteData, Zenon DEF LinkInv, Typed, Other, Sides
  <2>2. /\ queue'[x] = Tail(queue[x]) /\ data'[w][x] = Append(data[w][x], m)
        /\ \A s \in Streams \ {w} : data'[s][x] = data[s][x]
    BY WriteData, Zenon
  <2>3. m <= produced[x]
    BY <2>0, <2>1, TailSeq, Zenon DEF UpTo
  <2>4. Ordered(queue'[x]) /\ UpTo(queue'[x], produced[x])
    BY <2>0, <2>1, <2>2, TailOrdered, Zenon
  <2>5. \A s \in Streams : /\ Ordered(data'[s][x]) /\ UpTo(data'[s][x], produced[x])
                           /\ Before(data'[s][x], queue'[x])
    <3> TAKE s \in Streams
    <3>1. CASE s # w
      <4>1. data[s][x] \in Seq(Nat) /\ data'[s][x] = data[s][x]
        BY <2>2, <3>1, Zenon DEF LinkInv, Typed
      <4> QED BY <4>1, <2>0, <2>1, <2>2, TailBefore, Zenon
    <3>2. CASE s = w
      <4>1. Ordered(data[w][x]) /\ UpTo(data[w][x], produced[x]) /\ Before(data[w][x], queue[x])
        BY <2>0, <2>1, Zenon
      <4>2. After(data[w][x], m)
        BY <4>1, <2>1, HeadAfter, Zenon
      <4>3. Ordered(data'[w][x]) /\ UpTo(data'[w][x], produced[x])
        BY <4>1, <4>2, <2>1, <2>2, <2>3, AppendOrdered, AppendUpTo, Zenon
      <4>4. Before(data'[w][x], queue'[x])
        BY <4>1, <2>0, <2>1, <2>2, HeadMoves, Zenon
      <4> QED BY <3>2, <4>3, <4>4, Zenon
    <3> QED BY <3>1, <3>2, Zenon
  <2>6. Before(received[o], queue'[x])
    BY <2>0, <2>1, <2>2, TailBefore, Zenon
  <2>7. Before(received[o], data'[in[o]][x])
    <3>1. After(received[o], m)
      BY <2>0, <2>1, HeadAfter, Zenon
    <3> QED BY <3>1, <2>0, <2>1, <2>2, AppendBefore, Zenon
  <2> QED BY <1>0, <1>3, <2>0, <2>4, <2>5, <2>6, <2>7, Zenon
<1> QED BY <1>2, <1>3, Zenon

LEMMA AppendAnswered ==
  ASSUME NEW q \in Seq(Nat), NEW m \in Nat, m # RELEASE, \A i \in 2..Len(q) : q[i] # RELEASE
  PROVE  \A i \in 2..Len(Append(q, m)) : Append(q, m)[i] # RELEASE
<1>1. PICK a : a = Append(q, m)
  BY Zenon
<1>2. PICK n : n = Len(q)
  OBVIOUS
<1>3. Len(a) = n + 1 /\ a[n + 1] = m /\ \A i \in 1..n : a[i] = q[i]
  BY <1>1, <1>2, AppendSeq, Zenon
<1>4. n \in Nat
  BY <1>2
<1>5. \A i \in 2..(n + 1) : (i \in 2..n /\ i \in 1..n) \/ i = n + 1
  BY <1>4
<1> QED BY <1>1, <1>2, <1>3, <1>5, Zenon

LEMMA WriteAnswered ==
  ASSUME LinkInv, NEW x \in Sides, Write(x), out[x] \notin broken
  PROVE  Answered'
<1> DEFINE w == out[x]
           m == Head(queue[x])
           c == in["child"]
<1>0. /\ UNCHANGED <<rpc, in>> /\ Answered
      /\ "child" \in Sides /\ "parent" \in Sides /\ c \in Streams
  BY Zenon DEF Write, readers, LinkInv, Typed, Sides
<1>1. /\ data'[w][x] = Append(data[w][x], m)
      /\ data[w][x] \in Seq(Nat) /\ w \in Streams /\ m \in Nat /\ m # RELEASE
      /\ \A s \in Streams, y \in Sides : s # w \/ y # x => data'[s][y] = data[s][y]
  BY WriteData, Writing, Zenon
<1>2. Clean(data[w][x]) => Clean(data'[w][x])
  BY <1>1, AppendUpTo, Zenon
<1>3. \A s \in Streams : Clean(data'[s]["child"])
  BY <1>0, <1>1, <1>2, Zenon DEF Answered
<1>4. rpc["child"] \in {"out", "outWait", "read"} => Clean(data'[c]["parent"])
  BY <1>0, <1>1, <1>2, Zenon DEF Answered
<1>5. ASSUME rpc["child"] = "hello"
      PROVE  \A i \in 2..Len(data'[c]["parent"]) : data'[c]["parent"][i] # RELEASE
  <2>1. CASE c # w \/ x # "parent"
    BY <1>0, <1>1, <1>5, <2>1, Zenon DEF Answered
  <2>2. CASE c = w /\ x = "parent"
    <3>1. \A i \in 2..Len(data[w][x]) : data[w][x][i] # RELEASE
      BY <1>0, <1>5, <2>2, Zenon DEF Answered
    <3>2. PICK q \in Seq(Nat) : q = data[w][x]
      BY <1>1, Zenon
    <3>3. PICK n \in Nat : n = m /\ n # RELEASE
      BY <1>1, Zenon
    <3>4. PICK a : a = Append(q, n)
      BY Zenon
    <3>5. \A i \in 2..Len(a) : a[i] # RELEASE
      BY <3>1, <3>2, <3>3, <3>4, AppendAnswered, Zenon
    <3>6. data'[c]["parent"] = a
      BY <1>1, <2>2, <3>2, <3>3, <3>4, Zenon
    <3> QED BY <3>5, <3>6, Zenon
  <2> QED BY <2>1, <2>2, Zenon
<1> QED BY <1>0, <1>3, <1>4, <1>5, Zenon DEF Answered

LEMMA WriteOlder ==
  ASSUME LinkInv, NEW x \in Sides, Write(x), out[x] \notin broken
  PROVE  Older'
<1> DEFINE w == out[x]
           m == Head(queue[x])
           p == in["parent"]
<1>0. /\ UNCHANGED <<offer, in, received, out>> /\ Older /\ InOrder
      /\ "child" \in Sides /\ "parent" \in Sides /\ p \in Streams
      /\ offer \in Streams \cup {None} /\ received["parent"] \in Seq(Nat)
      /\ Other("child") = "parent"
  BY Zenon DEF Write, readers, LinkInv, Typed, Sides, MaybeStream, Other
<1>1. /\ data'[w][x] = Append(data[w][x], m)
      /\ data[w][x] \in Seq(Nat) /\ w \in Streams /\ m \in Nat /\ m # RELEASE
      /\ queue[x] \in Seq(Nat) /\ queue[x] # << >>
      /\ \A s \in Streams, y \in Sides : s # w \/ y # x => data'[s][y] = data[s][y]
  BY WriteData, Writing, Zenon
<1>2. CASE x = "parent"
  <2>1. \A s \in Streams : data'[s]["child"] = data[s]["child"]
    BY <1>0, <1>1, <1>2, Zenon
  <2> QED BY <1>0, <2>1, Zenon DEF Older, NewStream
<1>3. CASE x = "child"
  <2>1. After(received["parent"], m)
    BY <1>0, <1>1, <1>3, HeadAfter, Zenon DEF InOrder
  <2>2. \A s \in Streams : data[s]["child"] \in Seq(Nat) /\ After(data[s]["child"], m)
    <3> TAKE s \in Streams
    <3>1. data[s]["child"] \in Seq(Nat) /\ Before(data[s]["child"], queue[x])
      BY <1>0, <1>3 DEF LinkInv, Typed, InOrder
    <3> QED BY <3>1, <1>1, HeadAfter, Zenon
  <2>3. offer # None => Before(received["parent"], data'[offer]["child"])
    <3> SUFFICES ASSUME offer # None
                 PROVE  Before(received["parent"], data'[offer]["child"])
      BY Zenon
    <3>1. offer \in Streams /\ Before(received["parent"], data[offer]["child"])
      BY <1>0, Zenon DEF Older
    <3>2. CASE offer # w
      BY <1>0, <1>1, <3>1, <3>2, Zenon
    <3>3. CASE offer = w
      BY <1>0, <1>1, <1>3, <2>1, <3>1, <3>3, AppendBefore, Zenon
    <3> QED BY <3>2, <3>3, Zenon
  <2>4. ASSUME NewStream
        PROVE  /\ Before(data'[p]["child"], data'[offer]["child"])
               /\ out["child"] = p => data'[offer]["child"] = << >>
    <3>1. /\ offer \in Streams /\ offer # p /\ Before(data[p]["child"], data[offer]["child"])
          /\ w = p => data[offer]["child"] = << >>
      BY <1>0, <1>3, <2>4, Zenon DEF Older, NewStream
    <3>2. CASE w = p
      <4>1. data'[offer]["child"] = << >>
        BY <1>0, <1>1, <3>1, <3>2, Zenon
      <4>2. data'[p]["child"] \in Seq(Nat)
        <5>1. Append(data[w][x], m) \in Seq(Nat)
          BY <1>1, AppendSeq, Zenon
        <5> QED BY <5>1, <1>1, <1>3, <3>2, Zenon
      <4> QED BY <4>1, <4>2, EmptySeq, Zenon
    <3>3. CASE w = offer
      <4>1. Before(data[p]["child"], Append(data[offer]["child"], m))
        BY <1>0, <1>1, <2>2, <3>1, AppendBefore, Zenon
      <4> QED BY <4>1, <1>0, <1>1, <1>3, <3>1, <3>3, Zenon
    <3>4. CASE w # p /\ w # offer
      BY <1>0, <1>1, <1>3, <3>1, <3>4, Zenon
    <3> QED BY <3>2, <3>3, <3>4, Zenon
  <2> QED BY <1>0, <2>3, <2>4, Zenon DEF Older, NewStream
<1> QED BY <1>2, <1>3, Zenon DEF Sides

LEMMA WriteStep ==
  ASSUME LinkInv, NEW x \in Sides, Write(x)
  PROVE  LinkInv'
<1>0. wpc[x] = "write" /\ remove(x) /\ wpc' = [wpc EXCEPT ![x] = "read"]
  BY Zenon DEF Write
<1>1. SemCounts'
  BY <1>0, RemovedCounts, Zenon
<1>2. HandedOver'
  BY DEF LinkInv, Typed, HandedOver, InSlot, InTook, OutSlot, OutTook, Write, readers
<1>3. CASE out[x] \in broken
  <2>1. UNCHANGED <<data, produced, received, in, rpc, broken, pending, out, offer, handed, slot>>
    BY <1>3, Zenon DEF Write, readers
  <2>2. Typed'
    BY <2>1, Writing, Zenon DEF LinkInv, Typed, Write, remove, readers, WriterPC
  <2>3. InOrder'
    BY <1>0, <2>1, Removed, Zenon
  <2>4. Unaccepted' /\ Answered' /\ Older'
    BY <2>1, Frames, Zenon
  <2> QED BY <1>1, <1>2, <2>2, <2>3, <2>4, Zenon DEF LinkInv
<1>4. CASE out[x] \notin broken
  <2>1. Typed'
    BY <1>4, WriteData, Writing, Zenon DEF LinkInv, Typed, Write, remove, readers, WriterPC
  <2>2. Unaccepted'
    <3>1. UNCHANGED <<in, rpc, broken, pending, out, offer, handed, slot>>
      BY Zenon DEF Write, readers
    <3>2. pending # None => \A y \in Sides : data'[pending][y] = data[pending][y]
      BY <1>4, WriteData, Zenon DEF LinkInv, Typed, Unaccepted, MaybeStream, Sides
    <3> QED BY <3>1, <3>2, Zenon DEF LinkInv, Unaccepted
  <2> QED BY <1>1, <1>2, <1>4, <2>1, <2>2, WriteInOrder, WriteAnswered, WriteOlder, Zenon DEF LinkInv
<1> QED BY <1>3, <1>4, Zenon

(***************************************************************************)
(* Events are distinct and a change of one leaves the others.              *)
(***************************************************************************)
LEMMA EventsApart ==
  /\ \A x \in Sides : <<"in", x>> \in Events /\ <<"inTook", x>> \in Events
                      /\ <<"out", x>> \in Events /\ <<"outTook", x>> \in Events
  /\ \A x, y \in Sides :
       /\ <<"in", x>> # <<"inTook", y>> /\ <<"in", x>> # <<"out", y>>
       /\ <<"in", x>> # <<"outTook", y>> /\ <<"inTook", x>> # <<"out", y>>
       /\ <<"inTook", x>> # <<"outTook", y>> /\ <<"out", x>> # <<"outTook", y>>
       /\ x # y => <<"out", x>> # <<"out", y>> /\ <<"outTook", x>> # <<"outTook", y>>
  /\ "parent" \in Sides /\ "child" \in Sides /\ "parent" # "child"
BY Zenon DEF Events, Sides

LEMMA Slots ==
  ASSUME LinkInv
  PROVE  /\ Idle \in Slot /\ Frozen \in Slot
         /\ \A e \in Events :
              /\ slot[e] \in Slot /\ slot[e].ret \in MaybeStream
              /\ \A v \in Slot : /\ [slot EXCEPT ![e] = v] \in [Events -> Slot]
                                 /\ [slot EXCEPT ![e] = v][e] = v
                                 /\ \A f \in Events \ {e} : [slot EXCEPT ![e] = v][f] = slot[f]
BY Zenon DEF LinkInv, Typed, Slot, Idle, Frozen, MaybeStream

LEMMA SlotSet ==
  ASSUME LinkInv, NEW e \in Events, NEW v \in Slot, slot' = [slot EXCEPT ![e] = v]
  PROVE  slot' \in [Events -> Slot] /\ slot'[e] = v /\ \A f \in Events \ {e} : slot'[f] = slot[f]
BY Slots, Zenon

LEMMA WriterRecoverStep ==
  ASSUME LinkInv, NEW x \in Sides, WriterRecover(x)
  PROVE  LinkInv'
<1> DEFINE e == <<"out", x>>
<1>0. /\ e \in Events /\ slot' = [slot EXCEPT ![e] = Frozen]
      /\ slot' \in [Events -> Slot] /\ slot'[e] = Frozen
      /\ \A f \in Events \ {e} : slot'[f] = slot[f]
  <2>1. e \in Events /\ slot' = [slot EXCEPT ![e] = Frozen]
    BY EventsApart, Zenon DEF WriterRecover, freeze
  <2> HIDE DEF e
  <2> QED BY <2>1, Slots, SlotSet, Zenon
<1>1. Typed'
  BY <1>0, Zenon DEF LinkInv, Typed, WriterRecover, qs, readers, WriterPC
<1>2. SemCounts'
  BY Zenon DEF LinkInv, Typed, SemCounts, WriterRecover, qs
<1>3. HandedOver'
  <2>0. /\ UNCHANGED <<lpc, offer, rpc, handed, in>> /\ HandedOver
        /\ wpc'[x] = "frozen" /\ \A y \in Sides \ {x} : wpc'[y] = wpc[y]
    BY Zenon DEF WriterRecover, readers, LinkInv, Typed
  <2>1. ~Frozen.notified
    BY Zenon DEF Frozen
  <2>2. UNCHANGED <<InSlot, InTook, OutTook>>
    BY <1>0, EventsApart, Zenon DEF InSlot, InTook, OutTook
  <2>3. CASE x = "parent"
    <3>1. OutSlot' = OutSlot /\ wpc'["child"] = wpc["child"]
      BY <1>0, <2>0, <2>3, EventsApart, Zenon DEF OutSlot
    <3> QED BY <1>0, <2>0, <2>1, <2>2, <2>3, <3>1, Zenon DEF HandedOver
  <2>4. CASE x = "child"
    <3>1. /\ OutSlot' = Frozen /\ wpc'["child"] = "frozen"
          /\ slot'[<<"out", "parent">>] = slot[<<"out", "parent">>]
      BY <1>0, <2>0, <2>4, EventsApart, Zenon DEF OutSlot
    <3> QED BY <2>0, <2>1, <2>2, <3>1, Zenon DEF HandedOver
  <2> QED BY <2>3, <2>4, Zenon DEF Sides
<1>4. Unaccepted'
  <2>1. UNCHANGED <<pending, in, rpc, broken, out, offer, handed, data>>
    BY Zenon DEF WriterRecover, readers
  <2>2. pending # None => \A f \in Events : slot'[f].ret # pending
    <3>1. Frozen.ret = None
      BY Zenon DEF Frozen
    <3> QED BY <1>0, <3>1, Zenon DEF LinkInv, Unaccepted
  <2> QED BY <2>1, <2>2, Zenon DEF LinkInv, Unaccepted
<1>5. Answered' /\ InOrder' /\ Older'
  BY Frames, Zenon DEF WriterRecover, qs, readers
<1> QED BY <1>1, <1>2, <1>3, <1>4, <1>5, Zenon DEF LinkInv

LEMMA WriterTakeStep ==
  ASSUME LinkInv, NEW x \in Sides, WriterTake(x)
  PROVE  LinkInv'
<1> DEFINE e == <<"out", x>>
           st == slot[e].ret
<1>0. /\ e \in Events /\ slot[e].notified
      /\ slot' \in [Events -> Slot] /\ slot'[e] = Idle
      /\ \A f \in Events \ {e} : slot'[f] = slot[f]
  <2>1. e \in Events /\ slot[e].notified /\ slot' = [slot EXCEPT ![e] = Idle]
    BY EventsApart, Zenon DEF WriterTake, Woken
  <2> HIDE DEF e
  <2> QED BY <2>1, Slots, SlotSet, Zenon
<1>01. st \in Streams /\ (x = "child" => st = in["child"] /\ rpc["child"] = "outWait")
  <2>1. CASE x = "parent"
    BY <1>0, <2>1, Slots, EventsApart, Zenon DEF LinkInv, HandedOver, MaybeStream
  <2>2. CASE x = "child"
    BY <1>0, <2>2, EventsApart, Zenon DEF LinkInv, Typed, HandedOver, OutSlot
  <2> QED BY <2>1, <2>2, Zenon DEF Sides
<1>02. /\ UNCHANGED <<data, broken, queue, sem, produced, rpc, in, received, handed, lpc, offer, pending>>
       /\ out' = [out EXCEPT ![x] = st] /\ wpc' = [wpc EXCEPT ![x] = "took"]
  BY Zenon DEF WriterTake, net, qs, readers
<1> HIDE DEF st
<1>1. Typed'
  BY <1>0, <1>01, <1>02, Zenon DEF LinkInv, Typed, WriterPC
<1>2. SemCounts'
  <2>1. wpc[x] # "write"
    BY Zenon DEF WriterTake
  <2> QED BY <1>02, <2>1, Zenon DEF LinkInv, Typed, SemCounts
<1>3. HandedOver'
  <2>0. HandedOver /\ wpc'[x] = "took" /\ \A y \in Sides \ {x} : wpc'[y] = wpc[y]
    BY <1>02, Zenon DEF LinkInv, Typed
  <2>1. ~Idle.notified /\ ~Idle.frozen
    BY Zenon DEF Idle
  <2>2. UNCHANGED <<InSlot, InTook, OutTook>>
    BY <1>0, EventsApart, Zenon DEF InSlot, InTook, OutTook
  <2>3. CASE x = "parent"
    <3>1. OutSlot' = OutSlot /\ wpc'["child"] = wpc["child"]
      BY <1>0, <2>0, <2>3, EventsApart, Zenon DEF OutSlot
    <3> QED BY <1>0, <1>02, <2>0, <2>1, <2>2, <2>3, <3>1, Zenon DEF HandedOver
  <2>4. CASE x = "child"
    <3>1. /\ OutSlot' = Idle
          /\ slot'[<<"out", "parent">>] = slot[<<"out", "parent">>]
      BY <1>0, <2>0, <2>4, EventsApart, Zenon DEF OutSlot
    <3> QED BY <1>02, <2>0, <2>1, <2>2, <3>1, Zenon DEF HandedOver
  <2> QED BY <2>3, <2>4, Zenon DEF Sides
<1>4. Unaccepted'
  <2> SUFFICES ASSUME pending # None
               PROVE  Unaccepted'
    BY <1>02, Zenon DEF Unaccepted
  <2>1. Unaccepted!2
    BY Zenon DEF LinkInv, Unaccepted
  <2>2. \A f \in Events : slot'[f].ret # pending
    <3>1. Idle.ret = None
      BY Zenon DEF Idle
    <3> QED BY <1>0, <2>1, <3>1, Zenon
  <2>3. st # pending
    BY <1>0, <2>1, Zenon DEF st
  <2>4. out'["parent"] # pending /\ out'["child"] # pending
    BY <1>02, <2>1, <2>3, EventsApart, Zenon DEF LinkInv, Typed
  <2> QED BY <1>02, <2>1, <2>2, <2>4, Zenon DEF Unaccepted
<1>5. Answered' /\ InOrder'
  BY <1>02, Frames, Zenon
<1>6. Older'
  <2>1. Older
    BY Zenon DEF LinkInv
  <2>2. out'["child"] = out["child"] \/ out'["child"] = in["child"]
    BY <1>01, <1>02, EventsApart, Zenon DEF LinkInv, Typed
  <2> QED BY <1>02, <2>1, <2>2, Zenon DEF Older, NewStream
<1> QED BY <1>1, <1>2, <1>3, <1>4, <1>5, <1>6, Zenon DEF LinkInv

LEMMA WriterTookStep ==
  ASSUME LinkInv, NEW x \in Sides, WriterTook(x)
  PROVE  LinkInv'
<1> DEFINE e == <<"outTook", x>>
           v == [slot[e] EXCEPT !.notified = TRUE]
<1>00. e \in Events /\ slot[e] \in Slot
  BY EventsApart, Slots, Zenon
<1>01. v \in Slot /\ v.ret = slot[e].ret
  BY <1>00, Zenon DEF Slot
<1>02. slot' = [slot EXCEPT ![e] = v]
  BY Zenon DEF WriterTook, notify
<1> HIDE DEF v
<1>0. /\ slot' \in [Events -> Slot] /\ slot'[e] = v
      /\ \A f \in Events \ {e} : slot'[f] = slot[f]
  BY <1>00, <1>01, <1>02, Slots, Zenon
<1>1. Typed'
  BY <1>0, Zenon DEF LinkInv, Typed, WriterTook, net, qs, readers, WriterPC
<1>2. SemCounts'
  BY Zenon DEF LinkInv, Typed, SemCounts, WriterTook, qs
<1>3. HandedOver'
  <2>0. /\ UNCHANGED <<lpc, offer, rpc, handed, in>> /\ HandedOver /\ wpc[x] = "took"
        /\ wpc'[x] = "read" /\ \A y \in Sides \ {x} : wpc'[y] = wpc[y]
    BY Zenon DEF WriterTook, readers, LinkInv, Typed
  <2>1. UNCHANGED <<InSlot, InTook, OutSlot, slot[<<"out", "parent">>]>>
    BY <1>0, EventsApart, Zenon DEF InSlot, InTook, OutSlot
  <2>2. CASE x = "parent"
    <3>1. OutTook' = OutTook /\ wpc'["child"] = wpc["child"]
      BY <1>0, <2>0, <2>2, EventsApart, Zenon DEF OutTook
    <3> QED BY <2>0, <2>1, <3>1, Zenon DEF HandedOver
  <2>3. CASE x = "child"
    <3>1. ~OutSlot.frozen /\ ~OutSlot.notified
      BY <2>0, <2>3, Zenon DEF HandedOver
    <3> QED BY <2>0, <2>1, <3>1, Zenon DEF HandedOver
  <2> QED BY <2>2, <2>3, Zenon DEF Sides
<1>4. Unaccepted'
  <2>1. UNCHANGED <<pending, in, rpc, broken, out, offer, handed, data>>
    BY Zenon DEF WriterTook, net, readers
  <2>2. pending # None => \A f \in Events : slot'[f].ret # pending
    BY <1>00, <1>0, <1>01, Zenon DEF LinkInv, Unaccepted
  <2> QED BY <2>1, <2>2, Zenon DEF LinkInv, Unaccepted
<1>5. Answered' /\ InOrder' /\ Older'
  BY Frames, Zenon DEF WriterTook, net, qs, readers
<1> QED BY <1>1, <1>2, <1>3, <1>4, <1>5, Zenon DEF LinkInv

(***************************************************************************)
(* The Reader of the parent and the Purifier of the child.                 *)
(***************************************************************************)
(* The first message of a stream is taken. *)
TakeFirst(s, y) == data' = [data EXCEPT ![s][y] = Tail(@)]

LEMMA Taken ==
  ASSUME LinkInv, NEW s \in Streams, NEW y \in Sides, data[s][y] # << >>, TakeFirst(s, y)
  PROVE  /\ data[s][y] \in Seq(Nat) /\ Head(data[s][y]) \in Nat
         /\ data'[s][y] = Tail(data[s][y])
         /\ \A t \in Streams, z \in Sides : t # s \/ z # y => data'[t][z] = data[t][z]
         /\ data' \in [Streams -> [Sides -> Seq(Nat)]]
<1>1. data \in [Streams -> [Sides -> Seq(Nat)]] /\ data[s][y] \in Seq(Nat)
  BY Zenon DEF LinkInv, Typed
<1>2. Tail(data[s][y]) \in Seq(Nat) /\ Head(data[s][y]) \in Nat
  BY <1>1, TailSeq, Zenon
<1>3. data' \in [Streams -> [Sides -> Seq(Nat)]]
  BY <1>1, <1>2, Zenon DEF TakeFirst
<1>4. /\ data'[s][y] = Tail(data[s][y])
      /\ \A t \in Streams, z \in Sides : t # s \/ z # y => data'[t][z] = data[t][z]
  BY <1>1, Zenon DEF TakeFirst
<1> QED BY <1>1, <1>2, <1>3, <1>4, Zenon

(* What Read does, from stream s and what the side o has written there. *)
ReadEffect(x, s, o) ==
  /\ s \in Streams /\ o \in Sides /\ Other(o) = x /\ o # x
  /\ data[s][o] \in Seq(Nat) /\ data[s][o] # << >> /\ Head(data[s][o]) \in Nat
  /\ data'[s][o] = Tail(data[s][o])
  /\ \A t \in Streams, z \in Sides : t # s \/ z # o => data'[t][z] = data[t][z]
  /\ data' \in [Streams -> [Sides -> Seq(Nat)]]
  /\ received[x] \in Seq(Nat) /\ received'[x] = Append(received[x], Head(data[s][o]))
  /\ received'[o] = received[o]
  /\ received' \in [Sides -> Seq(Nat)]
  /\ Head(data[s][o]) # RELEASE
  /\ UNCHANGED <<queue, sem, produced, wpc, out, broken, rpc, in, handed, slot, lpc, offer, pending>>

LEMMA ReadData ==
  ASSUME LinkInv, NEW x \in Sides, Read(x)
  PROVE  ReadEffect(x, in[x], Other(x))
<1> DEFINE s == in[x]
           o == Other(x)
<1>1. s \in Streams /\ o \in Sides /\ Other(o) = x /\ o # x
  BY Zenon DEF LinkInv, Typed, Sides, Other
<1>2. data[s][o] # << >> /\ TakeFirst(s, o) /\ rpc[x] = "read"
  BY Zenon DEF Read, TakeFirst
<1>3. /\ data[s][o] \in Seq(Nat) /\ Head(data[s][o]) \in Nat
      /\ data'[s][o] = Tail(data[s][o])
      /\ \A t \in Streams, z \in Sides : t # s \/ z # o => data'[t][z] = data[t][z]
      /\ data' \in [Streams -> [Sides -> Seq(Nat)]]
  BY <1>1, <1>2, Taken, Zenon
<1>4. received' = [received EXCEPT ![x] = Append(@, Head(data[s][o]))] /\ received \in [Sides -> Seq(Nat)]
  BY Zenon DEF Read, LinkInv, Typed
<1>5. Append(received[x], Head(data[s][o])) \in Seq(Nat)
  BY <1>3, <1>4, AppendSeq, Zenon
<1>6. Clean(data[s][o])
  BY <1>1, Zenon DEF LinkInv, Answered, Read, Sides, Other
<1>7. Head(data[s][o]) # RELEASE
  BY <1>2, <1>3, <1>6, TailSeq, Zenon DEF Clean
<1>8. UNCHANGED <<queue, sem, produced, wpc, out, broken, rpc, in, handed, slot, lpc, offer, pending>>
  BY Zenon DEF Read, qs, writers
<1> HIDE DEF s, o
<1>9. ReadEffect(x, s, o)
  BY <1>1, <1>2, <1>3, <1>4, <1>5, <1>7, <1>8, Zenon DEF ReadEffect
<1> QED BY <1>9, Zenon DEF s, o

LEMMA ReadInOrder ==
  ASSUME LinkInv, NEW x \in Sides, Read(x)
  PROVE  InOrder'
<1> DEFINE s == in[x]
           o == Other(x)
           d == data[s][o]
           h == Head(d)
<1>0. /\ s \in Streams /\ o \in Sides /\ Other(o) = x /\ o # x
      /\ d \in Seq(Nat) /\ d # << >> /\ h \in Nat /\ h # RELEASE
      /\ data'[s][o] = Tail(d)
      /\ \A t \in Streams, z \in Sides : t # s \/ z # o => data'[t][z] = data[t][z]
      /\ received[x] \in Seq(Nat) /\ received'[x] = Append(received[x], h)
      /\ received'[o] = received[o]
      /\ UNCHANGED <<queue, produced, in>>
  BY ReadData, Zenon DEF ReadEffect
<1> HIDE DEF o, s
<1> SUFFICES ASSUME NEW y \in Sides
             PROVE  InOrder!(y)'
  BY Zenon DEF InOrder
<1>1. CASE y = x
  <2>1. InOrder!(x)
    BY Zenon DEF LinkInv, InOrder
  <2>2. Other(x) = o /\ in[o] \in Streams /\ \A t \in Streams : data'[t][x] = data[t][x]
    BY <1>0, Zenon DEF o, LinkInv, Typed
  <2> QED BY <1>0, <1>1, <2>1, <2>2, Zenon
<1>2. CASE y # x
  <2>0. y = o
    BY <1>0, <1>2, Zenon DEF Sides
  <2>1. InOrder!(o) /\ in[x] = s
    BY <1>0, Zenon DEF LinkInv, InOrder, s
  <2>2. queue[o] \in Seq(Nat) /\ produced[o] \in Nat
    BY <1>0, Zenon DEF LinkInv, Typed
  <2>3. /\ Ordered(d) /\ UpTo(d, produced[o]) /\ Before(d, queue[o])
        /\ Clean(received[x]) /\ Ordered(received[x]) /\ UpTo(received[x], produced[o])
        /\ Before(received[x], queue[o]) /\ Before(received[x], d)
    BY <1>0, <2>1, Zenon
  <2> HIDE DEF d
  <2>4. h <= produced[o] /\ After(received[x], h)
    BY <1>0, <2>2, <2>3, HeadAfter, TailSeq, Zenon DEF UpTo
  <2>5. Ordered(Tail(d)) /\ UpTo(Tail(d), produced[o]) /\ Before(Tail(d), queue[o])
    BY <1>0, <2>2, <2>3, TailOrdered, TailBefore, Zenon
  <2>6. /\ Clean(received'[x]) /\ Ordered(received'[x]) /\ UpTo(received'[x], produced[o])
    BY <1>0, <2>2, <2>3, <2>4, AppendOrdered, AppendUpTo, Zenon
  <2>7. Before(received'[x], queue[o])
    BY <1>0, <2>2, <2>3, HeadRead, Zenon
  <2>8. Before(received'[x], Tail(d))
    BY <1>0, <2>3, HeadMoves, Zenon
  <2>9. \A t \in Streams : /\ Ordered(data'[t][o]) /\ UpTo(data'[t][o], produced[o])
                           /\ Before(data'[t][o], queue[o])
    BY <1>0, <2>1, <2>5, Zenon
  <2> QED BY <1>0, <2>0, <2>1, <2>6, <2>7, <2>8, <2>9, Zenon
<1> QED BY <1>1, <1>2, Zenon

LEMMA ReadStep ==
  ASSUME LinkInv, NEW x \in Sides, Read(x)
  PROVE  LinkInv'
<1> DEFINE s == in[x]
           o == Other(x)
           d == data[s][o]
<1>0. /\ s \in Streams /\ o \in Sides /\ Other(o) = x /\ o # x
      /\ d \in Seq(Nat) /\ d # << >> /\ Head(d) \in Nat
      /\ data'[s][o] = Tail(d)
      /\ \A t \in Streams, z \in Sides : t # s \/ z # o => data'[t][z] = data[t][z]
      /\ data' \in [Streams -> [Sides -> Seq(Nat)]] /\ received' \in [Sides -> Seq(Nat)]
      /\ received[x] \in Seq(Nat) /\ received'[x] = Append(received[x], Head(d))
      /\ received'[o] = received[o]
      /\ UNCHANGED <<queue, sem, produced, wpc, out, broken, rpc, in, handed, slot, lpc, offer, pending>>
  BY ReadData, Zenon DEF ReadEffect
<1>00. rpc[x] = "read"
  BY Zenon DEF Read
<1>1. Typed'
  BY <1>0, Zenon DEF LinkInv, Typed
<1>2. SemCounts' /\ HandedOver'
  BY <1>0, Frames, Zenon
<1>3. Unaccepted'
  <2> SUFFICES ASSUME pending # None
               PROVE  \A y \in Sides : data'[pending][y] = data[pending][y]
    BY <1>0, Zenon DEF LinkInv, Unaccepted
  <2>1. pending \in Streams /\ pending # s
    BY <1>00, EventsApart, Zenon DEF LinkInv, Typed, Unaccepted, MaybeStream, Sides
  <2> QED BY <1>0, <2>1, Zenon
<1>4. Answered'
  <2>1. Clean(d) => Clean(Tail(d))
    BY <1>0, TailOrdered, Zenon
  <2>2. Answered /\ in["child"] \in Streams
    BY EventsApart, Zenon DEF LinkInv, Typed
  <2>3. CASE x = "child"
    <3>1. o = "parent" /\ s = in["child"] /\ rpc["child"] = "read"
      BY <1>00, <2>3, Zenon DEF Other
    <3>2. Clean(data'[in["child"]]["parent"])
      BY <1>0, <2>1, <2>2, <3>1, Zenon DEF Answered
    <3>3. \A t \in Streams : data'[t]["child"] = data[t]["child"]
      BY <1>0, <3>1, EventsApart, Zenon
    <3> QED BY <1>0, <2>2, <3>1, <3>2, <3>3, Zenon DEF Answered
  <2>4. CASE x = "parent"
    <3>1. o = "child"
      BY <2>4, Zenon DEF Other
    <3>2. \A t \in Streams : Clean(data'[t]["child"])
      BY <1>0, <2>1, <2>2, <3>1, ZenonT(60) DEF Answered
    <3>3. data'[in["child"]]["parent"] = data[in["child"]]["parent"]
      BY <1>0, <2>2, <3>1, EventsApart, Zenon
    <3> QED BY <1>0, <2>2, <3>2, <3>3, Zenon DEF Answered
  <2> QED BY <2>3, <2>4, Zenon DEF Sides
<1>5. InOrder'
  BY ReadInOrder, Zenon
<1>6. Older'
  <2>0. Older /\ offer \in Streams \cup {None} /\ in["parent"] \in Streams
    BY EventsApart, Zenon DEF LinkInv, Typed, MaybeStream
  <2>1. CASE x = "child"
    <3>1. o = "parent"
      BY <2>1, Zenon DEF Other
    <3>2. received'["parent"] = received["parent"] /\ \A t \in Streams : data'[t]["child"] = data[t]["child"]
      BY <1>0, <3>1, EventsApart, Zenon
    <3> QED BY <1>0, <2>0, <3>2, Zenon DEF Older, NewStream
  <2>2. CASE x = "parent"
    <3>1. o = "child" /\ s = in["parent"] /\ d = data[in["parent"]]["child"]
      BY <2>2, Zenon DEF Other
    <3>2. \A t \in Streams : data[t]["child"] \in Seq(Nat)
      BY EventsApart, Zenon DEF LinkInv, Typed
    <3>3. Ordered(d) /\ Before(received["parent"], d)
      BY <1>0, <2>2, <3>1, Zenon DEF LinkInv, InOrder
    <3> HIDE DEF d, s, o
    <3>4. CASE offer = in["parent"]
      <4>1. Before(received'["parent"], data'[offer]["child"])
        BY <1>0, <2>2, <3>1, <3>3, <3>4, HeadMoves, ZenonT(60)
      <4> QED BY <1>0, <4>1, <3>4, Zenon DEF Older, NewStream
    <3>5. CASE offer # None /\ offer # in["parent"]
      <4>1. /\ Before(received["parent"], data[offer]["child"])
            /\ Before(d, data[offer]["child"])
            /\ data'[offer]["child"] = data[offer]["child"]
            /\ in["child"] # in["parent"]
            /\ out["child"] = in["parent"] => data[offer]["child"] = << >>
        BY <1>0, <2>0, <3>1, <3>5, Zenon DEF Older, NewStream
      <4>2. Before(received'["parent"], data'[offer]["child"])
        BY <1>0, <2>0, <2>2, <3>2, <3>5, <4>1, HeadRead, Zenon
      <4>3. Before(data'[in["parent"]]["child"], data'[offer]["child"])
        BY <1>0, <2>0, <3>1, <3>2, <3>5, <4>1, TailBefore, Zenon
      <4> QED BY <1>0, <3>5, <4>1, <4>2, <4>3, Zenon DEF Older, NewStream
    <3>6. CASE offer = None
      BY <1>0, <3>6, Zenon DEF Older, NewStream
    <3> QED BY <3>4, <3>5, <3>6, Zenon
  <2> QED BY <2>1, <2>2, Zenon DEF Sides
<1> QED BY <1>1, <1>2, <1>3, <1>4, <1>5, <1>6, Zenon DEF LinkInv

LEMMA ReadFailsStep ==
  ASSUME LinkInv, NEW x \in Sides, ReadFails(x)
  PROVE  LinkInv'
<1>0. /\ rpc[x] = "read" /\ rpc' \in [Sides -> ReaderPC] /\ rpc'[x] \in {"await", "release"}
      /\ \A y \in Sides \ {x} : rpc'[y] = rpc[y]
      /\ UNCHANGED <<data, broken, queue, sem, produced, wpc, out, in, received, handed, slot,
                     lpc, offer, pending>>
  BY Zenon DEF ReadFails, net, qs, writers, LinkInv, Typed, ReaderPC
<1>1. Typed'
  BY <1>0, Zenon DEF LinkInv, Typed
<1>2. SemCounts' /\ InOrder' /\ Older'
  BY <1>0, Frames, Zenon
<1>3. HandedOver'
  BY <1>0, EventsApart, Zenon DEF LinkInv, HandedOver, InSlot, InTook, OutSlot, OutTook
<1>4. Unaccepted'
  BY <1>0, EventsApart, Zenon DEF LinkInv, Unaccepted
<1>5. Answered'
  <2>1. rpc'["child"] \in {"out", "outWait", "read", "hello"} => rpc'["child"] = rpc["child"]
    BY <1>0, EventsApart, Zenon
  <2> QED BY <1>0, <2>1, Zenon DEF LinkInv, Answered
<1> QED BY <1>1, <1>2, <1>3, <1>4, <1>5, Zenon DEF LinkInv

LEMMA ReleasePeerStep ==
  ASSUME LinkInv, NEW x \in Sides, ReleasePeer(x)
  PROVE  LinkInv'
<1>0. /\ rpc[x] = "release" /\ rpc' \in [Sides -> ReaderPC] /\ rpc'[x] = "await"
      /\ \A y \in Sides \ {x} : rpc'[y] = rpc[y]
      /\ UNCHANGED <<data, broken, produced, wpc, out, in, received, handed, slot,
                     lpc, offer, pending>>
  BY Zenon DEF ReleasePeer, net, LinkInv, Typed, ReaderPC
<1>00. RELEASE \in Nat /\ queue[x] \in Seq(Nat) /\ sem[x] \in Nat
  BY Zenon DEF RELEASE, LinkInv, Typed
<1>01. /\ queue'[x] = Append(queue[x], RELEASE) /\ sem'[x] = sem[x] + 1
       /\ \A y \in Sides \ {x} : queue'[y] = queue[y] /\ sem'[y] = sem[y]
  BY Zenon DEF ReleasePeer, LinkInv, Typed
<1>02. Append(queue[x], RELEASE) \in Seq(Nat) /\ Len(Append(queue[x], RELEASE)) = Len(queue[x]) + 1
  BY <1>00, AppendSeq, Zenon
<1>1. Typed'
  <2>1. sem[x] + 1 \in Nat
    BY <1>00
  <2> QED BY <1>0, <1>00, <1>02, <2>1, Zenon DEF LinkInv, Typed, ReleasePeer
<1>2. SemCounts'
  <2>1. /\ wpc[x] = "write" => sem[x] + 1 = Len(queue[x])
        /\ wpc[x] # "write" => sem[x] + 0 = Len(queue[x])
    BY Zenon DEF LinkInv, SemCounts
  <2>2. /\ wpc'[x] = "write" => sem'[x] + 1 = Len(queue'[x])
        /\ wpc'[x] # "write" => sem'[x] + 0 = Len(queue'[x])
    BY <1>0, <1>00, <1>01, <1>02, <2>1
  <2>3. \A y \in Sides \ {x} : sem'[y] = sem[y] /\ wpc'[y] = wpc[y] /\ queue'[y] = queue[y]
    BY <1>0, <1>01, Zenon
  <2> QED BY <2>2, <2>3, SemStep, ZenonT(60)
<1>3. HandedOver'
  BY <1>0, EventsApart, Zenon DEF LinkInv, HandedOver, InSlot, InTook, OutSlot, OutTook
<1>4. Unaccepted'
  BY <1>0, EventsApart, Zenon DEF LinkInv, Unaccepted
<1>5. Answered'
  <2>1. rpc'["child"] \in {"out", "outWait", "read", "hello"} => rpc'["child"] = rpc["child"]
    BY <1>0, EventsApart, Zenon
  <2> QED BY <1>0, <2>1, Zenon DEF LinkInv, Answered
<1>6. InOrder'
  <2> SUFFICES ASSUME NEW y \in Sides
               PROVE  InOrder!(y)'
    BY Zenon DEF InOrder
  <2>1. InOrder!(y)
    BY Zenon DEF LinkInv, InOrder
  <2>2. CASE y # x
    <3>1. queue'[y] = queue[y]
      BY <1>01, <2>2, Zenon
    <3> QED BY <1>0, <2>1, <3>1, Zenon
  <2>3. CASE y = x
    <3>1. Other(x) \in Sides /\ received[Other(x)] \in Seq(Nat) /\ produced[x] \in Nat
      BY Zenon DEF LinkInv, Typed, Other, Sides
    <3>2. RELEASE <= produced[x]
      BY <3>1 DEF RELEASE
    <3>3. Ordered(queue'[x]) /\ UpTo(queue'[x], produced[x])
      BY <1>00, <1>01, <2>1, <2>3, <3>1, <3>2, AppendOrdered, AppendUpTo, Zenon
    <3>4. \A s \in Streams : Before(data[s][x], queue'[x])
      <4> TAKE s \in Streams
      <4>1. data[s][x] \in Seq(Nat)
        BY DEF LinkInv, Typed
      <4> QED BY <4>1, <1>00, <1>01, <2>1, <2>3, AppendBefore, Zenon
    <3>5. Before(received[Other(x)], queue'[x])
      BY <1>00, <1>01, <2>1, <2>3, <3>1, AppendBefore, Zenon
    <3> QED BY <1>0, <2>1, <2>3, <3>3, <3>4, <3>5, Zenon
  <2> QED BY <2>2, <2>3, Zenon
<1>7. Older'
  BY <1>0, Frames, Zenon
<1> QED BY <1>1, <1>2, <1>3, <1>4, <1>5, <1>6, <1>7, Zenon DEF LinkInv

(* The hand-over of a stream to the one that waits for it. *)
LEMMA HandOverSlots ==
  ASSUME LinkInv, NEW e \in Events, NEW took \in Events, e # took, NEW st \in MaybeStream,
         HandOver(e, took, st)
  PROVE  /\ slot' \in [Events -> Slot] /\ slot[e].frozen
         /\ slot'[e].ret = st /\ slot'[e].notified /\ slot'[e].frozen
         /\ slot'[took] = Frozen
         /\ \A f \in Events \ {e, took} : slot'[f] = slot[f]
<1>1. slot \in [Events -> Slot] /\ slot[e] \in Slot
  BY Zenon DEF LinkInv, Typed
<1> DEFINE v == [slot[e] EXCEPT !.ret = st, !.notified = TRUE]
<1>2. slot' = [[slot EXCEPT ![e] = v] EXCEPT ![took] = Frozen] /\ slot[e].frozen
  BY <1>1, Zenon DEF HandOver
<1>3. v \in Slot /\ v.ret = st /\ v.notified /\ (slot[e].frozen => v.frozen)
  BY <1>1, Zenon DEF Slot
<1> HIDE DEF v
<1>4. Frozen \in Slot
  BY Slots, Zenon
<1>5. slot' \in [Events -> Slot] /\ slot'[e] = v /\ slot'[took] = Frozen
  BY <1>1, <1>2, <1>3, <1>4, Zenon
<1>6. \A f \in Events \ {e, took} : slot'[f] = slot[f]
  BY <1>1, <1>2, Zenon
<1> QED BY <1>2, <1>3, <1>5, <1>6, Zenon

LEMMA WokenSlots ==
  ASSUME LinkInv, NEW e \in Events, Woken(e)
  PROVE  /\ slot' \in [Events -> Slot] /\ slot[e].notified /\ slot'[e] = Idle
         /\ \A f \in Events \ {e} : slot'[f] = slot[f]
         /\ pending # None => \A f \in Events : slot'[f].ret # pending
<1>1. /\ slot' \in [Events -> Slot] /\ slot[e].notified /\ slot'[e] = Idle
      /\ \A f \in Events \ {e} : slot'[f] = slot[f]
  BY Slots, Zenon DEF Woken
<1>2. Idle.ret = None
  BY Zenon DEF Idle
<1> QED BY <1>1, <1>2, Zenon DEF LinkInv, Unaccepted

LEMMA NotifySlots ==
  ASSUME LinkInv, NEW e \in Events, notify(e)
  PROVE  /\ slot' \in [Events -> Slot] /\ slot[e].frozen
         /\ slot'[e].ret = slot[e].ret
         /\ \A f \in Events \ {e} : slot'[f] = slot[f]
         /\ pending # None => \A f \in Events : slot'[f].ret # pending
<1> DEFINE v == [slot[e] EXCEPT !.notified = TRUE]
<1>1. slot[e] \in Slot /\ slot' = [slot EXCEPT ![e] = v] /\ slot[e].frozen
  BY Slots, Zenon DEF notify
<1>2. v \in Slot /\ v.ret = slot[e].ret
  BY <1>1, Zenon DEF Slot
<1> HIDE DEF v
<1>3. /\ slot' \in [Events -> Slot] /\ slot'[e].ret = slot[e].ret
      /\ \A f \in Events \ {e} : slot'[f] = slot[f]
  BY <1>1, <1>2, Slots, Zenon
<1> QED BY <1>1, <1>3, Zenon DEF LinkInv, Unaccepted

LEMMA ReaderFreezeStep ==
  ASSUME LinkInv, ReaderFreeze
  PROVE  LinkInv'
<1> DEFINE e == <<"in", "parent">>
<1>0. /\ rpc["parent"] = "await" /\ rpc' \in [Sides -> ReaderPC] /\ rpc'["parent"] = "frozen"
      /\ rpc'["child"] = rpc["child"]
      /\ UNCHANGED <<data, broken, queue, sem, produced, wpc, out, in, received, handed,
                     lpc, offer, pending>>
  BY EventsApart, Zenon DEF ReaderFreeze, net, qs, writers, LinkInv, Typed, ReaderPC
<1>00. e \in Events /\ slot' \in [Events -> Slot] /\ slot'[e] = Frozen
       /\ \A f \in Events \ {e} : slot'[f] = slot[f]
  <2>1. e \in Events /\ slot' = [slot EXCEPT ![e] = Frozen]
    BY EventsApart, Zenon DEF ReaderFreeze, freeze
  <2> HIDE DEF e
  <2> QED BY <2>1, Slots, SlotSet, Zenon
<1>1. Typed'
  BY <1>0, <1>00, Zenon DEF LinkInv, Typed
<1>2. SemCounts' /\ InOrder' /\ Older'
  BY <1>0, Frames, Zenon
<1>3. HandedOver'
  <2>1. /\ UNCHANGED <<InTook, OutSlot, OutTook, slot[<<"out", "parent">>]>>
        /\ InSlot' = Frozen /\ ~Frozen.notified
    BY <1>00, EventsApart, Zenon DEF InSlot, InTook, OutSlot, OutTook, Frozen
  <2> QED BY <1>0, <2>1, Zenon DEF LinkInv, HandedOver
<1>4. Unaccepted'
  <2>1. pending # None => \A f \in Events : slot'[f].ret # pending
    <3>1. Frozen.ret = None
      BY Zenon DEF Frozen
    <3> QED BY <1>00, <3>1, Zenon DEF LinkInv, Unaccepted
  <2> QED BY <1>0, <2>1, Zenon DEF LinkInv, Unaccepted
<1>5. Answered'
  BY <1>0, Zenon DEF LinkInv, Answered
<1> QED BY <1>1, <1>2, <1>3, <1>4, <1>5, Zenon DEF LinkInv

LEMMA ReaderTakeStep ==
  ASSUME LinkInv, ReaderTake
  PROVE  LinkInv'
<1> DEFINE e == <<"in", "parent">>
<1>0. /\ rpc["parent"] = "frozen" /\ rpc' \in [Sides -> ReaderPC] /\ rpc'["parent"] = "took"
      /\ rpc'["child"] = rpc["child"] /\ handed' = InSlot.ret
      /\ UNCHANGED <<data, broken, queue, sem, produced, wpc, out, in, received,
                     lpc, offer, pending>>
  BY EventsApart, Zenon DEF ReaderTake, net, qs, writers, LinkInv, Typed, ReaderPC, InSlot
<1>00. /\ e \in Events /\ slot[e].notified /\ slot' \in [Events -> Slot] /\ slot'[e] = Idle
       /\ \A f \in Events \ {e} : slot'[f] = slot[f]
       /\ pending # None => \A f \in Events : slot'[f].ret # pending
  BY EventsApart, WokenSlots, Zenon DEF ReaderTake
<1>01. InSlot.ret = offer /\ lpc = "inWait" /\ ~InTook.notified /\ offer \in MaybeStream
  BY <1>00, Zenon DEF LinkInv, Typed, HandedOver, InSlot
<1>1. Typed'
  BY <1>0, <1>00, <1>01, Zenon DEF LinkInv, Typed
<1>2. SemCounts' /\ InOrder' /\ Older'
  BY <1>0, Frames, Zenon
<1>3. HandedOver'
  <2>1. /\ UNCHANGED <<InTook, OutSlot, OutTook, slot[<<"out", "parent">>]>>
        /\ InSlot' = Idle /\ ~Idle.notified /\ ~Idle.frozen
    BY <1>00, EventsApart, Zenon DEF InSlot, InTook, OutSlot, OutTook, Idle
  <2> QED BY <1>0, <1>01, <2>1, Zenon DEF LinkInv, HandedOver
<1>4. Unaccepted'
  BY <1>0, <1>00, <1>01, Zenon DEF LinkInv, Unaccepted
<1>5. Answered'
  BY <1>0, Zenon DEF LinkInv, Answered
<1> QED BY <1>1, <1>2, <1>3, <1>4, <1>5, Zenon DEF LinkInv

LEMMA ReaderTookStep ==
  ASSUME LinkInv, ReaderTook
  PROVE  LinkInv'
<1> DEFINE e == <<"inTook", "parent">>
<1>0. /\ rpc["parent"] = "took" /\ rpc' \in [Sides -> ReaderPC] /\ rpc'["parent"] = "read"
      /\ rpc'["child"] = rpc["child"] /\ handed' = None
      /\ in' = [in EXCEPT !["parent"] = handed]
      /\ UNCHANGED <<data, broken, queue, sem, produced, wpc, out, received,
                     lpc, offer, pending>>
  BY EventsApart, Zenon DEF ReaderTook, net, qs, writers, LinkInv, Typed, ReaderPC
<1>00. /\ e \in Events /\ slot' \in [Events -> Slot]
       /\ \A f \in Events \ {e} : slot'[f] = slot[f]
       /\ pending # None => \A f \in Events : slot'[f].ret # pending
  BY EventsApart, NotifySlots, Zenon DEF ReaderTook
<1>01. handed = offer /\ lpc = "inWait" /\ ~InSlot.notified /\ offer \in Streams
  BY <1>0, Zenon DEF LinkInv, Typed, HandedOver, MaybeStream
<1>02. in'["parent"] = offer /\ in'["child"] = in["child"] /\ in' \in [Sides -> Streams]
  BY <1>0, <1>01, EventsApart, Zenon DEF LinkInv, Typed
<1>1. Typed'
  BY <1>0, <1>00, <1>02, Zenon DEF LinkInv, Typed, MaybeStream
<1>2. SemCounts'
  BY <1>0, Frames, Zenon
<1>3. HandedOver'
  <2>1. UNCHANGED <<InSlot, OutSlot, OutTook, slot[<<"out", "parent">>]>>
    BY <1>00, EventsApart, Zenon DEF InSlot, InTook, OutSlot, OutTook
  <2>2. ~InSlot.frozen
    BY <1>0, Zenon DEF LinkInv, HandedOver
  <2> QED BY <1>0, <1>01, <1>02, <2>1, <2>2, Zenon DEF LinkInv, HandedOver
<1>4. Unaccepted'
  BY <1>0, <1>00, <1>01, <1>02, Zenon DEF LinkInv, Unaccepted
<1>5. Answered'
  BY <1>0, <1>02, Zenon DEF LinkInv, Answered
<1>6. InOrder'
  <2>1. Before(received["parent"], data[offer]["child"])
    BY <1>01, StreamsAssumption, Zenon DEF LinkInv, Older
  <2>2. InOrder /\ Other("parent") = "child" /\ Other("child") = "parent"
    BY Zenon DEF LinkInv, Other
  <2> QED BY <1>0, <1>02, <2>1, <2>2, Zenon DEF InOrder, Sides
<1>7. Older'
  BY <1>0, <1>02, Zenon DEF LinkInv, Older, NewStream
<1> QED BY <1>1, <1>2, <1>3, <1>4, <1>5, <1>6, <1>7, Zenon DEF LinkInv

(* A stream that nobody has is used again. *)
LEMMA ConnectStep ==
  ASSUME LinkInv, Connect
  PROVE  LinkInv'
<1>1. PICK s \in Fresh :
        /\ broken' = broken \ Fresh
        /\ data' = [data EXCEPT ![s] = [x \in Sides |-> << >>]]
        /\ in' = [in EXCEPT !["child"] = s] /\ pending' = s
  BY Zenon DEF Connect
<1>2. /\ rpc["child"] = "await" /\ rpc' \in [Sides -> ReaderPC] /\ rpc'["child"] = "hello"
      /\ rpc'["parent"] = rpc["parent"]
      /\ UNCHANGED <<queue, sem, produced, wpc, out, received, handed, slot, lpc, offer>>
  BY EventsApart, Zenon DEF Connect, qs, writers, LinkInv, Typed, ReaderPC
<1>3. /\ s \in Streams /\ s # None /\ s # offer /\ s # pending /\ s # handed
      /\ s # in["parent"] /\ s # in["child"] /\ s # out["parent"] /\ s # out["child"]
      /\ \A e \in Events : slot[e].ret # s
  BY StreamsAssumption, EventsApart, Zenon DEF Fresh, InUse
<1>4. /\ data \in [Streams -> [Sides -> Seq(Nat)]]
      /\ data' \in [Streams -> [Sides -> Seq(Nat)]]
      /\ \A x \in Sides : data'[s][x] = << >>
      /\ \A t \in Streams \ {s} : data'[t] = data[t]
  BY <1>1, <1>3 DEF LinkInv, Typed
<1>5. in'["child"] = s /\ in'["parent"] = in["parent"] /\ in' \in [Sides -> Streams]
  BY <1>1, <1>3, EventsApart, Zenon DEF LinkInv, Typed
<1>6. Typed'
  BY <1>1, <1>2, <1>3, <1>4, <1>5, Zenon DEF LinkInv, Typed, MaybeStream
<1>7. SemCounts'
  BY <1>2, Frames, Zenon
<1>8. HandedOver'
  BY <1>2, <1>5, Zenon DEF LinkInv, HandedOver, InSlot, InTook, OutSlot, OutTook
<1>9. Unaccepted'
  BY <1>1, <1>2, <1>3, <1>4, <1>5, Zenon DEF Unaccepted
<1>10. Answered'
  <2>1. Clean(<< >>)
    BY DEF Clean
  <2>2. Answered /\ data'[s]["parent"] = << >> /\ data'[s]["child"] = << >>
    BY <1>4, EventsApart, Zenon DEF LinkInv
  <2>3. \A t \in Streams : Clean(data'[t]["child"])
    BY <1>4, <2>1, <2>2, Zenon DEF Answered
  <2>4. Clean(data'[in'["child"]]["parent"])
    BY <1>5, <2>1, <2>2, Zenon
  <2> QED BY <1>2, <1>5, <2>2, <2>3 DEF Answered
<1>11. InOrder'
  <2> SUFFICES ASSUME NEW y \in Sides
               PROVE  InOrder!(y)'
    BY Zenon DEF InOrder
  <2>1. InOrder!(y)
    BY Zenon DEF LinkInv, InOrder
  <2>2. /\ queue[y] \in Seq(Nat) /\ produced[y] \in Nat
        /\ Other(y) \in Sides /\ received[Other(y)] \in Seq(Nat) /\ in[Other(y)] \in Streams
    BY Zenon DEF LinkInv, Typed, Other, Sides
  <2>3. /\ Ordered(<< >>) /\ UpTo(<< >>, produced[y]) /\ Before(<< >>, queue[y])
        /\ Before(received[Other(y)], << >>)
    BY <2>2, EmptySeq, Zenon
  <2>4. \A t \in Streams : /\ Ordered(data'[t][y]) /\ UpTo(data'[t][y], produced[y])
                           /\ Before(data'[t][y], queue[y])
    BY <1>4, <2>1, <2>3, Zenon
  <2>5. Before(received[Other(y)], data'[in'[Other(y)]][y])
    <3>1. CASE Other(y) = "child"
      BY <1>4, <1>5, <2>3, <3>1, Zenon
    <3>2. CASE Other(y) = "parent"
      <4>1. in'[Other(y)] = in[Other(y)] /\ data'[in[Other(y)]] = data[in[Other(y)]]
        BY <1>3, <1>4, <1>5, <2>2, <3>2, Zenon
      <4> QED BY <2>1, <4>1, Zenon
    <3> QED BY <2>2, <3>1, <3>2, Zenon DEF Sides
  <2> QED BY <1>2, <2>1, <2>4, <2>5, Zenon
<1>12. Older'
  <2>1. /\ offer # None => offer \in Streams /\ data'[offer] = data[offer]
        /\ data'[in["parent"]] = data[in["parent"]] /\ Older
    BY <1>3, <1>4, EventsApart, Zenon DEF LinkInv, Typed, MaybeStream
  <2> QED BY <1>2, <1>3, <1>5, <2>1, Zenon DEF Older, NewStream
<1> QED BY <1>6, <1>7, <1>8, <1>9, <1>10, <1>11, <1>12, Zenon DEF LinkInv

LEMMA HelloStep ==
  ASSUME LinkInv, Hello
  PROVE  LinkInv'
<1> DEFINE s == in["child"]
           d == data[s]["parent"]
<1>0. /\ rpc["child"] = "hello" /\ s \in Streams /\ "parent" \in Sides /\ "child" \in Sides
      /\ UNCHANGED <<broken, queue, sem, produced, wpc, out, in, received, handed, slot,
                     lpc, offer, pending>>
  BY EventsApart, Zenon DEF Hello, qs, writers, LinkInv, Typed
<1>1. CASE d # << >> /\ TakeFirst(s, "parent") /\ rpc' = [rpc EXCEPT !["child"] = "out"]
  <2>1. /\ d \in Seq(Nat) /\ data'[s]["parent"] = Tail(d)
        /\ \A t \in Streams, z \in Sides : t # s \/ z # "parent" => data'[t][z] = data[t][z]
        /\ data' \in [Streams -> [Sides -> Seq(Nat)]]
    <3>1. TakeFirst(s, "parent") /\ d # << >>
      BY <1>1, Zenon
    <3> HIDE DEF s
    <3> QED BY <1>0, <3>1, Taken, Zenon
  <2>2. /\ rpc' \in [Sides -> ReaderPC] /\ rpc'["child"] = "out" /\ rpc'["parent"] = rpc["parent"]
    BY <1>1, EventsApart, Zenon DEF LinkInv, Typed, ReaderPC
  <2>3. Typed'
    BY <1>0, <2>1, <2>2, Zenon DEF LinkInv, Typed
  <2>4. SemCounts'
    BY <1>0, Frames, Zenon
  <2>5. HandedOver'
    BY <1>0, <2>2, Zenon DEF LinkInv, HandedOver, InSlot, InTook, OutSlot, OutTook
  <2>6. Unaccepted'
    <3>1. pending = None
      BY <1>0, <1>1, Zenon DEF LinkInv, Unaccepted
    <3> QED BY <1>0, <3>1, Zenon DEF Unaccepted
  <2>7. \A t \in Streams : data'[t]["child"] = data[t]["child"]
    BY <1>0, <2>1, EventsApart, Zenon
  <2>8. Answered'
    <3>1. \A i \in 2..Len(d) : d[i] # RELEASE
      BY <1>0, Zenon DEF LinkInv, Answered
    <3>2. Clean(Tail(d))
      <4> HIDE DEF d
      <4> QED BY <1>1, <2>1, <3>1, TailSeq DEF Clean
    <3> QED BY <1>0, <2>1, <2>2, <2>7, <3>2, Zenon DEF LinkInv, Answered
  <2>9. InOrder'
    <3> SUFFICES ASSUME NEW y \in Sides
                 PROVE  InOrder!(y)'
      BY Zenon DEF InOrder
    <3>1. InOrder!(y)
      BY Zenon DEF LinkInv, InOrder
    <3>2. /\ queue[y] \in Seq(Nat) /\ produced[y] \in Nat
          /\ Other(y) \in Sides /\ received[Other(y)] \in Seq(Nat) /\ in[Other(y)] \in Streams
      BY Zenon DEF LinkInv, Typed, Other, Sides
    <3>3. CASE y = "child"
      BY <1>0, <2>7, <3>1, <3>2, <3>3, Zenon
    <3>4. CASE y = "parent"
      <4>1. Ordered(d) /\ UpTo(d, produced[y]) /\ Before(d, queue[y])
        BY <1>0, <3>1, <3>4, Zenon
      <4>2. Other(y) = "child" /\ Before(received[Other(y)], d)
        BY <3>1, <3>4, Zenon DEF Other
      <4> HIDE DEF d
      <4>3. Ordered(Tail(d)) /\ UpTo(Tail(d), produced[y]) /\ Before(Tail(d), queue[y])
        BY <1>1, <2>1, <3>2, <4>1, TailOrdered, TailBefore, Zenon
      <4>4. Before(received[Other(y)], data'[in[Other(y)]][y])
        <5>1. Before(received[Other(y)], Tail(d))
          BY <1>1, <2>1, <3>2, <4>2, TailBefore, Zenon
        <5> QED BY <2>1, <3>4, <4>2, <5>1, Zenon
      <4>5. \A t \in Streams : /\ Ordered(data'[t][y]) /\ UpTo(data'[t][y], produced[y])
                               /\ Before(data'[t][y], queue[y])
        BY <1>0, <2>1, <3>1, <3>4, <4>3, Zenon
      <4> QED BY <1>0, <3>1, <4>4, <4>5, Zenon
    <3> QED BY <3>3, <3>4, Zenon DEF Sides
  <2>10. Older'
    <3>1. /\ offer # None => offer \in Streams
          /\ in["parent"] \in Streams /\ Older
      BY <1>0, Zenon DEF LinkInv, Typed, MaybeStream
    <3> QED BY <1>0, <2>7, <3>1, Zenon DEF Older, NewStream
  <2> QED BY <2>3, <2>4, <2>5, <2>6, <2>8, <2>9, <2>10, Zenon DEF LinkInv
<1>2. CASE s \in broken /\ rpc' = [rpc EXCEPT !["child"] = "await"] /\ UNCHANGED data
  <2>1. /\ rpc' \in [Sides -> ReaderPC] /\ rpc'["child"] = "await" /\ rpc'["parent"] = rpc["parent"]
    BY <1>2, EventsApart, Zenon DEF LinkInv, Typed, ReaderPC
  <2>2. Typed'
    BY <1>0, <1>2, <2>1, Zenon DEF LinkInv, Typed
  <2>3. SemCounts' /\ InOrder' /\ Older'
    BY <1>0, <1>2, Frames, Zenon
  <2>4. HandedOver'
    BY <1>0, <2>1, Zenon DEF LinkInv, HandedOver, InSlot, InTook, OutSlot, OutTook
  <2>5. Unaccepted'
    BY <1>0, <1>2, <2>1, Zenon DEF LinkInv, Unaccepted
  <2>6. Answered'
    BY <1>0, <1>2, <2>1, Zenon DEF LinkInv, Answered
  <2> QED BY <2>2, <2>3, <2>4, <2>5, <2>6, Zenon DEF LinkInv
<1> QED BY <1>1, <1>2, Zenon DEF Hello, TakeFirst

LEMMA PurifierHandOverStep ==
  ASSUME LinkInv, PurifierHandOver
  PROVE  LinkInv'
<1> DEFINE e == <<"out", "child">>
           took == <<"outTook", "child">>
           st == in["child"]
<1>0. /\ rpc["child"] = "out" /\ rpc' \in [Sides -> ReaderPC] /\ rpc'["child"] = "outWait"
      /\ rpc'["parent"] = rpc["parent"]
      /\ UNCHANGED <<data, broken, queue, sem, produced, wpc, out, in, received, handed,
                     lpc, offer, pending>>
  BY EventsApart, Zenon DEF PurifierHandOver, net, qs, writers, LinkInv, Typed, ReaderPC
<1>00. e \in Events /\ took \in Events /\ e # took /\ st \in MaybeStream /\ HandOver(e, took, st)
  BY EventsApart, Zenon DEF LinkInv, Typed, MaybeStream, PurifierHandOver
<1>01. /\ slot' \in [Events -> Slot] /\ slot[e].frozen
       /\ slot'[e].ret = st /\ slot'[e].notified /\ slot'[e].frozen
       /\ slot'[took] = Frozen
       /\ \A f \in Events \ {e, took} : slot'[f] = slot[f]
  BY <1>00, HandOverSlots, Zenon
<1>1. Typed'
  BY <1>0, <1>01, Zenon DEF LinkInv, Typed
<1>2. SemCounts' /\ InOrder' /\ Older'
  BY <1>0, Frames, Zenon
<1>3. HandedOver'
  <2>1. /\ UNCHANGED <<InSlot, InTook, slot[<<"out", "parent">>]>>
        /\ OutTook' = Frozen /\ ~Frozen.notified /\ OutSlot'.ret = st
        /\ OutSlot.frozen
    BY <1>00, <1>01, EventsApart, Zenon DEF InSlot, InTook, OutSlot, OutTook, Frozen
  <2> QED BY <1>0, <2>1, Zenon DEF LinkInv, HandedOver
<1>4. Unaccepted'
  <2>1. pending = None
    BY <1>0, Zenon DEF LinkInv, Unaccepted
  <2> QED BY <1>0, <2>1, Zenon DEF Unaccepted
<1>5. Answered'
  BY <1>0, Zenon DEF LinkInv, Answered
<1> QED BY <1>1, <1>2, <1>3, <1>4, <1>5, Zenon DEF LinkInv

LEMMA PurifierDoneStep ==
  ASSUME LinkInv, PurifierDone
  PROVE  LinkInv'
<1> DEFINE e == <<"outTook", "child">>
<1>0. /\ rpc["child"] = "outWait" /\ rpc' \in [Sides -> ReaderPC] /\ rpc'["child"] = "read"
      /\ rpc'["parent"] = rpc["parent"]
      /\ UNCHANGED <<data, broken, queue, sem, produced, wpc, out, in, received, handed,
                     lpc, offer, pending>>
  BY EventsApart, Zenon DEF PurifierDone, net, qs, writers, LinkInv, Typed, ReaderPC
<1>00. /\ e \in Events /\ slot[e].notified /\ slot' \in [Events -> Slot] /\ slot'[e] = Idle
       /\ \A f \in Events \ {e} : slot'[f] = slot[f]
       /\ pending # None => \A f \in Events : slot'[f].ret # pending
  BY EventsApart, WokenSlots, Zenon DEF PurifierDone
<1>1. Typed'
  BY <1>0, <1>00, Zenon DEF LinkInv, Typed
<1>2. SemCounts' /\ InOrder' /\ Older'
  BY <1>0, Frames, Zenon
<1>3. HandedOver'
  <2>1. /\ UNCHANGED <<InSlot, InTook, OutSlot, slot[<<"out", "parent">>]>>
        /\ OutTook' = Idle /\ ~Idle.notified
    BY <1>00, EventsApart, Zenon DEF InSlot, InTook, OutSlot, OutTook, Idle
  <2>2. ~OutSlot.notified
    BY <1>00, Zenon DEF LinkInv, HandedOver, OutTook
  <2> QED BY <1>0, <2>1, <2>2, Zenon DEF LinkInv, HandedOver
<1>4. Unaccepted'
  <2>1. pending = None
    BY <1>0, Zenon DEF LinkInv, Unaccepted
  <2> QED BY <1>0, <2>1, Zenon DEF Unaccepted
<1>5. Answered'
  BY <1>0, Zenon DEF LinkInv, Answered
<1> QED BY <1>1, <1>2, <1>3, <1>4, <1>5, Zenon DEF LinkInv

(***************************************************************************)
(* The Listener.                                                           *)
(***************************************************************************)
LEMMA AcceptStep ==
  ASSUME LinkInv, Accept
  PROVE  LinkInv'
<1>0. /\ lpc = "accept" /\ pending # None /\ pending' = None /\ offer = None
      /\ UNCHANGED <<broken, queue, sem, produced, wpc, out, rpc, in, received, handed, slot>>
  BY Zenon DEF Accept, qs, writers, readers, LinkInv, HandedOver
<1>1. pending \in Streams /\ Unaccepted!2
  BY <1>0, Zenon DEF LinkInv, Typed, MaybeStream, Unaccepted
<1>2. Unaccepted'
  BY <1>0, Zenon DEF Unaccepted
<1>3. SemCounts'
  BY <1>0, Frames, Zenon
<1>4. CASE pending \in broken
  <2>1. UNCHANGED <<lpc, offer, data>>
    BY <1>4, Zenon DEF Accept
  <2>2. Typed'
    BY <1>0, <2>1, Zenon DEF LinkInv, Typed, MaybeStream
  <2>3. HandedOver' /\ Answered' /\ InOrder' /\ Older'
    BY <1>0, <2>1, Frames, Zenon
  <2> QED BY <1>2, <1>3, <2>2, <2>3, Zenon DEF LinkInv
<1>5. CASE pending \notin broken
  <2> DEFINE s == pending
  <2>1. /\ lpc' = "route" /\ offer' = s
        /\ data' = [data EXCEPT ![s]["parent"] = Append(@, RELEASE)]
    BY <1>5, Zenon DEF Accept
  <2>2. data[s]["parent"] = << >> /\ data[s]["child"] = << >> /\ rpc["child"] = "hello" /\ s = in["child"]
    BY <1>1, <1>5, EventsApart, Zenon
  <2>3. Append(<< >>, RELEASE) = <<RELEASE>> /\ <<RELEASE>> \in Seq(Nat)
    BY DEF RELEASE
  <2>4. /\ data'[s]["parent"] = <<RELEASE>>
        /\ \A t \in Streams, z \in Sides : t # s \/ z # "parent" => data'[t][z] = data[t][z]
        /\ data' \in [Streams -> [Sides -> Seq(Nat)]]
    BY <1>1, <2>1, <2>2, <2>3, EventsApart, Zenon DEF LinkInv, Typed
  <2> HIDE DEF s
  <2>5. Typed'
    BY <1>0, <1>1, <2>1, <2>4, Zenon DEF LinkInv, Typed, MaybeStream, ListenerPC, s
  <2>6. HandedOver'
    BY <1>0, <1>1, <2>1, StreamsAssumption, Zenon
    DEF LinkInv, HandedOver, InSlot, InTook, OutSlot, OutTook, s
  <2>7. \A t \in Streams : data'[t]["child"] = data[t]["child"]
    BY <2>4, EventsApart, Zenon
  <2>8. Answered'
    <3>1. \A i \in 2..Len(<<RELEASE>>) : <<RELEASE>>[i] # RELEASE
      OBVIOUS
    <3> QED BY <1>0, <2>2, <2>4, <2>7, <3>1, Zenon DEF LinkInv, Answered
  <2>9. InOrder'
    <3> SUFFICES ASSUME NEW y \in Sides
                 PROVE  InOrder!(y)'
      BY Zenon DEF InOrder
    <3>1. InOrder!(y)
      BY Zenon DEF LinkInv, InOrder
    <3>2. /\ queue[y] \in Seq(Nat) /\ produced[y] \in Nat
          /\ Other(y) \in Sides /\ received[Other(y)] \in Seq(Nat) /\ in[Other(y)] \in Streams
      BY Zenon DEF LinkInv, Typed, Other, Sides
    <3>3. CASE y = "child"
      BY <1>0, <2>7, <3>1, <3>2, <3>3, Zenon
    <3>4. CASE y = "parent"
      <4>1. /\ Ordered(<<RELEASE>>) /\ UpTo(<<RELEASE>>, produced[y])
            /\ Before(<<RELEASE>>, queue[y]) /\ Before(received[Other(y)], <<RELEASE>>)
        <5>1. Len(<<RELEASE>>) = 1 /\ <<RELEASE>>[1] = RELEASE /\ 1..1 = {1} /\ ~(1 < 1)
          OBVIOUS
        <5>2. RELEASE <= produced[y]
          BY <3>2 DEF RELEASE
        <5> QED BY <5>1, <5>2, Zenon DEF Ordered, UpTo, Before
      <4>2. \A t \in Streams : /\ Ordered(data'[t][y]) /\ UpTo(data'[t][y], produced[y])
                               /\ Before(data'[t][y], queue[y])
        BY <2>4, <3>1, <3>4, <4>1, Zenon
      <4>3. Before(received[Other(y)], data'[in[Other(y)]][y])
        BY <2>4, <3>1, <3>2, <3>4, <4>1, Zenon
      <4> QED BY <1>0, <3>1, <4>2, <4>3, Zenon
    <3> QED BY <3>3, <3>4, Zenon DEF Sides
  <2>10. Older'
    <3>1. data'[s]["child"] = << >> /\ in["child"] # in["parent"]
      BY <1>1, <2>2, <2>7, Zenon DEF s
    <3>2. received["parent"] \in Seq(Nat) /\ data'[in["parent"]]["child"] \in Seq(Nat)
      BY <2>4, EventsApart, Zenon DEF LinkInv, Typed
    <3>3. Before(received["parent"], << >>) /\ Before(data'[in["parent"]]["child"], << >>)
      BY <3>2, EmptySeq, Zenon
    <3> QED BY <1>0, <2>1, <3>1, <3>3, Zenon DEF Older, NewStream
  <2> QED BY <1>2, <1>3, <2>5, <2>6, <2>8, <2>9, <2>10, Zenon DEF LinkInv
<1> QED BY <1>4, <1>5, Zenon

LEMMA StartRoutingStep ==
  ASSUME LinkInv, StartRouting
  PROVE  LinkInv'
<1>0. /\ lpc = "route" /\ lpc' = "in"
      /\ UNCHANGED <<data, broken, queue, sem, produced, wpc, out, rpc, in, received, handed, slot,
                     offer, pending>>
  BY Zenon DEF StartRouting, net, qs, writers, readers
<1>1. Typed'
  BY <1>0, Zenon DEF LinkInv, Typed, ListenerPC
<1>2. HandedOver'
  BY <1>0, Zenon DEF LinkInv, HandedOver, InSlot, InTook, OutSlot, OutTook
<1>3. SemCounts' /\ Unaccepted' /\ Answered' /\ InOrder' /\ Older'
  BY <1>0, Frames, Zenon
<1> QED BY <1>1, <1>2, <1>3, Zenon DEF LinkInv

(* A stream is gone, with what is unread. *)
LEMMA Dropped ==
  ASSUME LinkInv, NEW s \in Streams, Drop(s),
         UNCHANGED <<queue, sem, produced, wpc, out, rpc, in, received, handed, slot, pending>>
  PROVE  /\ data' \in [Streams -> [Sides -> Seq(Nat)]]
         /\ SemCounts' /\ Answered' /\ InOrder'
         /\ offer' = offer => Unaccepted' /\ Older'
         /\ offer' = None => Unaccepted' /\ Older'
<1>1. /\ data' \in [Streams -> [Sides -> Seq(Nat)]]
      /\ \A x \in Sides : data'[s][x] = << >>
      /\ \A t \in Streams \ {s} : data'[t] = data[t]
      /\ broken' = broken \cup {s}
  <2>1. << >> \in Seq(Nat)
    OBVIOUS
  <2>2. data \in [Streams -> [Sides -> Seq(Nat)]] /\ broken' = broken \cup {s}
        /\ data' = [data EXCEPT ![s] = [x \in Sides |-> <<>>]]
    BY Zenon DEF Drop, LinkInv, Typed
  <2> QED BY <2>1, <2>2, Zenon
<1>2. SemCounts'
  BY Frames, Zenon
<1>3. Answered'
  <2>1. Clean(<< >>) /\ Answered /\ in["child"] \in Streams
    BY EventsApart DEF Clean, LinkInv, Typed
  <2>2. \A t \in Streams : Clean(data'[t]["child"])
    BY <1>1, <2>1, EventsApart, Zenon DEF Answered
  <2>3. data'[in["child"]]["parent"] = << >> \/ data'[in["child"]]["parent"] = data[in["child"]]["parent"]
    BY <1>1, <2>1, EventsApart, Zenon
  <2>4. \A i \in 2..Len(<< >>) : << >>[i] # RELEASE
    OBVIOUS
  <2> QED BY <2>1, <2>2, <2>3, <2>4, Zenon DEF Answered
<1>4. InOrder'
  <2> SUFFICES ASSUME NEW y \in Sides
               PROVE  InOrder!(y)'
    BY Zenon DEF InOrder
  <2>1. InOrder!(y)
    BY Zenon DEF LinkInv, InOrder
  <2>2. /\ queue[y] \in Seq(Nat) /\ produced[y] \in Nat
        /\ Other(y) \in Sides /\ received[Other(y)] \in Seq(Nat) /\ in[Other(y)] \in Streams
    BY Zenon DEF LinkInv, Typed, Other, Sides
  <2>3. /\ Ordered(<< >>) /\ UpTo(<< >>, produced[y]) /\ Before(<< >>, queue[y])
        /\ Before(received[Other(y)], << >>)
    BY <2>2, EmptySeq, Zenon
  <2>4. \A t \in Streams : /\ Ordered(data'[t][y]) /\ UpTo(data'[t][y], produced[y])
                           /\ Before(data'[t][y], queue[y])
    BY <1>1, <2>1, <2>3, Zenon
  <2>5. Before(received[Other(y)], data'[in[Other(y)]][y])
    BY <1>1, <2>1, <2>2, <2>3, Zenon
  <2> QED BY <2>1, <2>4, <2>5, Zenon
<1>5. offer' = offer => Unaccepted' /\ Older'
  <2> SUFFICES ASSUME offer' = offer
               PROVE  Unaccepted' /\ Older'
    BY Zenon
  <2>1. Unaccepted'
    <3>1. pending # None => \A x \in Sides : data'[pending][x] = << >>
      BY <1>1, Zenon DEF LinkInv, Typed, MaybeStream, Unaccepted
    <3> QED BY <1>1, <3>1, Zenon DEF LinkInv, Unaccepted
  <2>2. Older'
    <3> DEFINE p == in["parent"]
               r == received["parent"]
    <3>1. /\ Older /\ p \in Streams /\ r \in Seq(Nat)
          /\ \A t \in Streams : data[t]["child"] \in Seq(Nat) /\ data'[t]["child"] \in Seq(Nat)
          /\ offer # None => offer \in Streams
      BY <1>1, EventsApart, Zenon DEF LinkInv, Typed, MaybeStream
    <3>2. \A t \in Streams : data'[t]["child"] = << >> \/ data'[t]["child"] = data[t]["child"]
      BY <1>1, EventsApart, Zenon
    <3>3. \A q \in Seq(Nat) : Before(q, << >>) /\ Before(<< >>, q)
      BY EmptySeq, Zenon
    <3>4. offer # None => Before(r, data'[offer]["child"])
      BY <3>1, <3>2, <3>3, Zenon DEF Older
    <3>5. NewStream => /\ Before(data'[p]["child"], data'[offer]["child"])
                       /\ in["child"] # p
                       /\ out["child"] = p => data'[offer]["child"] = << >>
      BY <3>1, <3>2, <3>3, Zenon DEF Older, NewStream
    <3> QED BY <3>4, <3>5, Zenon DEF Older, NewStream
  <2> QED BY <2>1, <2>2, Zenon
<1>6. offer' = None => Unaccepted' /\ Older'
  <2> SUFFICES ASSUME offer' = None
               PROVE  Unaccepted' /\ Older'
    BY Zenon
  <2>1. pending # None => \A x \in Sides : data'[pending][x] = << >>
    BY <1>1, Zenon DEF LinkInv, Typed, MaybeStream, Unaccepted
  <2> QED BY <1>1, <2>1, Zenon DEF LinkInv, Unaccepted, Older, NewStream
<1> QED BY <1>1, <1>2, <1>3, <1>4, <1>5, <1>6, Zenon

LEMMA StartRoutingFailsStep ==
  ASSUME LinkInv, StartRoutingFails
  PROVE  LinkInv'
<1>0. /\ lpc = "route" /\ lpc' = "accept" /\ offer' = None /\ Drop(offer) /\ offer \in Streams
      /\ UNCHANGED <<queue, sem, produced, wpc, out, rpc, in, received, handed, slot, pending>>
  BY Zenon DEF StartRoutingFails, qs, writers, readers, LinkInv, Typed, MaybeStream, HandedOver
<1>1. data' \in [Streams -> [Sides -> Seq(Nat)]] /\ SemCounts' /\ Answered' /\ InOrder'
      /\ Unaccepted' /\ Older'
  BY <1>0, Dropped, Zenon
<1>2. Typed'
  BY <1>0, <1>1, Zenon DEF LinkInv, Typed, MaybeStream, ListenerPC
<1>3. HandedOver'
  BY <1>0, Zenon DEF LinkInv, HandedOver, InSlot, InTook, OutSlot, OutTook
<1> QED BY <1>1, <1>2, <1>3, Zenon DEF LinkInv

LEMMA BreakStep ==
  ASSUME LinkInv, NEW s \in Streams, Break(s)
  PROVE  LinkInv'
<1>0. /\ Drop(s)
      /\ UNCHANGED <<queue, sem, produced, wpc, out, rpc, in, received, handed, slot, pending,
                     lpc, offer>>
  BY Zenon DEF Break, qs, writers, readers
<1>1. data' \in [Streams -> [Sides -> Seq(Nat)]] /\ SemCounts' /\ Answered' /\ InOrder'
      /\ Unaccepted' /\ Older'
  BY <1>0, Dropped, Zenon
<1>2. Typed'
  BY <1>0, <1>1, Zenon DEF LinkInv, Typed
<1>3. HandedOver'
  BY <1>0, Frames, Zenon
<1> QED BY <1>1, <1>2, <1>3, Zenon DEF LinkInv

LEMMA SetInStreamStep ==
  ASSUME LinkInv, SetInStream
  PROVE  LinkInv'
<1> DEFINE e == <<"in", "parent">>
           took == <<"inTook", "parent">>
<1>0. /\ lpc = "in" /\ lpc' = "inWait" /\ offer # None
      /\ UNCHANGED <<data, broken, queue, sem, produced, wpc, out, rpc, in, received, handed,
                     offer, pending>>
  BY Zenon DEF SetInStream, net, qs, writers, readers, LinkInv, HandedOver
<1>00. e \in Events /\ took \in Events /\ e # took /\ offer \in MaybeStream /\ HandOver(e, took, offer)
  BY EventsApart, Zenon DEF LinkInv, Typed, SetInStream
<1>01. /\ slot' \in [Events -> Slot] /\ slot[e].frozen
       /\ slot'[e].ret = offer /\ slot'[e].notified /\ slot'[e].frozen
       /\ slot'[took] = Frozen
       /\ \A f \in Events \ {e, took} : slot'[f] = slot[f]
  BY <1>00, HandOverSlots, Zenon
<1>1. Typed'
  BY <1>0, <1>01, Zenon DEF LinkInv, Typed, ListenerPC
<1>2. SemCounts' /\ Answered' /\ InOrder' /\ Older'
  BY <1>0, Frames, Zenon
<1>3. HandedOver'
  <2>1. /\ UNCHANGED <<OutSlot, OutTook, slot[<<"out", "parent">>]>>
        /\ InTook' = Frozen /\ ~Frozen.notified /\ InSlot'.ret = offer /\ InSlot.frozen
    BY <1>00, <1>01, EventsApart, Zenon DEF InSlot, InTook, OutSlot, OutTook, Frozen
  <2> QED BY <1>0, <2>1, Zenon DEF LinkInv, HandedOver
<1>4. Unaccepted'
  <2>1. pending # None => \A f \in Events : slot'[f].ret # pending
    <3>1. Frozen.ret = None
      BY Zenon DEF Frozen
    <3> QED BY <1>01, <3>1, Zenon DEF LinkInv, Unaccepted
  <2> QED BY <1>0, <2>1, Zenon DEF LinkInv, Unaccepted
<1> QED BY <1>1, <1>2, <1>3, <1>4, Zenon DEF LinkInv

LEMMA SetInStreamDoneStep ==
  ASSUME LinkInv, SetInStreamDone
  PROVE  LinkInv'
<1> DEFINE e == <<"inTook", "parent">>
<1>0. /\ lpc = "inWait" /\ lpc' = "out" /\ offer # None
      /\ UNCHANGED <<data, broken, queue, sem, produced, wpc, out, rpc, in, received, handed,
                     offer, pending>>
  BY Zenon DEF SetInStreamDone, net, qs, writers, readers, LinkInv, HandedOver
<1>00. /\ e \in Events /\ slot[e].notified /\ slot' \in [Events -> Slot] /\ slot'[e] = Idle
       /\ \A f \in Events \ {e} : slot'[f] = slot[f]
       /\ pending # None => \A f \in Events : slot'[f].ret # pending
  BY EventsApart, WokenSlots, Zenon DEF SetInStreamDone
<1>1. Typed'
  BY <1>0, <1>00, Zenon DEF LinkInv, Typed, ListenerPC
<1>2. SemCounts' /\ Answered' /\ InOrder' /\ Older'
  BY <1>0, Frames, Zenon
<1>3. HandedOver'
  <2>1. /\ UNCHANGED <<InSlot, OutSlot, OutTook, slot[<<"out", "parent">>]>>
        /\ InTook' = Idle /\ ~Idle.notified /\ InTook.notified
    BY <1>00, EventsApart, Zenon DEF InSlot, InTook, OutSlot, OutTook, Idle
  <2> QED BY <1>0, <2>1, Zenon DEF LinkInv, HandedOver
<1>4. Unaccepted'
  BY <1>0, <1>00, Zenon DEF LinkInv, Unaccepted
<1> QED BY <1>1, <1>2, <1>3, <1>4, Zenon DEF LinkInv

LEMMA SetOutStreamStep ==
  ASSUME LinkInv, SetOutStream
  PROVE  LinkInv'
<1> DEFINE e == <<"out", "parent">>
           took == <<"outTook", "parent">>
<1>0. /\ lpc = "out" /\ lpc' = "outWait" /\ offer # None
      /\ UNCHANGED <<data, broken, queue, sem, produced, wpc, out, rpc, in, received, handed,
                     offer, pending>>
  BY Zenon DEF SetOutStream, net, qs, writers, readers, LinkInv, HandedOver
<1>00. e \in Events /\ took \in Events /\ e # took /\ offer \in MaybeStream /\ HandOver(e, took, offer)
  BY EventsApart, Zenon DEF LinkInv, Typed, SetOutStream
<1>01. /\ slot' \in [Events -> Slot] /\ slot[e].frozen
       /\ slot'[e].ret = offer /\ slot'[e].notified /\ slot'[e].frozen
       /\ slot'[took] = Frozen
       /\ \A f \in Events \ {e, took} : slot'[f] = slot[f]
  BY <1>00, HandOverSlots, Zenon
<1>1. Typed'
  BY <1>0, <1>01, Zenon DEF LinkInv, Typed, ListenerPC
<1>2. SemCounts' /\ Answered' /\ InOrder' /\ Older'
  BY <1>0, Frames, Zenon
<1>3. HandedOver'
  <2>1. UNCHANGED <<InSlot, InTook, OutSlot, OutTook>>
    BY <1>00, <1>01, EventsApart, Zenon DEF InSlot, InTook, OutSlot, OutTook
  <2> QED BY <1>0, <1>01, <2>1, Zenon DEF LinkInv, HandedOver
<1>4. Unaccepted'
  <2>1. pending # None => \A f \in Events : slot'[f].ret # pending
    <3>1. Frozen.ret = None
      BY Zenon DEF Frozen
    <3> QED BY <1>01, <3>1, Zenon DEF LinkInv, Unaccepted
  <2> QED BY <1>0, <2>1, Zenon DEF LinkInv, Unaccepted
<1> QED BY <1>1, <1>2, <1>3, <1>4, Zenon DEF LinkInv

LEMMA SetOutStreamDoneStep ==
  ASSUME LinkInv, SetOutStreamDone
  PROVE  LinkInv'
<1> DEFINE e == <<"outTook", "parent">>
<1>0. /\ lpc = "outWait" /\ lpc' = "accept" /\ offer' = None
      /\ UNCHANGED <<data, broken, queue, sem, produced, wpc, out, rpc, in, received, handed,
                     pending>>
  BY Zenon DEF SetOutStreamDone, net, qs, writers, readers
<1>00. /\ e \in Events /\ slot' \in [Events -> Slot]
       /\ \A f \in Events \ {e} : slot'[f] = slot[f]
       /\ pending # None => \A f \in Events : slot'[f].ret # pending
  BY EventsApart, WokenSlots, Zenon DEF SetOutStreamDone
<1>1. Typed'
  BY <1>0, <1>00, Zenon DEF LinkInv, Typed, ListenerPC, MaybeStream
<1>2. SemCounts' /\ Answered' /\ InOrder'
  BY <1>0, Frames, Zenon
<1>3. HandedOver'
  <2>1. UNCHANGED <<InSlot, InTook, OutSlot, OutTook, slot[<<"out", "parent">>]>>
    BY <1>00, EventsApart, Zenon DEF InSlot, InTook, OutSlot, OutTook
  <2> QED BY <1>0, <2>1, Zenon DEF LinkInv, HandedOver
<1>4. Unaccepted'
  BY <1>0, <1>00, Zenon DEF LinkInv, Unaccepted
<1>5. Older'
  BY <1>0, Zenon DEF Older, NewStream
<1> QED BY <1>1, <1>2, <1>3, <1>4, <1>5, Zenon DEF LinkInv

(***************************************************************************)
(* The theorems.                                                           *)
(***************************************************************************)
LEMMA LinkInit_LinkInv ==
  ASSUME LinkInit
  PROVE  LinkInv
<1>1. First \in Streams
  BY StreamsAssumption, Zenon DEF First
<1>2. Idle \in Slot /\ ~Idle.frozen /\ ~Idle.notified /\ None \in MaybeStream
  BY Zenon DEF Idle, Slot, MaybeStream
<1>3. << >> \in Seq(Nat) /\ Len(<< >>) = 0
  OBVIOUS
<1>4. Typed
  BY <1>1, <1>2, <1>3, Zenon DEF LinkInit, Typed, WriterPC, ReaderPC, ListenerPC, MaybeStream
<1>5. SemCounts
  BY <1>3 DEF LinkInit, SemCounts
<1>6. HandedOver
  BY <1>2, EventsApart, Zenon DEF LinkInit, HandedOver, InSlot, InTook, OutSlot, OutTook
<1>7. Unaccepted /\ Older
  BY Zenon DEF LinkInit, Unaccepted, Older, NewStream
<1>8. Answered
  BY <1>1, EventsApart DEF LinkInit, Answered, Clean
<1>9. InOrder
  <2>1. /\ Ordered(<< >>) /\ Clean(<< >>) /\ UpTo(<< >>, 0) /\ Before(<< >>, << >>)
    BY <1>3, EmptySeq, Zenon
  <2>2. \A x \in Sides : Other(x) \in Sides
    BY Zenon DEF Other, Sides
  <2> QED BY <1>1, <2>1, <2>2, Zenon DEF LinkInit, InOrder
<1> QED BY <1>4, <1>5, <1>6, <1>7, <1>8, <1>9, Zenon DEF LinkInv

LEMMA LinkNext_LinkInv ==
  ASSUME LinkInv, [LinkNext]_linkVars
  PROVE  LinkInv'
<1>1. ASSUME NEW x \in Sides, Produce(x)
      PROVE  LinkInv'
  BY <1>1, ProduceStep, Zenon
<1>2. ASSUME NEW x \in Sides, Writer(x)
      PROVE  LinkInv'
  BY <1>2, ConsumeStep, WriteReleaseStep, WriteStep, WriteFailsStep, WriterRecoverStep,
     WriterTakeStep, WriterTookStep, Zenon DEF Writer
<1>3. CASE Purifier
  BY <1>3, EventsApart, ReadStep, ReadFailsStep, ReleasePeerStep, ConnectStep, HelloStep,
     PurifierHandOverStep, PurifierDoneStep, Zenon DEF Purifier
<1>4. CASE Reader
  BY <1>4, EventsApart, ReadStep, ReadFailsStep, ReleasePeerStep, ReaderFreezeStep,
     ReaderTakeStep, ReaderTookStep, Zenon DEF Reader
<1>5. CASE Listener
  BY <1>5, AcceptStep, StartRoutingStep, StartRoutingFailsStep, SetInStreamStep,
     SetInStreamDoneStep, SetOutStreamStep, SetOutStreamDoneStep, Zenon DEF Listener
<1>6. ASSUME NEW s \in Streams, Break(s)
      PROVE  LinkInv'
  BY <1>6, BreakStep, Zenon
<1>7. CASE UNCHANGED linkVars
  <2>1. Typed'
    BY <1>7, Zenon DEF LinkInv, Typed, linkVars, net, qs, writers, readers
  <2>2. SemCounts' /\ HandedOver' /\ Unaccepted' /\ Answered' /\ InOrder' /\ Older'
    BY <1>7, Frames, Zenon DEF linkVars, net, qs, writers, readers
  <2> QED BY <2>1, <2>2, Zenon DEF LinkInv
<1> QED BY <1>1, <1>2, <1>3, <1>4, <1>5, <1>6, <1>7, Zenon DEF LinkNext

(* The inductive invariant of a connection and its recovery. *)
THEOREM LinkInductive == LinkSpec => []LinkInv
<1>1. LinkInit => LinkInv
  BY LinkInit_LinkInv, Zenon
<1>2. LinkInv /\ [LinkNext]_linkVars => LinkInv'
  BY LinkNext_LinkInv, Zenon
<1> QED BY <1>1, <1>2, PTL DEF LinkSpec

(* For every number of messages, breaks and dropped connections, the       *)
(* semaphore of a MessageQueue counts the messages in it but the one that  *)
(* the Writer is at (MessageQueue::produce, consume and remove, and        *)
(* WriterProcessor::recover, which posts it again).                        *)
THEOREM SemaphoreExact == LinkSpec => []SemCounts
<1>1. LinkInv => SemCounts
  BY Zenon DEF LinkInv
<1> QED BY <1>1, LinkInductive, PTL

(* For every number of messages, breaks and dropped connections, each side *)
(* reads the messages of the other in order and none of them twice, though *)
(* a write that failed is repeated on the next stream and though streams   *)
(* are handed over between threads (WriterProcessor::recover,              *)
(* ReaderProcessor::recover, PurifierProcessor::recover, Listener).        *)
THEOREM ArrivesInOrder == LinkSpec => []InOrderOnce
<1>1. LinkInv => InOrderOnce
  <2> SUFFICES ASSUME LinkInv, NEW x \in Sides,
                      NEW i \in DOMAIN received[x], NEW j \in DOMAIN received[x], i < j
               PROVE  received[x][i] < received[x][j]
    BY Zenon DEF InOrderOnce
  <2>1. Other(x) \in Sides /\ Other(Other(x)) = x /\ received[x] \in Seq(Nat)
    BY Zenon DEF Other, Sides, LinkInv, Typed
  <2>2. Ordered(received[x]) /\ Clean(received[x])
    BY <2>1, Zenon DEF LinkInv, InOrder
  <2> QED BY <2>1, <2>2 DEF Ordered, Clean
<1> QED BY <1>1, LinkInductive, PTL
=============================================================================
