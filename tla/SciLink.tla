------------------------------ MODULE SciLink -------------------------------
(***************************************************************************)
(* The connection of a parent and a back end in SCI, and its recovery.     *)
(*                                                                         *)
(* The parent has a Writer that empties the queue of the child into a      *)
(* stream, a Reader on the same stream, and a Listener that accepts        *)
(* connections and hands a new stream to the Reader and then to the Writer *)
(* (writerproc.cpp, readerproc.cpp, listener.cpp, routinglist.cpp).  The   *)
(* child has a Writer and a Purifier, which reads and, when its stream     *)
(* breaks, connects again and hands its Writer the stream                  *)
(* (purifierproc.cpp).  A thread that waits for a stream is frozen in      *)
(* EventNotify (eventntf.cpp); the one that hands it over freezes in turn  *)
(* until the stream has been taken.                                        *)
(*                                                                         *)
(* Recovery is enabled and nobody terminates.                              *)
(***************************************************************************)
EXTENDS Integers, Sequences, FiniteSets

CONSTANTS
  Streams,      \* connections; an id is used again when nobody has it
  Loads         \* bounds: messages of each side, breaks, and drops by the Listener

VARIABLES
  broken,       \* connections that are broken
  closed,       \* for each connection, the sides that stopped writing
  data,         \* for each connection and side, what it wrote and is unread
  queue, sem,   \* MessageQueue of the Writer of each side
  wpc, out,     \* the Writer of each side and its outStream
  recoverState, releaseState,
  rpc, in,      \* the Reader of the parent and the Purifier, and inStream
  slot,         \* the events of EventNotify, by what is waited for
  lpc, offer,   \* the Listener and the stream it deals with
  pending,      \* the stream on which the child waits for the Listener
  load,         \* the one of Loads that this is about
  produced,     \* how many messages each side has produced
  handed,       \* the stream that the Reader was handed and is to take
  received,     \* what each side has read
  lost,         \* for each side, what it wrote into connections that went
  breaks,       \* how many connections have broken
  drops         \* how many the Listener has dropped, if that is bounded

net == <<broken, closed, data, lost, breaks>>
qs == <<queue, sem, produced, load>>
writers == <<wpc, out, recoverState, releaseState>>
readers == <<rpc, in, received, handed>>
linkVars == <<net, qs, writers, readers, slot, lpc, offer, pending, drops>>

Sides == {"parent", "child"}
Other(x) == IF x = "parent" THEN "child" ELSE "parent"
None == 0
Unbounded == -1
RELEASE == 0

ASSUME StreamsAssumption == Streams # {} /\ None \notin Streams

(* What a thread freezes for: a stream to read or to write, and that the   *)
(* Reader or the Writer has taken the stream it was handed.                *)
Events == {"in", "inTook", "out", "outTook"} \X Sides

(***************************************************************************)
(* EventNotify.                                                            *)
(***************************************************************************)
Idle == [frozen |-> FALSE, notified |-> FALSE, ret |-> None]
Frozen == [frozen |-> TRUE, notified |-> FALSE, ret |-> None]

freeze(e) == slot' = [slot EXCEPT ![e] = Frozen]

(* notify waits until somebody is frozen. *)
notify(e) ==
  /\ slot[e].frozen
  /\ slot' = [slot EXCEPT ![e].notified = TRUE]

(* Mutant: the stream is not stored. *)
HandOverUnset(e, took, st) ==
  /\ slot[e].frozen
  /\ slot' = [slot EXCEPT ![e].notified = TRUE, ![took] = Frozen]

(* st is handed to the one frozen for e, and its taker is waited for. *)
HandOver(e, took, st) ==
  /\ slot[e].frozen
  /\ slot' = [slot EXCEPT ![e].ret = st, ![e].notified = TRUE, ![took] = Frozen]

(* freeze returns; the event is released and the next one allocated. *)
Woken(e) ==
  /\ slot[e].notified
  /\ slot' = [slot EXCEPT ![e] = Idle]

(***************************************************************************)
(* Connections.                                                            *)
(***************************************************************************)
InUse == {in[x] : x \in Sides} \cup {out[x] : x \in Sides} \cup {offer, pending, handed}
         \cup {slot[e].ret : e \in Events}
Fresh == Streams \ InUse

Numbers(q) == {q[i] : i \in DOMAIN q} \ {RELEASE}

(* s is no more for either side, with what is unread. *)
Drop(s) ==
  /\ broken' = broken \cup {s}
  /\ closed' = [closed EXCEPT ![s] = {}]
  /\ data' = [data EXCEPT ![s] = [x \in Sides |-> <<>>]]
  /\ lost' = [x \in Sides |-> lost[x] \cup Numbers(data[s][x])]

Break(s) ==
  /\ s \in InUse /\ s \notin broken /\ breaks < load.breaks
  /\ Drop(s)
  /\ breaks' = breaks + 1
  /\ UNCHANGED <<qs, writers, readers, slot, lpc, offer, pending, drops>>

(***************************************************************************)
(* Writers.                                                                *)
(***************************************************************************)
Produce(x) ==
  /\ produced[x] < load[x]
  /\ produced' = [produced EXCEPT ![x] = @ + 1]
  /\ queue' = [queue EXCEPT ![x] = Append(@, produced[x] + 1)]
  /\ sem' = [sem EXCEPT ![x] = @ + 1]
  /\ UNCHANGED <<load, net, writers, readers, slot, lpc, offer, pending, drops>>

(* The message stays in the queue while it is written. *)
Consume(x) ==
  /\ wpc[x] = "read" /\ sem[x] > 0
  /\ sem' = [sem EXCEPT ![x] = @ - 1]
  /\ wpc' = [wpc EXCEPT ![x] = IF queue[x] = <<>> THEN "read" ELSE "write"]
  /\ UNCHANGED <<net, queue, produced, load, out, recoverState, releaseState, readers, slot,
                 lpc, offer, pending, drops>>

remove(x) == queue' = [queue EXCEPT ![x] = Tail(@)] /\ UNCHANGED sem

WriteRelease(x) ==
  /\ wpc[x] = "write" /\ Head(queue[x]) = RELEASE
  /\ remove(x)
  /\ wpc' = [wpc EXCEPT ![x] = IF releaseState[x] THEN "recover" ELSE "read"]
  /\ UNCHANGED <<net, produced, load, out, recoverState, releaseState, readers, slot,
                 lpc, offer, pending, drops>>

(* Into a broken connection too a message may be written, and is lost. *)
Write(x) ==
  /\ wpc[x] = "write" /\ Head(queue[x]) # RELEASE
  /\ IF out[x] \in broken
     THEN lost' = [lost EXCEPT ![x] = @ \cup {Head(queue[x])}] /\ UNCHANGED data
     ELSE data' = [data EXCEPT ![out[x]][x] = Append(@, Head(queue[x]))] /\ UNCHANGED lost
  /\ remove(x)
  /\ wpc' = [wpc EXCEPT ![x] = "read"]
  /\ UNCHANGED <<broken, closed, breaks, produced, load, out, recoverState, releaseState,
                 readers, slot, lpc, offer, pending, drops>>

(* Mutant: the semaphore is not posted again. *)
WriteFailsSilent(x) ==
  /\ wpc[x] = "write" /\ Head(queue[x]) # RELEASE
  /\ out[x] \in broken
  /\ wpc' = [wpc EXCEPT ![x] = "recover"]
  /\ UNCHANGED <<net, qs, out, recoverState, releaseState, readers, slot,
                 lpc, offer, pending, drops>>

(* Mutant: the message is removed. *)
WriteFailsRemoved(x) ==
  /\ wpc[x] = "write" /\ Head(queue[x]) # RELEASE
  /\ out[x] \in broken
  /\ remove(x)
  /\ wpc' = [wpc EXCEPT ![x] = "recover"]
  /\ UNCHANGED <<net, produced, load, out, recoverState, releaseState, readers, slot,
                 lpc, offer, pending, drops>>

(* Mutant: the message goes to the end of the queue. *)
WriteFailsRequeued(x) ==
  /\ wpc[x] = "write" /\ Head(queue[x]) # RELEASE
  /\ out[x] \in broken
  /\ queue' = [queue EXCEPT ![x] = Append(Tail(@), Head(@))]
  /\ sem' = [sem EXCEPT ![x] = @ + 1]
  /\ wpc' = [wpc EXCEPT ![x] = "recover"]
  /\ UNCHANGED <<net, produced, load, out, recoverState, releaseState, readers, slot,
                 lpc, offer, pending, drops>>

(* The message is left where it is and the semaphore posted again. *)
WriteFails(x) ==
  /\ wpc[x] = "write" /\ Head(queue[x]) # RELEASE
  /\ out[x] \in broken
  /\ sem' = [sem EXCEPT ![x] = @ + 1]
  /\ wpc' = [wpc EXCEPT ![x] = "recover"]
  /\ UNCHANGED <<net, queue, produced, load, out, recoverState, releaseState, readers, slot,
                 lpc, offer, pending, drops>>

(* WriterProcessor::recover: stop writing and wait for a stream, ... *)
WriterRecover(x) ==
  /\ wpc[x] = "recover"
  /\ closed' = [closed EXCEPT ![out[x]] = IF out[x] \in broken THEN {} ELSE @ \cup {x}]
  /\ recoverState' = [recoverState EXCEPT ![x] = TRUE]
  /\ freeze(<<"out", x>>)
  /\ wpc' = [wpc EXCEPT ![x] = "frozen"]
  /\ UNCHANGED <<broken, data, lost, breaks, qs, out, releaseState, readers,
                 lpc, offer, pending, drops>>

(* ... take it and delete the old one, ... *)
WriterTake(x) ==
  LET st == slot[<<"out", x>>].ret
  IN  /\ wpc[x] = "frozen"
      /\ Woken(<<"out", x>>)
      /\ out' = [out EXCEPT ![x] = st]
      /\ releaseState' = [releaseState EXCEPT ![x] = FALSE]
      /\ recoverState' = [recoverState EXCEPT ![x] = FALSE]
      /\ wpc' = [wpc EXCEPT ![x] = "took"]
      /\ UNCHANGED <<net, qs, readers, lpc, offer, pending, drops>>

(* ... and notify the one who handed it over. *)
WriterTook(x) ==
  /\ wpc[x] = "took"
  /\ notify(<<"outTook", x>>)
  /\ wpc' = [wpc EXCEPT ![x] = "read"]
  /\ UNCHANGED <<net, qs, out, recoverState, releaseState, readers, lpc, offer, pending, drops>>

(***************************************************************************)
(* The Reader of the parent and the Purifier of the child.                 *)
(***************************************************************************)
Read(x) ==
  LET from == data[in[x]][Other(x)]
  IN  /\ rpc[x] = "read" /\ from # <<>>
      /\ received' = [received EXCEPT ![x] = Append(@, Head(from))]
      /\ data' = [data EXCEPT ![in[x]][Other(x)] = Tail(@)]
      /\ UNCHANGED <<broken, closed, lost, breaks, qs, writers, rpc, in, handed, slot,
                     lpc, offer, pending, drops>>

(* Mutant: the Writer is expected to find out by itself. *)
ReadFailsAlone(x) ==
  /\ rpc[x] = "read" /\ data[in[x]][Other(x)] = <<>>
  /\ in[x] \in broken \/ Other(x) \in closed[in[x]]
  /\ rpc' = [rpc EXCEPT ![x] = "await"]
  /\ UNCHANGED <<net, qs, writers, in, received, handed, slot, lpc, offer, pending, drops>>

(* The connection is broken, or its end is reached: recover looks whether  *)
(* the Writer knows ...                                                    *)
ReadFails(x) ==
  /\ rpc[x] = "read" /\ data[in[x]][Other(x)] = <<>>
  /\ in[x] \in broken \/ Other(x) \in closed[in[x]]
  /\ rpc' = [rpc EXCEPT ![x] = IF recoverState[x] THEN "await" ELSE "release"]
  /\ UNCHANGED <<net, qs, writers, in, received, handed, slot, lpc, offer, pending, drops>>

(* ... and wakes it with a message if not, ... *)
ReleasePeer(x) ==
  /\ rpc[x] = "release"
  /\ releaseState' = [releaseState EXCEPT ![x] = TRUE]
  /\ queue' = [queue EXCEPT ![x] = Append(@, RELEASE)]
  /\ sem' = [sem EXCEPT ![x] = @ + 1]
  /\ rpc' = [rpc EXCEPT ![x] = "await"]
  /\ UNCHANGED <<net, produced, load, wpc, out, recoverState, in, received, handed, slot,
                 lpc, offer, pending, drops>>

(* ... waits until it recovers, and then, as the Reader, for a stream, ... *)
ReaderFreeze ==
  /\ rpc["parent"] = "await" /\ recoverState["parent"]
  /\ freeze(<<"in", "parent">>)
  /\ rpc' = [rpc EXCEPT !["parent"] = "frozen"]
  /\ UNCHANGED <<net, qs, writers, in, received, handed, lpc, offer, pending, drops>>

ReaderTake ==
  /\ rpc["parent"] = "frozen"
  /\ Woken(<<"in", "parent">>)
  /\ handed' = slot[<<"in", "parent">>].ret
  /\ rpc' = [rpc EXCEPT !["parent"] = "took"]
  /\ UNCHANGED <<net, qs, writers, in, received, lpc, offer, pending, drops>>

ReaderTook ==
  /\ rpc["parent"] = "took"
  /\ notify(<<"inTook", "parent">>)
  /\ in' = [in EXCEPT !["parent"] = handed]
  /\ handed' = None
  /\ rpc' = [rpc EXCEPT !["parent"] = "read"]
  /\ UNCHANGED <<net, qs, writers, received, lpc, offer, pending, drops>>

(* ... or, as the Purifier, connects, ... *)
Connect ==
  LET s == CHOOSE t \in Fresh : TRUE IN
    /\ rpc["child"] = "await" /\ recoverState["child"]
    /\ Fresh # {}
    /\ broken' = broken \ Fresh
    /\ closed' = [t \in Streams |-> IF t \in Fresh THEN {} ELSE closed[t]]
    /\ data' = [data EXCEPT ![s] = [x \in Sides |-> <<>>]]
    /\ in' = [in EXCEPT !["child"] = s]
    /\ pending' = s
    /\ rpc' = [rpc EXCEPT !["child"] = "hello"]
    /\ UNCHANGED <<lost, breaks, qs, writers, received, handed, slot, lpc, offer, drops>>

(* ... and waits for the Listener's answer; connectParent tries again.     *)
Hello ==
  LET s == in["child"]
  IN  /\ rpc["child"] = "hello"
      /\ \/ /\ data[s]["parent"] # <<>>
            /\ data' = [data EXCEPT ![s]["parent"] = Tail(@)]
            /\ rpc' = [rpc EXCEPT !["child"] = "out"]
         \/ /\ data[s]["parent"] = <<>> /\ s \in broken
            /\ rpc' = [rpc EXCEPT !["child"] = "await"]
            /\ UNCHANGED data
      /\ UNCHANGED <<broken, closed, lost, breaks, qs, writers, in, received, handed, slot,
                     lpc, offer, pending, drops>>

(* setOutStream at the child. *)
PurifierHandOver ==
  /\ rpc["child"] = "out"
  /\ HandOver(<<"out", "child">>, <<"outTook", "child">>, in["child"])
  /\ rpc' = [rpc EXCEPT !["child"] = "outWait"]
  /\ UNCHANGED <<net, qs, writers, in, received, handed, lpc, offer, pending, drops>>

PurifierDone ==
  /\ rpc["child"] = "outWait"
  /\ Woken(<<"outTook", "child">>)
  /\ rpc' = [rpc EXCEPT !["child"] = "read"]
  /\ UNCHANGED <<net, qs, writers, in, received, handed, lpc, offer, pending, drops>>

(***************************************************************************)
(* The Listener.                                                           *)
(***************************************************************************)
(* A connection is accepted and answered, unless it is broken again. *)
Accept ==
  /\ lpc = "accept" /\ pending # None
  /\ pending' = None
  /\ IF pending \in broken
     THEN UNCHANGED <<lpc, offer, data>>
     ELSE /\ lpc' = "route"
          /\ offer' = pending
          /\ data' = [data EXCEPT ![pending]["parent"] = Append(@, RELEASE)]
  /\ UNCHANGED <<broken, closed, lost, breaks, qs, writers, readers, slot, drops>>

(* Mutant: without setInStream. *)
StartRoutingOut ==
  /\ lpc = "route" /\ recoverState["parent"]
  /\ lpc' = "out"
  /\ UNCHANGED <<net, qs, writers, readers, slot, offer, pending, drops>>

(* startRouting waits until the Writer recovers ... *)
StartRouting ==
  /\ lpc = "route" /\ recoverState["parent"]
  /\ lpc' = "in"
  /\ UNCHANGED <<net, qs, writers, readers, slot, offer, pending, drops>>

(* ... for 5000 intervals; then the connection is dropped. *)
StartRoutingFails ==
  /\ lpc = "route" /\ ~recoverState["parent"]
  /\ load.drops = Unbounded \/ drops < load.drops
  /\ drops' = IF load.drops = Unbounded THEN drops ELSE drops + 1
  /\ Drop(offer)
  /\ offer' = None
  /\ lpc' = "accept"
  /\ UNCHANGED <<breaks, qs, writers, readers, slot, pending>>

(* setOutStream: first the Reader gets the stream by setInStream, ... *)
SetInStream ==
  /\ lpc = "in"
  /\ HandOver(<<"in", "parent">>, <<"inTook", "parent">>, offer)
  /\ lpc' = "inWait"
  /\ UNCHANGED <<net, qs, writers, readers, offer, pending, drops>>

(* Mutant: the Writer is left out. *)
SetInStreamOnly ==
  /\ lpc = "inWait"
  /\ Woken(<<"inTook", "parent">>)
  /\ lpc' = "accept"
  /\ offer' = None
  /\ UNCHANGED <<net, qs, writers, readers, pending, drops>>

SetInStreamDone ==
  /\ lpc = "inWait"
  /\ Woken(<<"inTook", "parent">>)
  /\ lpc' = "out"
  /\ UNCHANGED <<net, qs, writers, readers, offer, pending, drops>>

(* ... then the Writer. *)
SetOutStream ==
  /\ lpc = "out"
  /\ HandOver(<<"out", "parent">>, <<"outTook", "parent">>, offer)
  /\ lpc' = "outWait"
  /\ UNCHANGED <<net, qs, writers, readers, offer, pending, drops>>

SetOutStreamDone ==
  /\ lpc = "outWait"
  /\ Woken(<<"outTook", "parent">>)
  /\ lpc' = "accept"
  /\ offer' = None
  /\ UNCHANGED <<net, qs, writers, readers, pending, drops>>

(***************************************************************************)
(* Specification.                                                          *)
(***************************************************************************)
First == CHOOSE s \in Streams : TRUE

LinkInit ==
  /\ broken = {} /\ breaks = 0 /\ drops = 0
  /\ closed = [s \in Streams |-> {}]
  /\ data = [s \in Streams |-> [x \in Sides |-> <<>>]]
  /\ queue = [x \in Sides |-> <<>>]
  /\ sem = [x \in Sides |-> 0]
  /\ load \in Loads
  /\ produced = [x \in Sides |-> 0]
  /\ wpc = [x \in Sides |-> "read"]
  /\ out = [x \in Sides |-> First]
  /\ recoverState = [x \in Sides |-> FALSE]
  /\ releaseState = [x \in Sides |-> FALSE]
  /\ rpc = [x \in Sides |-> "read"]
  /\ in = [x \in Sides |-> First]
  /\ slot = [e \in Events |-> Idle]
  /\ lpc = "accept" /\ offer = None /\ pending = None /\ handed = None
  /\ received = [x \in Sides |-> <<>>]
  /\ lost = [x \in Sides |-> {}]

Writer(x) ==
  \/ Consume(x) \/ WriteRelease(x) \/ Write(x) \/ WriteFails(x)
  \/ WriterRecover(x) \/ WriterTake(x) \/ WriterTook(x)

Purifier ==
  \/ Read("child") \/ ReadFails("child") \/ ReleasePeer("child")
  \/ Connect \/ Hello \/ PurifierHandOver \/ PurifierDone

Reader ==
  \/ Read("parent") \/ ReadFails("parent") \/ ReleasePeer("parent")
  \/ ReaderFreeze \/ ReaderTake \/ ReaderTook

Listener ==
  \/ Accept \/ StartRouting \/ StartRoutingFails
  \/ SetInStream \/ SetInStreamDone \/ SetOutStream \/ SetOutStreamDone

LinkNext ==
  \/ \E x \in Sides : Produce(x) \/ Writer(x)
  \/ Purifier \/ Reader \/ Listener
  \/ \E s \in Streams : Break(s)

(* Threads run; nothing has to be sent and no connection has to break. *)
LinkFairness ==
  /\ \A x \in Sides : WF_linkVars(Writer(x))
  /\ WF_linkVars(Purifier) /\ WF_linkVars(Reader) /\ WF_linkVars(Listener)

LinkSpec == LinkInit /\ [][LinkNext]_linkVars /\ LinkFairness

(***************************************************************************)
(* Properties.                                                             *)
(***************************************************************************)
LinkTypeOK ==
  /\ broken \subseteq Streams /\ breaks \in 0..load.breaks
  /\ \A x \in Sides :
       /\ in[x] \in Streams /\ out[x] \in Streams
       /\ wpc[x] \in {"read", "write", "recover", "frozen", "took"}
       /\ rpc[x] \in {"read", "release", "await", "frozen", "took", "hello", "out", "outWait"}
       /\ sem[x] \in Nat /\ Numbers(queue[x]) \subseteq 1..load[x]
  /\ offer \in Streams \cup {None} /\ pending \in Streams \cup {None}
  /\ \A e \in Events : slot[e].ret \in Streams \cup {None}

(* The semaphore of a MessageQueue counts its messages, apart from the one *)
(* that the Writer is at, also after failed writes: no message waits in a  *)
(* queue without the Writer being woken for it.                            *)
SemCounts ==
  \A x \in Sides : sem[x] + (IF wpc[x] = "write" THEN 1 ELSE 0) = Len(queue[x])

(* However often the connection breaks and messages are written again,     *)
(* each side reads the other's in order and none of them twice.            *)
InOrderOnce ==
  \A x \in Sides : \A i, j \in DOMAIN received[x] : i < j => received[x][i] < received[x][j]

(* A message is in the queue, on its way, or has been read, unless it was  *)
(* in a connection when that broke or was dropped.                         *)
Accounted ==
  \A x \in Sides :
    1..produced[x] = Numbers(queue[x]) \cup Numbers(received[Other(x)]) \cup lost[x]
                       \cup UNION {Numbers(data[s][x]) : s \in Streams}

(* WriterProcessor::recover deletes its old Stream, which the Reader or    *)
(* the Purifier has too: not while that one still reads it.                *)
DeletesUnread ==
  [][\A x \in Sides : out'[x] # out[x] => ~(rpc[x] = "read" /\ in[x] = out[x])]_linkVars

(* Outside of the hand-over, the Reader and the Writer of the parent have  *)
(* the same stream.                                                        *)
Paired == lpc \in {"accept", "route", "in"} => in["parent"] = out["parent"]

Linked ==
  /\ lpc = "accept" /\ \A x \in Sides : rpc[x] = "read" /\ ~recoverState[x]
  /\ Cardinality({in[x] : x \in Sides} \cup {out[x] : x \in Sides}) = 1
  /\ in["parent"] \notin broken

(* The Reader waits for a stream and nobody wakes the Writer: it broke     *)
(* again before the Writer had taken the stream, and found it recovering.  *)
Silent ==
  /\ rpc["parent"] \in {"await", "frozen"}
  /\ wpc["parent"] = "read" /\ queue["parent"] = <<>> /\ out["parent"] \in broken

(* When connections have stopped breaking, parent and child are linked     *)
(* again, unless the Reader waits for a Writer that waits for messages.    *)
RejoinsUnlessSilent == <>[](Linked \/ Silent)

(* purifierproc.cpp:205: "The writer thread may be in consume, which will  *)
(* not enter into recover. Need to send a notification msg to it": the     *)
(* Writer is woken, so that parent and child are linked again when         *)
(* connections have stopped breaking.                                      *)
Rejoins == <>[]Linked

=============================================================================
