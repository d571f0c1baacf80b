------------------------- MODULE MqttHandlesProofs --------------------------
(***************************************************************************)
(* Proofs about MqttHandles: one client's calls never cost another client  *)
(* a message or a token, for every number of clients.                      *)
(***************************************************************************)
EXTENDS MqttHandles, SequenceTheorems, TLAPS

-----------------------------------------------------------------------------
(* The types.                                                              *)
ClientState == [connected : BOOLEAN, closing : BOOLEAN, queue : Seq(Nat), out : SUBSET Nat]
Item        == [kind : {"message", "ack"}, n : Nat]
Stream      == [inbox : Seq(Item), eof : BOOLEAN]
Call        == [op : {"none", "receive", "wait", "disconnect", "yield"}, of : Clients,
                rc : {"ok", "error"}, token : Nat, yields : BOOLEAN]
Result      == [of : Clients, token : Nat]
History     == [sent : [Clients -> Nat], got : [Clients -> Seq(Nat)], given : [Clients -> Nat],
                acked : [Clients -> SUBSET Nat], connects : Nat, lost : Nat, wronged : BOOLEAN]

HandlesTypeOK ==
    /\ lib \in BOOLEAN /\ handles \subseteq Clients
    /\ cl \in [Clients -> ClientState] /\ streams \in [Clients -> Stream]
    /\ call \in Call /\ result \in Result /\ hist \in History

\* What is said of one client: its messages are those of MessagesInOrder, and its
\* tokens are under way or acknowledged.
InOrder(here, inbox, sent) ==
    LET messages == {i \in DOMAIN inbox : inbox[i].kind = "message"}
    IN  /\ Len(here) <= sent /\ \A i \in DOMAIN here : here[i] = i
        /\ {inbox[i].n : i \in messages} = Len(here) + 1 .. sent
        /\ \A i, j \in messages : i < j => inbox[i].n < inbox[j].n
Good(c, w, sent, got, given, acked) ==
    /\ IF c.connected THEN InOrder(got \o c.queue, w.inbox, sent) /\ 1 .. given \subseteq c.out \cup acked
                      ELSE c.queue = <<>>
    /\ \A i \in DOMAIN w.inbox : w.inbox[i].kind = "ack" => w.inbox[i].n \in acked
AllGood(s, w, h) ==
    \A x \in Clients : Good(s[x], w[x], h.sent[x], h.got[x], h.given[x], h.acked[x])

IInv ==
    /\ HandlesTypeOK
    /\ AllGood(cl, streams, hist)
    /\ call.op = "wait" => call.token \in 1 .. hist.given[call.of]
    /\ CompletionMeansAcknowledged

-----------------------------------------------------------------------------
(* Taking the first item off the streams.                                     *)

\* A message read goes to the end of the queue and stays in order.
LEMMA MessageRead ==
    ASSUME NEW here \in Seq(Nat), NEW inbox \in Seq(Item), NEW sent \in Nat, inbox # <<>>,
           InOrder(here, inbox, sent), Head(inbox).kind = "message"
    PROVE  InOrder(Append(here, Head(inbox).n), Tail(inbox), sent)
<1> DEFINE n == Head(inbox).n
           M(b) == {i \in DOMAIN b : b[i].kind = "message"}
           rest == Tail(inbox)
           more == Append(here, n)
<1>1. Len(inbox) \in Nat \ {0} /\ DOMAIN inbox = 1 .. Len(inbox) /\ Head(inbox) = inbox[1]
      /\ inbox[1] \in Item /\ n \in Nat /\ n = inbox[1].n
  <2>1. Len(inbox) \in Nat \ {0} /\ DOMAIN inbox = 1 .. Len(inbox) /\ Head(inbox) = inbox[1]
    OBVIOUS
  <2>2. inbox[1] \in Item
    BY <2>1
  <2> QED BY <2>1, <2>2 DEF Item
<1>2. rest \in Seq(Item) /\ Len(rest) = Len(inbox) - 1 /\ \A i \in 1 .. Len(rest) : rest[i] = inbox[i + 1]
  BY HeadTailProperties
<1>3. Len(more) = Len(here) + 1 /\ more[Len(here) + 1] = n /\ \A i \in 1 .. Len(here) : more[i] = here[i]
      /\ more \in Seq(Nat)
  BY <1>1 DEF Item
<1>4. \A i \in DOMAIN inbox : inbox[i].n \in Nat
  <2>1. \A i \in DOMAIN inbox : inbox[i] \in Item
    OBVIOUS
  <2> QED BY <2>1 DEF Item
<1>5. DOMAIN rest = 1 .. Len(inbox) - 1 /\ DOMAIN more = 1 .. Len(here) + 1 /\ DOMAIN here = 1 .. Len(here)
      /\ Len(here) \in Nat
  BY <1>1, <1>2, <1>3
<1> HIDE DEF rest, more, n
<1>6. Len(here) <= sent /\ (\A i \in DOMAIN here : here[i] = i) /\ {inbox[i].n : i \in M(inbox)} = Len(here) + 1 .. sent
      /\ \A i, j \in M(inbox) : i < j => inbox[i].n < inbox[j].n
  BY DEF InOrder
<1>7. 1 \in M(inbox) /\ n \in Len(here) + 1 .. sent
  BY <1>1, <1>6
<1>8. n = Len(here) + 1
  <2>1. Len(here) + 1 \in Len(here) + 1 .. sent BY <1>5, <1>7
  <2>2. PICK j \in M(inbox) : inbox[j].n = Len(here) + 1 BY <1>6, <2>1
  <2>3. CASE j = 1 BY <2>2, <2>3, <1>1
  <2>4. CASE j # 1
    <3>1. 1 < j BY <2>4, <1>1
    <3>2. n < Len(here) + 1 BY <3>1, <2>2, <1>6, <1>7, <1>1
    <3> QED BY <3>2, <1>7, <1>5
  <2> QED BY <2>3, <2>4
<1>9. \A i \in M(rest) : i + 1 \in M(inbox) /\ rest[i].n = inbox[i + 1].n /\ i \in Nat
  BY <1>1, <1>2, <1>5
<1>10. \A j \in M(inbox) : j # 1 => j - 1 \in M(rest) /\ rest[j - 1].n = inbox[j].n
  <2> SUFFICES ASSUME NEW j \in M(inbox), j # 1 PROVE j - 1 \in M(rest) /\ rest[j - 1].n = inbox[j].n
    OBVIOUS
  <2>1. j - 1 \in 1 .. Len(rest) /\ (j - 1) + 1 = j BY <1>1, <1>2
  <2> QED BY <2>1, <1>2, <1>5
<1>11. \A i \in DOMAIN more : more[i] = i
  BY <1>3, <1>5, <1>6, <1>8
<1>12. {rest[i].n : i \in M(rest)} = Len(more) + 1 .. sent
  <2>1. ASSUME NEW i \in M(rest) PROVE rest[i].n \in Len(more) + 1 .. sent
    <3>1. inbox[i + 1].n \in Len(here) + 1 .. sent BY <1>9, <1>6
    <3>2. 1 < i + 1 BY <1>9, <1>5
    <3>3. n < inbox[i + 1].n BY <3>2, <1>9, <1>7, <1>6, <1>1
    <3> QED BY <3>1, <3>3, <1>8, <1>3, <1>5, <1>9
  <2>2. ASSUME NEW m \in Len(more) + 1 .. sent PROVE \E i \in M(rest) : rest[i].n = m
    <3>1. m \in Len(here) + 1 .. sent /\ m # n BY <1>8, <1>3, <1>5
    <3>2. PICK j \in M(inbox) : inbox[j].n = m BY <3>1, <1>6
    <3>3. j # 1 BY <3>1, <3>2, <1>1
    <3> QED BY <3>2, <3>3, <1>10
  <2> QED BY <2>1, <2>2
<1>13. \A i, j \in M(rest) : i < j => rest[i].n < rest[j].n
  <2> SUFFICES ASSUME NEW i \in M(rest), NEW j \in M(rest), i < j PROVE rest[i].n < rest[j].n
    OBVIOUS
  <2>1. i + 1 < j + 1 BY <1>9
  <2> QED BY <2>1, <1>9, <1>6
<1>14. Len(more) <= sent
  BY <1>3, <1>5, <1>7, <1>8
<1> QED BY <1>11, <1>12, <1>13, <1>14 DEF InOrder, rest, more, n

\* An acknowledgement read changes nothing about the messages.
LEMMA AckRead ==
    ASSUME NEW here \in Seq(Nat), NEW inbox \in Seq(Item), NEW sent \in Nat, inbox # <<>>,
           InOrder(here, inbox, sent), Head(inbox).kind # "message"
    PROVE  InOrder(here, Tail(inbox), sent)
<1> DEFINE M(b) == {i \in DOMAIN b : b[i].kind = "message"}
           rest == Tail(inbox)
<1>1. Len(inbox) \in Nat \ {0} /\ DOMAIN inbox = 1 .. Len(inbox) /\ Head(inbox) = inbox[1]
  OBVIOUS
<1>2. rest \in Seq(Item) /\ Len(rest) = Len(inbox) - 1 /\ \A i \in 1 .. Len(rest) : rest[i] = inbox[i + 1]
  BY HeadTailProperties
<1>3. DOMAIN rest = 1 .. Len(inbox) - 1
  BY <1>1, <1>2
<1> HIDE DEF rest
<1>4. Len(here) <= sent /\ (\A i \in DOMAIN here : here[i] = i) /\ {inbox[i].n : i \in M(inbox)} = Len(here) + 1 .. sent
      /\ \A i, j \in M(inbox) : i < j => inbox[i].n < inbox[j].n
  BY DEF InOrder
<1>5. 1 \notin M(inbox) BY <1>1
<1>6. \A i \in M(rest) : i + 1 \in M(inbox) /\ rest[i].n = inbox[i + 1].n /\ i \in Nat
  <2> SUFFICES ASSUME NEW i \in M(rest) PROVE i + 1 \in M(inbox) /\ rest[i].n = inbox[i + 1].n /\ i \in Nat
    OBVIOUS
  <2>1. i \in 1 .. Len(rest) /\ i + 1 \in 1 .. Len(inbox) /\ i \in Nat BY <1>1, <1>2, <1>3
  <2> QED BY <2>1, <1>1, <1>2
<1>7. \A j \in M(inbox) : j - 1 \in M(rest) /\ rest[j - 1].n = inbox[j].n
  <2> SUFFICES ASSUME NEW j \in M(inbox) PROVE j - 1 \in M(rest) /\ rest[j - 1].n = inbox[j].n
    OBVIOUS
  <2>1. j - 1 \in 1 .. Len(rest) /\ (j - 1) + 1 = j BY <1>1, <1>2, <1>5
  <2> QED BY <2>1, <1>2, <1>3
<1>8. {rest[i].n : i \in M(rest)} = {inbox[i].n : i \in M(inbox)}
  <2>1. \A m : m \in {rest[i].n : i \in M(rest)} => m \in {inbox[i].n : i \in M(inbox)}
    BY <1>6
  <2>2. \A m : m \in {inbox[i].n : i \in M(inbox)} => m \in {rest[i].n : i \in M(rest)}
    BY <1>7
  <2> QED BY <2>1, <2>2
<1>9. \A i, j \in M(rest) : i < j => rest[i].n < rest[j].n
  <2> SUFFICES ASSUME NEW i \in M(rest), NEW j \in M(rest), i < j PROVE rest[i].n < rest[j].n
    OBVIOUS
  <2>1. i + 1 < j + 1 BY <1>6
  <2> QED BY <2>1, <1>6, <1>4
<1> QED BY <1>4, <1>8, <1>9 DEF InOrder, rest

\* The broker sends the next message.
LEMMA MessageSent ==
    ASSUME NEW here \in Seq(Nat), NEW inbox \in Seq(Item), NEW sent \in Nat, InOrder(here, inbox, sent)
    PROVE  InOrder(here, Append(inbox, [kind |-> "message", n |-> sent + 1]), sent + 1)
<1> DEFINE M(b) == {i \in DOMAIN b : b[i].kind = "message"}
           item == [kind |-> "message", n |-> sent + 1]
           more == Append(inbox, item)
           last == Len(inbox) + 1
<1>1. item \in Item /\ item.kind = "message" /\ item.n = sent + 1
  BY DEF Item
<1>2. more \in Seq(Item) /\ Len(inbox) \in Nat /\ DOMAIN more = 1 .. last /\ more[last] = item
      /\ DOMAIN inbox = 1 .. Len(inbox) /\ \A i \in DOMAIN inbox : more[i] = inbox[i]
  <2> HIDE DEF item
  <2> QED BY <1>1
<1>3. Len(here) \in Nat OBVIOUS
<1> HIDE DEF more, item
<1>4. Len(here) <= sent /\ (\A i \in DOMAIN here : here[i] = i)
      /\ {inbox[i].n : i \in M(inbox)} = Len(here) + 1 .. sent
      /\ \A i, j \in M(inbox) : i < j => inbox[i].n < inbox[j].n
  BY DEF InOrder
<1>5. \A i \in M(more) : (i \in M(inbox) /\ i \in 1 .. Len(inbox)) \/ i = last
  BY <1>2
<1>6. last \in M(more) /\ more[last].n = sent + 1
  BY <1>1, <1>2
<1>7. \A i \in M(inbox) : i \in M(more) /\ more[i].n = inbox[i].n
  BY <1>2
<1>8. {more[i].n : i \in M(more)} = Len(here) + 1 .. sent + 1
  <2>1. ASSUME NEW i \in M(more) PROVE more[i].n \in Len(here) + 1 .. sent + 1
    <3>1. CASE i = last BY <3>1, <1>6, <1>4, <1>3
    <3>2. CASE i \in M(inbox)
      <4>1. inbox[i].n \in Len(here) + 1 .. sent BY <3>2, <1>4
      <4> QED BY <4>1, <3>2, <1>7, <1>3
    <3> QED BY <3>1, <3>2, <1>5
  <2>2. ASSUME NEW m \in Len(here) + 1 .. sent + 1 PROVE \E i \in M(more) : more[i].n = m
    <3>1. CASE m = sent + 1 BY <3>1, <1>6
    <3>2. CASE m # sent + 1
      <4>1. m \in Len(here) + 1 .. sent BY <3>2, <1>3
      <4>2. PICK i \in M(inbox) : inbox[i].n = m BY <4>1, <1>4
      <4> QED BY <4>2, <1>7
    <3> QED BY <3>1, <3>2
  <2> QED BY <2>1, <2>2
<1>9. \A i, j \in M(more) : i < j => more[i].n < more[j].n
  <2> SUFFICES ASSUME NEW i \in M(more), NEW j \in M(more), i < j PROVE more[i].n < more[j].n
    OBVIOUS
  <2>1. i \in M(inbox) BY <1>5, <1>2
  <2>2. inbox[i].n \in Len(here) + 1 .. sent BY <2>1, <1>4
  <2>3. CASE j = last BY <2>1, <2>2, <2>3, <1>6, <1>7, <1>3
  <2>4. CASE j \in M(inbox) BY <2>1, <2>4, <1>4, <1>7
  <2> QED BY <2>3, <2>4, <1>5
<1>10. Len(here) <= sent + 1
  BY <1>3, <1>4
<1> QED BY <1>4, <1>8, <1>9, <1>10 DEF InOrder, more, item

\* The broker acknowledges a token.
LEMMA AckSent ==
    ASSUME NEW here \in Seq(Nat), NEW inbox \in Seq(Item), NEW sent \in Nat, InOrder(here, inbox, sent),
           NEW t \in Nat
    PROVE  InOrder(here, Append(inbox, [kind |-> "ack", n |-> t]), sent)
<1> DEFINE M(b) == {i \in DOMAIN b : b[i].kind = "message"}
           item == [kind |-> "ack", n |-> t]
           more == Append(inbox, item)
           last == Len(inbox) + 1
<1>1. item \in Item /\ item.kind # "message"
  BY DEF Item
<1>2. more \in Seq(Item) /\ Len(inbox) \in Nat /\ DOMAIN more = 1 .. last /\ more[last] = item
      /\ DOMAIN inbox = 1 .. Len(inbox) /\ \A i \in DOMAIN inbox : more[i] = inbox[i]
  <2> HIDE DEF item
  <2> QED BY <1>1
<1> HIDE DEF more, item
<1>3. M(more) = M(inbox)
  BY <1>1, <1>2
<1>4. \A i \in M(inbox) : more[i].n = inbox[i].n
  BY <1>2
<1> QED BY <1>3, <1>4 DEF InOrder, more, item

\* A message taken from the queue is the next one the application has.
LEMMA MessageTaken ==
    ASSUME NEW got \in Seq(Nat), NEW queue \in Seq(Nat), queue # <<>>
    PROVE  Append(got, Head(queue)) \o Tail(queue) = got \o queue
<1>1. queue = <<Head(queue)>> \o Tail(queue) /\ Tail(queue) \in Seq(Nat) /\ Head(queue) \in Nat
  BY HeadTailProperties
<1>2. Append(got, Head(queue)) = got \o <<Head(queue)>>
  BY <1>1
<1>3. <<Head(queue)>> \in Seq(Nat)
  BY <1>1
<1>4. (got \o <<Head(queue)>>) \o Tail(queue) = got \o (<<Head(queue)>> \o Tail(queue))
  BY <1>1, <1>3, ConcatAssociative
<1> QED BY <1>1, <1>2, <1>4

\* A message put in the queue comes after all there is.
LEMMA MessageQueued ==
    ASSUME NEW got \in Seq(Nat), NEW queue \in Seq(Nat), NEW n \in Nat
    PROVE  Append(got \o queue, n) = got \o Append(queue, n)
<1>1. got \o queue \in Seq(Nat) /\ <<n>> \in Seq(Nat)
  BY ConcatProperties
<1>2. Append(got \o queue, n) = (got \o queue) \o <<n>> /\ Append(queue, n) = queue \o <<n>>
  BY <1>1
<1>3. (got \o queue) \o <<n>> = got \o (queue \o <<n>>)
  BY <1>1, ConcatAssociative
<1> QED BY <1>2, <1>3

-----------------------------------------------------------------------------
(* The invariant of one client.                                            *)

\* A session that is closed needs nothing but the acknowledgements on the streams.
LEMMA ClosedIsGood ==
    ASSUME NEW c \in ClientState, NEW w \in Stream, NEW sent, NEW got, NEW given, NEW acked,
           NEW sent2, NEW got2, Good(c, w, sent, got, given, acked)
    PROVE  Closed(c) \in ClientState /\ Good(Closed(c), w, sent2, got2, given, acked)
<1>1. Closed(c) = [connected |-> FALSE, closing |-> FALSE, queue |-> <<>>, out |-> {}]
  <2> DEFINE e == EmptyMessageQueue(c)
  <2>1. e = [connected |-> c.connected, closing |-> c.closing, queue |-> <<>>, out |-> c.out]
    BY DEF EmptyMessageQueue, ClientState
  <2>2. Closed(c) = [e EXCEPT !.connected = FALSE, !.closing = FALSE, !.out = {}]
    BY DEF Closed
  <2> HIDE DEF e
  <2> QED BY <2>1, <2>2
<1>2. Closed(c) \in ClientState
  BY <1>1 DEF ClientState
<1>3. Closed(c).connected = FALSE /\ Closed(c).queue = <<>>
  BY <1>1
<1>4. \A i \in DOMAIN w.inbox : w.inbox[i].kind = "ack" => w.inbox[i].n \in acked
  BY DEF Good
<1> QED BY <1>2, <1>3, <1>4 DEF Good

\* What Good needs of the acknowledgements survives reading an item.
LEMMA AcksOfTail ==
    ASSUME NEW inbox \in Seq(Item), inbox # <<>>, NEW acked,
           \A i \in DOMAIN inbox : inbox[i].kind = "ack" => inbox[i].n \in acked
    PROVE  \A i \in DOMAIN Tail(inbox) : Tail(inbox)[i].kind = "ack" => Tail(inbox)[i].n \in acked
<1>1. Tail(inbox) \in Seq(Item) /\ Len(Tail(inbox)) = Len(inbox) - 1
      /\ \A i \in 1 .. Len(Tail(inbox)) : Tail(inbox)[i] = inbox[i + 1]
  BY HeadTailProperties
<1>2. \A i \in DOMAIN Tail(inbox) : i + 1 \in DOMAIN inbox /\ i \in 1 .. Len(Tail(inbox))
  BY <1>1
<1> QED BY <1>1, <1>2

\* What a read of the first item makes of a client and its stream.
ItemRead(c, w) ==
    IF Head(w.inbox).kind = "message" THEN [c EXCEPT !.queue = Append(@, Head(w.inbox).n)]
                                      ELSE [c EXCEPT !.out = @ \ {Head(w.inbox).n}]
Unread(w) == [w EXCEPT !.inbox = Tail(@)]

\* A client stays good when it is read.
LEMMA ReadIsGood ==
    ASSUME NEW c \in ClientState, NEW w \in Stream, NEW sent \in Nat, NEW got \in Seq(Nat), NEW given \in Nat,
           NEW acked \in SUBSET Nat, Good(c, w, sent, got, given, acked), c.connected, w.inbox # <<>>
    PROVE  /\ ItemRead(c, w) \in ClientState /\ Unread(w) \in Stream
           /\ Good(ItemRead(c, w), Unread(w), sent, got, given, acked)
<1> DEFINE c2 == ItemRead(c, w)
           w2 == Unread(w)
<1>0. w2 = [w EXCEPT !.inbox = Tail(@)]
      /\ c2 = IF Head(w.inbox).kind = "message" THEN [c EXCEPT !.queue = Append(@, Head(w.inbox).n)]
                                                ELSE [c EXCEPT !.out = @ \ {Head(w.inbox).n}]
  BY DEF ItemRead, Unread
<1> HIDE DEF c2, w2
<1>1. w.inbox \in Seq(Item) /\ c.queue \in Seq(Nat) /\ c.out \in SUBSET Nat
  BY DEF ClientState, Stream
<1>2. Head(w.inbox) \in Item /\ Tail(w.inbox) \in Seq(Item) /\ Head(w.inbox) = w.inbox[1] /\ 1 \in DOMAIN w.inbox
  BY <1>1
<1>3. Head(w.inbox).n \in Nat /\ Head(w.inbox).kind \in {"message", "ack"}
  BY <1>2 DEF Item
<1>4. w2 \in Stream /\ w2.inbox = Tail(w.inbox)
  BY <1>0, <1>2 DEF Stream
<1>5. InOrder(got \o c.queue, w.inbox, sent) /\ 1 .. given \subseteq c.out \cup acked
      /\ \A i \in DOMAIN w.inbox : w.inbox[i].kind = "ack" => w.inbox[i].n \in acked
  BY DEF Good
<1>6. \A i \in DOMAIN w2.inbox : w2.inbox[i].kind = "ack" => w2.inbox[i].n \in acked
  BY <1>1, <1>4, <1>5, AcksOfTail
<1>7. got \o c.queue \in Seq(Nat)
  BY <1>1, ConcatProperties
<1>8. ASSUME Head(w.inbox).kind = "message"
      PROVE  c2 \in ClientState /\ Good(c2, w2, sent, got, given, acked)
  <2> DEFINE n == Head(w.inbox).n
  <2>1. c2 = [c EXCEPT !.queue = Append(@, n)] BY <1>0, <1>8
  <2>2. Append(c.queue, n) \in Seq(Nat) BY <1>1, <1>3
  <2>3. c2 \in ClientState BY <2>1, <2>2 DEF ClientState
  <2>4. c2.queue = Append(c.queue, n) /\ c2.out = c.out /\ c2.connected = c.connected BY <2>1 DEF ClientState
  <2>5. InOrder(Append(got \o c.queue, n), Tail(w.inbox), sent)
    BY <1>1, <1>5, <1>7, <1>8, MessageRead
  <2>6. Append(got \o c.queue, n) = got \o Append(c.queue, n)
    BY <1>1, <1>3, MessageQueued
  <2>7. InOrder(got \o c2.queue, w2.inbox, sent) BY <2>4, <2>5, <2>6, <1>4
  <2> QED BY <2>3, <2>4, <2>7, <1>4, <1>5, <1>6 DEF Good
<1>9. ASSUME Head(w.inbox).kind # "message"
      PROVE  c2 \in ClientState /\ Good(c2, w2, sent, got, given, acked)
  <2> DEFINE n == Head(w.inbox).n
  <2>1. c2 = [c EXCEPT !.out = @ \ {n}] BY <1>0, <1>9
  <2>2. c2 \in ClientState BY <2>1, <1>1 DEF ClientState
  <2>3. c2.queue = c.queue /\ c2.out = c.out \ {n} /\ c2.connected = c.connected BY <2>1 DEF ClientState
  <2>4. InOrder(got \o c2.queue, w2.inbox, sent)
    <3>1. InOrder(got \o c.queue, Tail(w.inbox), sent) BY <1>1, <1>5, <1>7, <1>9, AckRead
    <3> QED BY <3>1, <2>3, <1>4
  <2>5. n \in acked BY <1>2, <1>3, <1>5, <1>9
  <2>6. 1 .. given \subseteq c2.out \cup acked BY <2>3, <2>5, <1>5
  <2> QED BY <2>2, <2>3, <2>4, <2>6, <1>4, <1>6 DEF Good
<1> QED BY <1>4, <1>8, <1>9 DEF c2, w2

\* Taking the first message from the queue of a client.
LEMMA TakenIsGood ==
    ASSUME NEW c \in ClientState, NEW w \in Stream, NEW sent \in Nat, NEW got \in Seq(Nat), NEW given \in Nat,
           NEW acked \in SUBSET Nat, Good(c, w, sent, got, given, acked), c.queue # <<>>,
           NEW c2, c2 = [c EXCEPT !.queue = Tail(@)]
    PROVE  c2 \in ClientState /\ Good(c2, w, sent, Append(got, Head(c.queue)), given, acked)
<1>1. c.queue \in Seq(Nat)
  BY DEF ClientState
<1>2. PICK q \in Seq(Nat) : q = c.queue
  BY <1>1
<1>3. q # <<>> /\ Tail(q) \in Seq(Nat) /\ Head(q) \in Nat
  <2>1. q # <<>> BY <1>2
  <2> QED BY <2>1
<1>4. c2 = [c EXCEPT !.queue = Tail(q)]
  BY <1>2
<1>5. c2 \in ClientState /\ c2.queue = Tail(q) /\ c2.connected = c.connected /\ c2.out = c.out
  BY <1>3, <1>4 DEF ClientState
<1>6. c.connected
  BY DEF Good
<1>7. InOrder(got \o q, w.inbox, sent) /\ 1 .. given \subseteq c.out \cup acked
      /\ \A i \in DOMAIN w.inbox : w.inbox[i].kind = "ack" => w.inbox[i].n \in acked
  BY <1>2, <1>6 DEF Good
<1>8. InOrder(Append(got, Head(q)) \o c2.queue, w.inbox, sent)
  BY <1>3, <1>5, <1>7, MessageTaken
<1> QED BY <1>2, <1>5, <1>6, <1>7, <1>8 DEF Good

-----------------------------------------------------------------------------
(* The invariant of all clients.                                           *)

\* A step that concerns one client.
LEMMA OneClient ==
    ASSUME NEW s, NEW w, NEW h, AllGood(s, w, h), NEW y \in Clients, NEW s2, NEW w2, NEW h2,
           \A x \in Clients : x # y =>
               /\ s2[x] = s[x] /\ w2[x] = w[x]
               /\ h2.sent[x] = h.sent[x] /\ h2.got[x] = h.got[x] /\ h2.given[x] = h.given[x]
               /\ h2.acked[x] = h.acked[x],
           Good(s2[y], w2[y], h2.sent[y], h2.got[y], h2.given[y], h2.acked[y])
    PROVE  AllGood(s2, w2, h2)
<1> SUFFICES ASSUME NEW x \in Clients PROVE Good(s2[x], w2[x], h2.sent[x], h2.got[x], h2.given[x], h2.acked[x])
  BY DEF AllGood
<1>1. Good(s[x], w[x], h.sent[x], h.got[x], h.given[x], h.acked[x])
  BY DEF AllGood
<1> QED BY <1>1

\* The fields of the history.
LEMMA HistoryFields ==
    ASSUME NEW h \in History, NEW x \in Clients
    PROVE  h.sent[x] \in Nat /\ h.got[x] \in Seq(Nat) /\ h.given[x] \in Nat /\ h.acked[x] \in SUBSET Nat
  BY DEF History

\* A read in MQTTClient_cycle, of whichever client.
LEMMA CycleIsGood ==
    ASSUME HandlesTypeOK, AllGood(cl, streams, hist), NEW y \in Clients, Ready(y)
    PROVE  /\ [cl EXCEPT ![y] = Reads(y).s] \in [Clients -> ClientState]
           /\ Consumed(streams, y) \in [Clients -> Stream]
           /\ AllGood([cl EXCEPT ![y] = Reads(y).s], Consumed(streams, y), hist)
           /\ Reads(y).s \in ClientState /\ Reads(y).rc \in {"ok", "error"}
<1> DEFINE c2 == Reads(y).s
           w2 == [streams[y] EXCEPT !.inbox = IF @ = <<>> THEN <<>> ELSE Tail(@)]
<1>1. cl \in [Clients -> ClientState] /\ streams \in [Clients -> Stream] /\ hist \in History
  BY DEF HandlesTypeOK
<1>2. cl[y] \in ClientState /\ streams[y] \in Stream
  BY <1>1
<1>3. Good(cl[y], streams[y], hist.sent[y], hist.got[y], hist.given[y], hist.acked[y])
  BY DEF AllGood
<1>4. hist.sent[y] \in Nat /\ hist.got[y] \in Seq(Nat) /\ hist.given[y] \in Nat /\ hist.acked[y] \in SUBSET Nat
  BY <1>1, HistoryFields
<1>5. Consumed(streams, y) = [streams EXCEPT ![y] = w2]
  BY <1>1 DEF Consumed
<1>6. c2 \in ClientState /\ w2 \in Stream /\ Reads(y).rc \in {"ok", "error"}
      /\ Good(c2, w2, hist.sent[y], hist.got[y], hist.given[y], hist.acked[y])
  <2>1. CASE streams[y].inbox = <<>>
    <3>1. c2 = cl[y] /\ Reads(y).rc = "error" BY <2>1 DEF Reads
    <3>2. w2 = streams[y] BY <2>1, <1>2 DEF Stream
    <3> HIDE DEF c2, w2
    <3> QED BY <3>1, <3>2, <1>2, <1>3
  <2>2. CASE streams[y].inbox # <<>>
    <3>1. c2 = ItemRead(cl[y], streams[y]) BY <2>2 DEF Reads, ItemRead
    <3>2. Reads(y).rc = "ok" BY <2>2 DEF Reads
    <3>3. w2 = Unread(streams[y]) BY <2>2 DEF Unread
    <3>4. cl[y].connected BY DEF Ready
    <3> HIDE DEF c2, w2
    <3>5. c2 \in ClientState /\ w2 \in Stream /\ Good(c2, w2, hist.sent[y], hist.got[y], hist.given[y], hist.acked[y])
      BY <3>1, <3>3, <3>4, <2>2, <1>2, <1>3, <1>4, ReadIsGood
    <3> QED BY <3>2, <3>5
  <2> QED BY <2>1, <2>2
<1> HIDE DEF c2, w2
<1>7. AllGood([cl EXCEPT ![y] = c2], [streams EXCEPT ![y] = w2], hist)
  <2> DEFINE s2 == [cl EXCEPT ![y] = c2]
             v2 == [streams EXCEPT ![y] = w2]
  <2>1. \A x \in Clients : x # y => s2[x] = cl[x] /\ v2[x] = streams[x] BY <1>1
  <2>2. s2[y] = c2 /\ v2[y] = w2 BY <1>1
  <2> HIDE DEF s2, v2
  <2>3. AllGood(s2, v2, hist) BY <2>1, <2>2, <1>6, OneClient
  <2> QED BY <2>3 DEF s2, v2
<1>8. [cl EXCEPT ![y] = c2] \in [Clients -> ClientState] /\ [streams EXCEPT ![y] = w2] \in [Clients -> Stream]
  BY <1>1, <1>6
<1> QED BY <1>5, <1>6, <1>7, <1>8 DEF c2

\* What receive does when it returns, after whatever it read.
LEMMA ReceivedIsGood ==
    ASSUME NEW x \in Clients, NEW s \in [Clients -> ClientState], NEW w \in [Clients -> Stream],
           hist \in History, NEW rc, AllGood(s, w, hist), ReceiveReturns(x, s, rc)
    PROVE  /\ cl' \in [Clients -> ClientState] /\ hist' \in History /\ AllGood(cl', w, hist')
           /\ hist'.given = hist.given /\ hist'.acked = hist.acked /\ call' = NoCall
<1> DEFINE wrong == hist.wronged \/ (rc = "error" /\ s[x].connected /\ ~streams[x].eof)
           h == [hist EXCEPT !.wronged = wrong]
           told == [h EXCEPT !.got[x] = Append(@, Head(s[x].queue))]
<1>1. Good(s[x], w[x], hist.sent[x], hist.got[x], hist.given[x], hist.acked[x]) /\ s[x] \in ClientState
      /\ w[x] \in Stream
  BY DEF AllGood
<1>2. hist.sent[x] \in Nat /\ hist.got[x] \in Seq(Nat) /\ hist.given[x] \in Nat /\ hist.acked[x] \in SUBSET Nat
  BY HistoryFields
<1>3. wrong \in BOOLEAN OBVIOUS
<1>4. call' = NoCall
      /\ \/ s[x].queue # <<>> /\ cl' = [s EXCEPT ![x].queue = Tail(@)] /\ hist' = told
         \/ s[x].queue # <<>> /\ cl' = [s EXCEPT ![x] = Closed(@)] /\ hist' = told
         \/ s[x].queue = <<>> /\ cl' = [s EXCEPT ![x] = Closed(@)] /\ hist' = h
         \/ s[x].queue = <<>> /\ cl' = s /\ hist' = h
  BY DEF ReceiveReturns, DeliverMessage
<1> HIDE DEF wrong
<1>5. h \in History /\ h.sent = hist.sent /\ h.got = hist.got /\ h.given = hist.given /\ h.acked = hist.acked
  BY <1>3 DEF History
<1>6. ASSUME s[x].queue # <<>>
      PROVE  /\ told \in History /\ told.sent = hist.sent /\ told.given = hist.given /\ told.acked = hist.acked
             /\ told.got[x] = Append(hist.got[x], Head(s[x].queue))
             /\ \A y \in Clients : y # x => told.got[y] = hist.got[y]
  <2>1. PICK n \in Nat : n = Head(s[x].queue)
    <3>1. s[x].queue \in Seq(Nat) BY <1>1 DEF ClientState
    <3> QED BY <3>1, <1>6
  <2>2. Append(hist.got[x], n) \in Seq(Nat) BY <1>2
  <2>3. told = [h EXCEPT !.got = [h.got EXCEPT ![x] = Append(h.got[x], n)]] BY <2>1
  <2> HIDE DEF told, h
  <2> QED BY <2>1, <2>2, <2>3, <1>5 DEF History
<1> HIDE DEF told, h
<1>7. CASE s[x].queue # <<>> /\ cl' = [s EXCEPT ![x].queue = Tail(@)] /\ hist' = told
  <2>1. PICK c2 : c2 = [s[x] EXCEPT !.queue = Tail(@)] OBVIOUS
  <2>2. c2 \in ClientState /\ Good(c2, w[x], hist.sent[x], Append(hist.got[x], Head(s[x].queue)), hist.given[x], hist.acked[x])
    BY <2>1, <1>1, <1>2, <1>7, TakenIsGood
  <2>3. cl' = [s EXCEPT ![x] = c2] BY <2>1, <1>7
  <2>4. cl' \in [Clients -> ClientState] /\ cl'[x] = c2 /\ \A y \in Clients : y # x => cl'[y] = s[y]
    BY <2>2, <2>3
  <2>5. Good(cl'[x], w[x], told.sent[x], told.got[x], told.given[x], told.acked[x])
    BY <2>2, <2>4, <1>6, <1>7
  <2>6. \A y \in Clients : y # x =>
           /\ cl'[y] = s[y] /\ w[y] = w[y]
           /\ told.sent[y] = hist.sent[y] /\ told.got[y] = hist.got[y] /\ told.given[y] = hist.given[y]
           /\ told.acked[y] = hist.acked[y]
    BY <2>4, <1>6, <1>7
  <2>7. AllGood(cl', w, told) BY <2>5, <2>6, OneClient
  <2> QED BY <2>4, <2>7, <1>4, <1>6, <1>7
<1>8. ASSUME NEW h2 \in History, h2.given = hist.given, h2.acked = hist.acked, h2.sent = hist.sent,
             \A y \in Clients : y # x => h2.got[y] = hist.got[y], cl' = [s EXCEPT ![x] = Closed(@)]
      PROVE  cl' \in [Clients -> ClientState] /\ AllGood(cl', w, h2)
  <2>1. Closed(s[x]) \in ClientState
        /\ Good(Closed(s[x]), w[x], h2.sent[x], h2.got[x], hist.given[x], hist.acked[x])
    BY <1>1, ClosedIsGood
  <2>2. cl' \in [Clients -> ClientState] /\ cl'[x] = Closed(s[x]) /\ \A y \in Clients : y # x => cl'[y] = s[y]
    BY <2>1, <1>8
  <2>3. Good(cl'[x], w[x], h2.sent[x], h2.got[x], h2.given[x], h2.acked[x])
    BY <2>1, <2>2, <1>8
  <2>4. \A y \in Clients : y # x =>
           /\ cl'[y] = s[y] /\ w[y] = w[y]
           /\ h2.sent[y] = hist.sent[y] /\ h2.got[y] = hist.got[y] /\ h2.given[y] = hist.given[y]
           /\ h2.acked[y] = hist.acked[y]
    BY <2>2, <1>8
  <2>5. AllGood(cl', w, h2) BY <2>3, <2>4, OneClient
  <2> QED BY <2>2, <2>5
<1>9. CASE s[x].queue # <<>> /\ cl' = [s EXCEPT ![x] = Closed(@)] /\ hist' = told
  BY <1>4, <1>6, <1>8, <1>9
<1>10. CASE s[x].queue = <<>> /\ cl' = [s EXCEPT ![x] = Closed(@)] /\ hist' = h
  BY <1>4, <1>5, <1>8, <1>10
<1>11. CASE s[x].queue = <<>> /\ cl' = s /\ hist' = h
  <2>1. AllGood(s, w, h) BY <1>5 DEF AllGood
  <2> QED BY <2>1, <1>4, <1>5, <1>11
<1> QED BY <1>4, <1>7, <1>9, <1>10, <1>11

-----------------------------------------------------------------------------
(* The actions.                                                            *)

\* The values that the variables start from and go back to.
LEMMA Starts ==
    /\ Fresh \in ClientState /\ Silent \in Stream /\ NoCall \in Call /\ Nothing \in Result
    /\ NoCall.op = "none" /\ Nothing.token = 0
<1>1. PICK x : x = CHOOSE z \in Clients : TRUE
  OBVIOUS
<1>2. x \in Clients
  BY <1>1, ClientsAssumption
<1>3. NoCall = [op |-> "none", of |-> x, rc |-> "ok", token |-> 0, yields |-> FALSE]
  BY <1>1 DEF NoCall
<1>4. NoCall \in Call /\ NoCall.op = "none" /\ NoCall.of = x
  BY <1>2, <1>3 DEF Call
<1>5. Nothing = [of |-> x, token |-> 0]
  BY <1>4 DEF Nothing
<1>6. Nothing \in Result /\ Nothing.token = 0
  BY <1>2, <1>5 DEF Result
<1>7. Fresh \in ClientState /\ Silent \in Stream
  <2>1. <<>> \in Seq(Nat) /\ <<>> \in Seq(Item) OBVIOUS
  <2> QED BY <2>1 DEF Fresh, Silent, ClientState, Stream
<1> QED BY <1>4, <1>6, <1>7

\* A client that is not connected, with nothing on its streams, is good.
LEMMA FreshIsGood ==
    ASSUME NEW sent, NEW got, NEW given, NEW acked
    PROVE  Good(Fresh, Silent, sent, got, given, acked)
<1>1. Fresh.connected = FALSE /\ Fresh.queue = <<>> /\ Silent.inbox = <<>>
  BY DEF Fresh, Silent
<1>2. DOMAIN Silent.inbox = {}
  BY <1>1
<1> QED BY <1>1, <1>2 DEF Good

\* A history in which one client begins again.
LEMMA CleanHistory ==
    ASSUME NEW h \in History, NEW x \in Clients
    PROVE  /\ Clean(h, x) \in History
           /\ Clean(h, x).sent[x] = 0 /\ Clean(h, x).got[x] = <<>> /\ Clean(h, x).given[x] = 0
           /\ Clean(h, x).acked[x] = {} /\ Clean(h, x).connects = h.connects
           /\ \A y \in Clients : y # x =>
                 /\ Clean(h, x).sent[y] = h.sent[y] /\ Clean(h, x).got[y] = h.got[y]
                 /\ Clean(h, x).given[y] = h.given[y] /\ Clean(h, x).acked[y] = h.acked[y]
<1>1. Clean(h, x) = [sent |-> [h.sent EXCEPT ![x] = 0], got |-> [h.got EXCEPT ![x] = <<>>],
                     given |-> [h.given EXCEPT ![x] = 0], acked |-> [h.acked EXCEPT ![x] = {}],
                     connects |-> h.connects, lost |-> h.lost, wronged |-> h.wronged]
  <2> DEFINE a == [h EXCEPT !.sent[x] = 0]
             b == [a EXCEPT !.got[x] = <<>>]
             c == [b EXCEPT !.given[x] = 0]
  <2>0. h = [sent |-> h.sent, got |-> h.got, given |-> h.given, acked |-> h.acked,
             connects |-> h.connects, lost |-> h.lost, wronged |-> h.wronged]
    BY Zenon DEF History
  <2>1. a = [sent |-> [h.sent EXCEPT ![x] = 0], got |-> h.got, given |-> h.given, acked |-> h.acked,
             connects |-> h.connects, lost |-> h.lost, wronged |-> h.wronged]
    BY <2>0
  <2> HIDE DEF a
  <2>2. b = [sent |-> [h.sent EXCEPT ![x] = 0], got |-> [h.got EXCEPT ![x] = <<>>], given |-> h.given,
             acked |-> h.acked, connects |-> h.connects, lost |-> h.lost, wronged |-> h.wronged]
    BY <2>1
  <2> HIDE DEF b
  <2>3. c = [sent |-> [h.sent EXCEPT ![x] = 0], got |-> [h.got EXCEPT ![x] = <<>>],
             given |-> [h.given EXCEPT ![x] = 0],
             acked |-> h.acked, connects |-> h.connects, lost |-> h.lost, wronged |-> h.wronged]
    BY <2>2
  <2> HIDE DEF c
  <2>4. Clean(h, x) = [c EXCEPT !.acked[x] = {}]
    BY DEF Clean, c, b, a
  <2> QED BY <2>3, <2>4
<1>2. <<>> \in Seq(Nat) /\ {} \in SUBSET Nat
  OBVIOUS
<1>3. h.sent \in [Clients -> Nat] /\ h.got \in [Clients -> Seq(Nat)] /\ h.given \in [Clients -> Nat]
      /\ h.acked \in [Clients -> SUBSET Nat] /\ h.connects \in Nat /\ h.lost \in Nat /\ h.wronged \in BOOLEAN
  BY DEF History
<1>4. Clean(h, x) \in History
  BY <1>1, <1>2, <1>3 DEF History
<1> QED BY <1>1, <1>3, <1>4

\* The library, when a client is created.
LEMMA CreateKeeps ==
    ASSUME IInv, NEW x \in Clients, Create(x)
    PROVE  IInv'
<1> USE DEF HandlesTypeOK
<1>1. cl' = [cl EXCEPT ![x] = Fresh] /\ streams' = [streams EXCEPT ![x] = Silent]
      /\ lib' = TRUE /\ handles' = handles \cup {x} /\ call' = call /\ result' = result /\ hist' = hist
  BY DEF Create
<1>2. cl \in [Clients -> ClientState] /\ streams \in [Clients -> Stream]
  BY DEF IInv
<1>3. cl' \in [Clients -> ClientState] /\ streams' \in [Clients -> Stream] /\ cl'[x] = Fresh /\ streams'[x] = Silent
      /\ \A y \in Clients : y # x => cl'[y] = cl[y] /\ streams'[y] = streams[y]
  BY <1>1, <1>2, Starts
<1>4. Good(cl'[x], streams'[x], hist.sent[x], hist.got[x], hist.given[x], hist.acked[x])
  BY <1>3, FreshIsGood
<1>5. AllGood(cl', streams', hist)
  BY <1>3, <1>4, OneClient DEF IInv
<1> QED BY <1>1, <1>3, <1>5 DEF IInv, CompletionMeansAcknowledged

\* Destroying a client: what it had is forgotten.
LEMMA DestroyKeeps ==
    ASSUME IInv, NEW x \in Clients, Destroy(x)
    PROVE  IInv'
<1> USE DEF HandlesTypeOK
<1>1. cl' = [cl EXCEPT ![x] = Fresh] /\ streams' = [streams EXCEPT ![x] = Silent] /\ call.op = "none"
      /\ lib' = (handles' # {}) /\ handles' = handles \ {x} /\ call' = call /\ result' = Nothing
      /\ hist' = Clean(hist, x)
  BY DEF Destroy, Terminate
<1>2. cl \in [Clients -> ClientState] /\ streams \in [Clients -> Stream] /\ hist \in History
  BY DEF IInv
<1>3. cl' \in [Clients -> ClientState] /\ streams' \in [Clients -> Stream] /\ cl'[x] = Fresh /\ streams'[x] = Silent
      /\ \A y \in Clients : y # x => cl'[y] = cl[y] /\ streams'[y] = streams[y]
  BY <1>1, <1>2, Starts
<1>4. Good(cl'[x], streams'[x], hist'.sent[x], hist'.got[x], hist'.given[x], hist'.acked[x])
  BY <1>3, FreshIsGood
<1>5. hist' \in History
      /\ \A y \in Clients : y # x =>
            /\ hist'.sent[y] = hist.sent[y] /\ hist'.got[y] = hist.got[y]
            /\ hist'.given[y] = hist.given[y] /\ hist'.acked[y] = hist.acked[y]
  BY <1>1, <1>2, CleanHistory
<1>6. AllGood(cl', streams', hist')
  BY <1>3, <1>4, <1>5, OneClient DEF IInv
<1>7. result' \in Result /\ result'.token = 0
  BY <1>1, Starts
<1>8. CompletionMeansAcknowledged'
  BY <1>7 DEF CompletionMeansAcknowledged
<1> QED BY <1>1, <1>3, <1>5, <1>6, <1>7, <1>8 DEF IInv

\* A connection begins with nothing sent, taken, given or acknowledged.
LEMMA ConnectKeeps ==
    ASSUME IInv, NEW x \in Clients, Connect(x)
    PROVE  IInv'
<1> USE DEF HandlesTypeOK
<1> DEFINE c2 == [cl[x] EXCEPT !.connected = TRUE]
<1>1. cl' = [cl EXCEPT ![x] = c2] /\ streams' = [streams EXCEPT ![x] = Silent] /\ call.op = "none"
      /\ lib' = lib /\ handles' = handles /\ call' = call /\ result' = Nothing /\ ~cl[x].connected
      /\ hist' = [Clean(hist, x) EXCEPT !.connects = @ + 1]
  BY DEF Connect
<1>2. cl \in [Clients -> ClientState] /\ streams \in [Clients -> Stream] /\ hist \in History /\ cl[x] \in ClientState
  BY DEF IInv
<1>3. c2 \in ClientState /\ c2.queue = cl[x].queue /\ c2.connected = TRUE
  BY <1>2 DEF ClientState
<1> HIDE DEF c2
<1>4. cl[x].queue = <<>>
  BY <1>1 DEF IInv, AllGood, Good
<1>5. cl' \in [Clients -> ClientState] /\ streams' \in [Clients -> Stream] /\ cl'[x] = c2 /\ streams'[x] = Silent
      /\ \A y \in Clients : y # x => cl'[y] = cl[y] /\ streams'[y] = streams[y]
  BY <1>1, <1>2, <1>3, Starts
<1>6. /\ hist' \in History
      /\ hist'.sent[x] = 0 /\ hist'.got[x] = <<>> /\ hist'.given[x] = 0
      /\ \A y \in Clients : y # x =>
            /\ hist'.sent[y] = hist.sent[y] /\ hist'.got[y] = hist.got[y]
            /\ hist'.given[y] = hist.given[y] /\ hist'.acked[y] = hist.acked[y]
  <2> DEFINE h == Clean(hist, x)
  <2>1. /\ h \in History
        /\ h.sent[x] = 0 /\ h.got[x] = <<>> /\ h.given[x] = 0
        /\ \A y \in Clients : y # x =>
              /\ h.sent[y] = hist.sent[y] /\ h.got[y] = hist.got[y]
              /\ h.given[y] = hist.given[y] /\ h.acked[y] = hist.acked[y]
    BY <1>2, CleanHistory
  <2> HIDE DEF h
  <2>2. h.connects + 1 \in Nat BY <2>1 DEF History
  <2>3. hist' = [h EXCEPT !.connects = @ + 1] BY <1>1 DEF h
  <2>4. hist' \in History /\ hist'.sent = h.sent /\ hist'.got = h.got /\ hist'.given = h.given /\ hist'.acked = h.acked
    BY <2>1, <2>2, <2>3 DEF History
  <2> QED BY <2>1, <2>4
<1>7. InOrder(<<>> \o <<>>, <<>>, 0)
  <2>1. <<>> \o <<>> = <<>> /\ DOMAIN <<>> = {} /\ Len(<<>>) = 0 OBVIOUS
  <2>2. 0 + 1 .. 0 = {} OBVIOUS
  <2> QED BY <2>1, <2>2 DEF InOrder
<1>8. Good(cl'[x], streams'[x], hist'.sent[x], hist'.got[x], hist'.given[x], hist'.acked[x])
  <2>1. Silent.inbox = <<>> /\ DOMAIN Silent.inbox = {} BY DEF Silent
  <2>2. 1 .. 0 = {} OBVIOUS
  <2> QED BY <1>3, <1>4, <1>5, <1>6, <1>7, <2>1, <2>2 DEF Good
<1>9. AllGood(cl', streams', hist')
  BY <1>5, <1>6, <1>8, OneClient DEF IInv
<1>10. result' \in Result /\ result'.token = 0
  BY <1>1, Starts
<1>11. CompletionMeansAcknowledged'
  BY <1>10 DEF CompletionMeansAcknowledged
<1> QED BY <1>1, <1>5, <1>6, <1>9, <1>10, <1>11 DEF IInv

\* A token given is under way.
LEMMA PublishKeeps ==
    ASSUME IInv, NEW x \in Clients, Publish(x)
    PROVE  IInv'
<1> USE DEF HandlesTypeOK
<1> DEFINE t == hist.given[x] + 1
           c2 == [cl[x] EXCEPT !.out = @ \cup {t}]
<1>1. cl' = [cl EXCEPT ![x] = c2] /\ streams' = streams /\ call.op = "none" /\ cl[x].connected
      /\ lib' = lib /\ handles' = handles /\ call' = call /\ result' = result
      /\ hist' = [hist EXCEPT !.given[x] = @ + 1]
  BY DEF Publish
<1>2. cl \in [Clients -> ClientState] /\ streams \in [Clients -> Stream] /\ hist \in History /\ cl[x] \in ClientState
  BY DEF IInv
<1>3. t \in Nat /\ 1 .. t = (1 .. hist.given[x]) \cup {t} /\ hist.given[x] \in Nat
  <2>1. hist.given[x] \in Nat BY <1>2, HistoryFields
  <2> QED BY <2>1
<1>4. hist' \in History /\ hist'.given[x] = t /\ hist'.sent = hist.sent /\ hist'.got = hist.got
      /\ hist'.acked = hist.acked /\ \A y \in Clients : y # x => hist'.given[y] = hist.given[y]
  <2>1. hist' = [hist EXCEPT !.given = [hist.given EXCEPT ![x] = t]] BY <1>1
  <2> HIDE DEF t
  <2> QED BY <2>1, <1>2, <1>3 DEF History
<1> HIDE DEF t
<1>5. c2 \in ClientState /\ c2.queue = cl[x].queue /\ c2.connected = cl[x].connected /\ c2.out = cl[x].out \cup {t}
  BY <1>2, <1>3 DEF ClientState
<1> HIDE DEF c2
<1>6. cl' \in [Clients -> ClientState] /\ cl'[x] = c2 /\ \A y \in Clients : y # x => cl'[y] = cl[y]
  BY <1>1, <1>2, <1>5
<1>7. Good(cl[x], streams[x], hist.sent[x], hist.got[x], hist.given[x], hist.acked[x])
  BY DEF IInv, AllGood
<1>8. Good(cl'[x], streams'[x], hist'.sent[x], hist'.got[x], hist'.given[x], hist'.acked[x])
  <2>1. 1 .. hist.given[x] \subseteq cl[x].out \cup hist.acked[x] BY <1>1, <1>7 DEF Good
  <2>2. 1 .. t \subseteq c2.out \cup hist.acked[x] BY <2>1, <1>3, <1>5
  <2>3. c2.connected BY <1>1, <1>5
  <2> QED BY <2>2, <2>3, <1>1, <1>4, <1>5, <1>6, <1>7 DEF Good
<1>9. AllGood(cl', streams', hist')
  <2>1. \A y \in Clients : y # x =>
           /\ cl'[y] = cl[y] /\ streams'[y] = streams[y]
           /\ hist'.sent[y] = hist.sent[y] /\ hist'.got[y] = hist.got[y]
           /\ hist'.given[y] = hist.given[y] /\ hist'.acked[y] = hist.acked[y]
    BY <1>1, <1>4, <1>6
  <2> QED BY <2>1, <1>8, OneClient DEF IInv
<1>10. CompletionMeansAcknowledged'
  BY <1>1, <1>4 DEF CompletionMeansAcknowledged, IInv
<1> QED BY <1>1, <1>2, <1>4, <1>6, <1>9, <1>10 DEF IInv

\* A call begins; disconnecting marks the client.
LEMMA CallKeeps ==
    ASSUME IInv, NEW x \in Clients, Receive(x) \/ Disconnect(x) \/ Yield
    PROVE  IInv'
<1> USE DEF HandlesTypeOK
<1>0. cl \in [Clients -> ClientState] /\ NoCall \in Call
  BY Starts DEF IInv
<1>1. CASE Receive(x)
  <2>1. call' = [NoCall EXCEPT !.op = "receive", !.of = x] /\ UNCHANGED <<lib, handles, cl, streams, result, hist>>
    BY <1>1 DEF Receive
  <2>2. call' \in Call /\ call'.op = "receive" BY <2>1, <1>0 DEF Call
  <2> QED BY <2>1, <2>2 DEF IInv, CompletionMeansAcknowledged
<1>2. CASE Yield
  <2>1. call' = [NoCall EXCEPT !.op = "yield", !.yields = TRUE] /\ UNCHANGED <<lib, handles, cl, streams, result, hist>>
    BY <1>2 DEF Yield
  <2>2. call' \in Call /\ call'.op = "yield" BY <2>1, <1>0 DEF Call
  <2> QED BY <2>1, <2>2 DEF IInv, CompletionMeansAcknowledged
<1>3. CASE Disconnect(x)
  <2> DEFINE c2 == [cl[x] EXCEPT !.closing = TRUE]
  <2>1. call' = [NoCall EXCEPT !.op = "disconnect", !.of = x] /\ UNCHANGED <<lib, handles, streams, result, hist>>
        /\ cl' = [cl EXCEPT ![x] = c2]
    BY <1>3 DEF Disconnect
  <2>2. call' \in Call /\ call'.op = "disconnect" BY <2>1, <1>0 DEF Call
  <2>3. c2 \in ClientState /\ c2.connected = cl[x].connected /\ c2.queue = cl[x].queue /\ c2.out = cl[x].out
    BY <1>0 DEF ClientState
  <2> HIDE DEF c2
  <2>4. cl' \in [Clients -> ClientState] /\ cl'[x] = c2 /\ \A y \in Clients : y # x => cl'[y] = cl[y]
    BY <2>1, <2>3, <1>0
  <2>5. Good(cl'[x], streams[x], hist.sent[x], hist.got[x], hist.given[x], hist.acked[x])
    BY <2>3, <2>4 DEF Good, AllGood, IInv
  <2>6. AllGood(cl', streams, hist)
    BY <2>4, <2>5, OneClient DEF IInv
  <2> QED BY <2>1, <2>2, <2>4, <2>6 DEF IInv, CompletionMeansAcknowledged
<1> QED BY <1>1, <1>2, <1>3

\* A wait is for a token that was given.
LEMMA WaitKeeps ==
    ASSUME IInv, NEW x \in Clients, NEW t \in Nat, WaitForCompletion(x, t)
    PROVE  IInv'
<1> USE DEF HandlesTypeOK
<1>1. call' = [NoCall EXCEPT !.op = "wait", !.of = x, !.token = t] /\ t \in 1 .. hist.given[x]
      /\ UNCHANGED <<lib, handles, cl, streams, result, hist>>
  BY DEF WaitForCompletion
<1>2. call' \in Call /\ call'.of = x /\ call'.token = t
  BY <1>1, Starts DEF Call
<1> QED BY <1>1, <1>2 DEF IInv, CompletionMeansAcknowledged

\* The broker sends a message or an acknowledgement.
LEMMA BrokerSendsKeeps ==
    ASSUME IInv, NEW x \in Clients, BrokerSends(x)
    PROVE  IInv'
<1> USE DEF HandlesTypeOK
<1>1. cl \in [Clients -> ClientState] /\ streams \in [Clients -> Stream] /\ hist \in History /\ cl[x] \in ClientState
      /\ streams[x] \in Stream /\ cl[x].connected
  BY DEF IInv, BrokerSends
<1>2. Good(cl[x], streams[x], hist.sent[x], hist.got[x], hist.given[x], hist.acked[x])
  BY DEF IInv, AllGood
<1>3. hist.sent[x] \in Nat /\ hist.got[x] \in Seq(Nat) /\ hist.given[x] \in Nat /\ hist.acked[x] \in SUBSET Nat
  BY <1>1, HistoryFields
<1>4. PICK here \in Seq(Nat) : here = hist.got[x] \o cl[x].queue
  <2>1. cl[x].queue \in Seq(Nat) BY <1>1 DEF ClientState
  <2> QED BY <2>1, <1>3, ConcatProperties
<1>5. PICK inbox \in Seq(Item) : inbox = streams[x].inbox
  BY <1>1 DEF Stream
<1>6. /\ InOrder(here, inbox, hist.sent[x]) /\ 1 .. hist.given[x] \subseteq cl[x].out \cup hist.acked[x]
      /\ \A i \in DOMAIN inbox : inbox[i].kind = "ack" => inbox[i].n \in hist.acked[x]
  BY <1>1, <1>2, <1>4, <1>5 DEF Good
<1>7. UNCHANGED <<lib, handles, cl, call, result>>
  BY DEF BrokerSends
<1>8. ASSUME NEW item \in Item, NEW sent \in Nat, NEW acked \in SUBSET Nat,
             streams' = [streams EXCEPT ![x].inbox = Append(@, item)],
             hist' = [hist EXCEPT !.sent = [hist.sent EXCEPT ![x] = sent],
                                  !.acked = [hist.acked EXCEPT ![x] = acked]],
             hist.acked[x] \subseteq acked, item.kind = "ack" => item.n \in acked,
             InOrder(here, Append(inbox, item), sent)
      PROVE  IInv'
  <2> DEFINE more == Append(inbox, item)
             w2 == [streams[x] EXCEPT !.inbox = more]
  <2>1. streams' = [streams EXCEPT ![x] = w2] BY <1>5, <1>8
  <2>2. more \in Seq(Item)
        /\ \A i \in DOMAIN more : (i \in DOMAIN inbox /\ more[i] = inbox[i]) \/ more[i] = item
    OBVIOUS
  <2>3. \A i \in DOMAIN more : more[i].kind = "ack" => more[i].n \in acked
    BY <2>2, <1>6, <1>8
  <2>4. InOrder(here, more, sent) BY <1>8
  <2> HIDE DEF more
  <2>5. w2 \in Stream /\ w2.inbox = more BY <2>2, <1>1 DEF Stream
  <2> HIDE DEF w2
  <2>6. streams' \in [Clients -> Stream] /\ streams'[x] = w2 /\ \A y \in Clients : y # x => streams'[y] = streams[y]
    BY <2>1, <2>5, <1>1
  <2>7. /\ hist' \in History /\ hist'.sent[x] = sent /\ hist'.acked[x] = acked
        /\ hist'.got = hist.got /\ hist'.given = hist.given
        /\ \A y \in Clients : y # x => hist'.sent[y] = hist.sent[y] /\ hist'.acked[y] = hist.acked[y]
    BY <1>1, <1>8 DEF History
  <2>8. 1 .. hist.given[x] \subseteq cl[x].out \cup acked BY <1>6, <1>8
  <2>9. Good(cl[x], streams'[x], hist'.sent[x], hist'.got[x], hist'.given[x], hist'.acked[x])
    BY <1>1, <1>4, <2>3, <2>4, <2>5, <2>6, <2>7, <2>8 DEF Good
  <2>10. AllGood(cl', streams', hist')
    BY <1>7, <2>6, <2>7, <2>9, OneClient DEF IInv
  <2>11. result.token # 0 => result.token \in hist'.acked[result.of]
    <3>1. result.of \in Clients BY DEF IInv, Result
    <3>2. hist.acked[result.of] \subseteq hist'.acked[result.of]
      BY <3>1, <2>7, <1>8
    <3> QED BY <3>2 DEF IInv, CompletionMeansAcknowledged
  <2>12. CompletionMeansAcknowledged'
    BY <2>11, <1>7 DEF CompletionMeansAcknowledged
  <2> QED BY <1>7, <2>6, <2>7, <2>10, <2>12 DEF IInv
<1>9. CASE /\ hist' = [hist EXCEPT !.sent[x] = @ + 1]
           /\ streams' = [streams EXCEPT ![x].inbox = Append(@, [kind |-> "message", n |-> hist'.sent[x]])]
  <2> DEFINE item == [kind |-> "message", n |-> hist.sent[x] + 1]
  <2>1. hist.sent[x] + 1 \in Nat BY <1>3
  <2>2. hist'.sent[x] = hist.sent[x] + 1 BY <1>1, <1>9 DEF History
  <2>3. item \in Item /\ item.kind # "ack" BY <2>1 DEF Item
  <2>4. InOrder(here, Append(inbox, item), hist.sent[x] + 1) BY <1>3, <1>6, MessageSent
  <2>5. streams' = [streams EXCEPT ![x].inbox = Append(@, item)] BY <1>9, <2>2
  <2> HIDE DEF item
  <2>6. hist' = [hist EXCEPT !.sent = [hist.sent EXCEPT ![x] = hist.sent[x] + 1],
                             !.acked = [hist.acked EXCEPT ![x] = hist.acked[x]]]
    BY <1>1, <1>9 DEF History
  <2> QED BY <1>3, <1>8, <2>1, <2>3, <2>4, <2>5, <2>6
<1>10. ASSUME NEW t \in PendingTokens(x) \ hist.acked[x],
              hist' = [hist EXCEPT !.acked[x] = @ \cup {t}],
              streams' = [streams EXCEPT ![x].inbox = Append(@, [kind |-> "ack", n |-> t])]
       PROVE  IInv'
  <2> DEFINE item == [kind |-> "ack", n |-> t]
  <2>1. t \in Nat BY <1>1 DEF PendingTokens, ClientState
  <2>2. item \in Item /\ item.n = t BY <2>1 DEF Item
  <2>3. InOrder(here, Append(inbox, item), hist.sent[x]) BY <1>3, <1>6, <2>1, AckSent
  <2>4. streams' = [streams EXCEPT ![x].inbox = Append(@, item)] BY <1>10
  <2> HIDE DEF item
  <2>5. hist' = [hist EXCEPT !.sent = [hist.sent EXCEPT ![x] = hist.sent[x]],
                             !.acked = [hist.acked EXCEPT ![x] = hist.acked[x] \cup {t}]]
    BY <1>1, <1>10 DEF History
  <2>6. hist.acked[x] \cup {t} \in SUBSET Nat BY <2>1, <1>3
  <2> QED BY <1>3, <1>8, <2>2, <2>3, <2>4, <2>5, <2>6
<1> QED BY <1>9, <1>10 DEF BrokerSends

\* The broker closes a connection.
LEMMA BrokerClosesKeeps ==
    ASSUME IInv, NEW x \in Clients, BrokerCloses(x)
    PROVE  IInv'
<1> USE DEF HandlesTypeOK
<1> DEFINE w2 == [streams[x] EXCEPT !.eof = TRUE]
<1>1. streams' = [streams EXCEPT ![x] = w2] /\ hist' = [hist EXCEPT !.lost = @ + 1]
      /\ UNCHANGED <<lib, handles, cl, call, result>>
  BY DEF BrokerCloses
<1>2. streams \in [Clients -> Stream] /\ hist \in History
  BY DEF IInv
<1>3. w2 \in Stream /\ w2.inbox = streams[x].inbox
  BY <1>2 DEF Stream
<1> HIDE DEF w2
<1>4. streams' \in [Clients -> Stream] /\ streams'[x] = w2 /\ \A y \in Clients : y # x => streams'[y] = streams[y]
  BY <1>1, <1>2, <1>3
<1>5. hist' \in History /\ hist'.sent = hist.sent /\ hist'.got = hist.got /\ hist'.given = hist.given
      /\ hist'.acked = hist.acked
  <2>1. hist.lost + 1 \in Nat BY <1>2 DEF History
  <2> QED BY <1>1, <1>2, <2>1 DEF History
<1>6. Good(cl'[x], streams'[x], hist'.sent[x], hist'.got[x], hist'.given[x], hist'.acked[x])
  BY <1>1, <1>3, <1>4, <1>5 DEF Good, AllGood, IInv
<1>7. AllGood(cl', streams', hist')
  <2>1. \A y \in Clients : y # x =>
           /\ cl'[y] = cl[y] /\ streams'[y] = streams[y]
           /\ hist'.sent[y] = hist.sent[y] /\ hist'.got[y] = hist.got[y]
           /\ hist'.given[y] = hist.given[y] /\ hist'.acked[y] = hist.acked[y]
    BY <1>1, <1>4, <1>5
  <2> QED BY <2>1, <1>6, OneClient DEF IInv
<1> QED BY <1>1, <1>4, <1>5, <1>7 DEF IInv, CompletionMeansAcknowledged

-----------------------------------------------------------------------------
(* The calls that go round in MQTTClient_cycle.                            *)

\* A client whose session is closed, within whatever a cycle made of the others.
LEMMA CloseOne ==
    ASSUME NEW s \in [Clients -> ClientState], NEW w \in [Clients -> Stream], NEW h, AllGood(s, w, h),
           NEW y \in Clients
    PROVE  /\ [s EXCEPT ![y] = Closed(@)] \in [Clients -> ClientState]
           /\ AllGood([s EXCEPT ![y] = Closed(@)], w, h)
<1> DEFINE s2 == [s EXCEPT ![y] = Closed(@)]
<1>1. Closed(s[y]) \in ClientState /\ Good(Closed(s[y]), w[y], h.sent[y], h.got[y], h.given[y], h.acked[y])
  <2>1. Good(s[y], w[y], h.sent[y], h.got[y], h.given[y], h.acked[y]) BY DEF AllGood
  <2>2. s[y] \in ClientState /\ w[y] \in Stream OBVIOUS
  <2> QED BY <2>1, <2>2, ClosedIsGood
<1>2. s2 \in [Clients -> ClientState] /\ s2[y] = Closed(s[y]) /\ \A x \in Clients : x # y => s2[x] = s[x]
  BY <1>1
<1> HIDE DEF s2
<1>3. AllGood(s2, w, h)
  BY <1>1, <1>2, OneClient
<1> QED BY <1>2, <1>3 DEF s2

\* The keep-alive counts as a connection lost.
LEMMA LostHistory ==
    ASSUME hist \in History, hist' = [hist EXCEPT !.lost = @ + 1]
    PROVE  hist' \in History /\ hist'.sent = hist.sent /\ hist'.got = hist.got /\ hist'.given = hist.given
           /\ hist'.acked = hist.acked
<1>1. hist.lost + 1 \in Nat BY DEF History
<1> QED BY <1>1 DEF History

\* Receive reads an item of some client, and goes on or returns.
LEMMA ReceiveReadsKeeps ==
    ASSUME IInv, ReceiveReads
    PROVE  IInv'
<1> USE DEF HandlesTypeOK
<1>1. PICK y \in handles : Ready(y) /\ streams' = Consumed(streams, y)
         /\ Loops(call.of, [cl EXCEPT ![y] = Reads(y).s], Reads(y).rc, y = call.of /\ Reads(y).rc = "error")
  BY DEF ReceiveReads
<1>2. call.op = "receive" /\ UNCHANGED <<lib, handles, result>>
  BY DEF ReceiveReads
<1>3. PICK s : s = [cl EXCEPT ![y] = Reads(y).s]
  OBVIOUS
<1>4. y \in Clients /\ call.of \in Clients /\ hist \in History /\ call \in Call
  BY DEF IInv, Call
<1>5. s \in [Clients -> ClientState] /\ streams' \in [Clients -> Stream] /\ AllGood(s, streams', hist)
      /\ Reads(y).rc \in {"ok", "error"}
  BY <1>1, <1>3, <1>4, CycleIsGood DEF IInv
<1>6. CASE ReceiveReturns(call.of, s, Reads(y).rc)
  <2>1. cl' \in [Clients -> ClientState] /\ hist' \in History /\ AllGood(cl', streams', hist')
        /\ hist'.given = hist.given /\ hist'.acked = hist.acked /\ call' = NoCall
    BY <1>4, <1>5, <1>6, ReceivedIsGood
  <2>2. call' \in Call /\ call'.op = "none" BY <2>1, Starts
  <2> QED BY <2>1, <2>2, <1>2, <1>5 DEF IInv, CompletionMeansAcknowledged
<1>7. CASE call' = [call EXCEPT !.rc = Reads(y).rc] /\ cl' = s /\ UNCHANGED hist
  <2>1. call' \in Call /\ call'.op = "receive" BY <1>2, <1>4, <1>5, <1>7 DEF Call
  <2> QED BY <2>1, <1>2, <1>5, <1>7 DEF IInv, CompletionMeansAcknowledged
<1> QED BY <1>1, <1>3, <1>6, <1>7 DEF Loops

\* Nothing is ready: receive returns, or the keep-alive closes a session.
LEMMA ReceiveWaitsKeeps ==
    ASSUME IInv, ReceiveWaits
    PROVE  IInv'
<1> USE DEF HandlesTypeOK
<1>1. UNCHANGED <<lib, handles, streams, result>>
  BY DEF ReceiveWaits
<1>2. call.of \in Clients /\ hist \in History /\ cl \in [Clients -> ClientState] /\ streams \in [Clients -> Stream]
      /\ AllGood(cl, streams, hist)
  BY DEF IInv, Call
<1>3. CASE ReceiveReturns(call.of, cl, call.rc)
  <2>1. cl' \in [Clients -> ClientState] /\ hist' \in History /\ AllGood(cl', streams, hist')
        /\ hist'.given = hist.given /\ hist'.acked = hist.acked /\ call' = NoCall
    BY <1>2, <1>3, ReceivedIsGood
  <2>2. call' \in Call /\ call'.op = "none" BY <2>1, Starts
  <2> QED BY <2>1, <2>2, <1>1 DEF IInv, CompletionMeansAcknowledged
<1>4. ASSUME NEW y \in handles, KeepAlive(cl, y), hist' = [hist EXCEPT !.lost = @ + 1], UNCHANGED call
      PROVE  IInv'
  <2>1. cl' = [cl EXCEPT ![y] = Closed(@)] /\ y \in Clients BY <1>4 DEF KeepAlive, IInv
  <2>2. cl' \in [Clients -> ClientState] /\ AllGood(cl', streams, hist) BY <2>1, <1>2, CloseOne
  <2>3. hist' \in History /\ hist'.sent = hist.sent /\ hist'.got = hist.got /\ hist'.given = hist.given
        /\ hist'.acked = hist.acked
    BY <1>2, <1>4, LostHistory
  <2>4. AllGood(cl', streams, hist') BY <2>2, <2>3 DEF AllGood
  <2> QED BY <2>2, <2>3, <2>4, <1>1, <1>4 DEF IInv, CompletionMeansAcknowledged
<1> QED BY <1>3, <1>4 DEF ReceiveWaits

\* A yield reads an item of some client, and closes that client's session if its
\* socket has an error.
LEMMA YieldReadsKeeps ==
    ASSUME IInv, YieldReads
    PROVE  IInv'
<1> USE DEF HandlesTypeOK
<1>1. PICK y \in handles : Ready(y) /\ streams' = Consumed(streams, y)
         /\ cl' = [cl EXCEPT ![y] = IF Reads(y).rc = "error" /\ ~@.closing THEN Closed(@) ELSE Reads(y).s]
  BY DEF YieldReads
<1>2. UNCHANGED <<lib, handles, result, hist>>
      /\ call' \in {call, NoCall, [call EXCEPT !.yields = FALSE]}
  BY DEF YieldReads
<1>3. y \in Clients /\ hist \in History /\ cl \in [Clients -> ClientState] /\ call \in Call
  BY DEF IInv
<1>4. PICK s : s = [cl EXCEPT ![y] = Reads(y).s]
  OBVIOUS
<1>5. s \in [Clients -> ClientState] /\ streams' \in [Clients -> Stream] /\ AllGood(s, streams', hist)
  BY <1>1, <1>3, <1>4, CycleIsGood DEF IInv
<1>6. cl' \in [Clients -> ClientState] /\ AllGood(cl', streams', hist)
  <2>1. CASE Reads(y).rc = "error" /\ ~cl[y].closing
    <3>1. Reads(y).s = cl[y] BY <2>1 DEF Reads
    <3>2. s = cl BY <3>1, <1>3, <1>4
    <3>3. cl' = [s EXCEPT ![y] = Closed(@)] BY <2>1, <3>2, <1>1
    <3> QED BY <3>3, <1>3, <1>5, CloseOne
  <2>2. CASE ~(Reads(y).rc = "error" /\ ~cl[y].closing)
    <3>1. cl' = s BY <2>2, <1>1, <1>4
    <3> QED BY <3>1, <1>5
  <2> QED BY <2>1, <2>2
<1>7. call' \in Call /\ (call'.op = "wait" => call.op = "wait" /\ call'.token = call.token /\ call'.of = call.of)
  BY <1>2, <1>3, Starts DEF Call
<1> QED BY <1>2, <1>3, <1>5, <1>6, <1>7 DEF IInv, CompletionMeansAcknowledged

\* Nothing is ready for a yield.
LEMMA YieldWaitsKeeps ==
    ASSUME IInv, YieldWaits
    PROVE  IInv'
<1> USE DEF HandlesTypeOK
<1>1. UNCHANGED <<lib, handles, streams, result>> /\ call' \in {NoCall, [call EXCEPT !.yields = FALSE]}
  BY DEF YieldWaits
<1>2. hist \in History /\ cl \in [Clients -> ClientState] /\ streams \in [Clients -> Stream] /\ call \in Call
      /\ AllGood(cl, streams, hist)
  BY DEF IInv
<1>3. call' \in Call /\ (call'.op = "wait" => call.op = "wait" /\ call'.token = call.token /\ call'.of = call.of)
  BY <1>1, <1>2, Starts DEF Call
<1>4. CASE UNCHANGED <<cl, hist>>
  BY <1>1, <1>3, <1>4 DEF IInv, CompletionMeansAcknowledged
<1>5. ASSUME NEW y \in handles, KeepAlive(cl, y), hist' = [hist EXCEPT !.lost = @ + 1]
      PROVE  IInv'
  <2>1. cl' = [cl EXCEPT ![y] = Closed(@)] /\ y \in Clients BY <1>5 DEF KeepAlive, IInv
  <2>2. cl' \in [Clients -> ClientState] /\ AllGood(cl', streams, hist) BY <2>1, <1>2, CloseOne
  <2>3. hist' \in History /\ hist'.sent = hist.sent /\ hist'.got = hist.got /\ hist'.given = hist.given
        /\ hist'.acked = hist.acked
    BY <1>2, <1>5, LostHistory
  <2>4. AllGood(cl', streams, hist') BY <2>2, <2>3 DEF AllGood
  <2> QED BY <2>2, <2>3, <2>4, <1>1, <1>3 DEF IInv, CompletionMeansAcknowledged
<1> QED BY <1>4, <1>5 DEF YieldWaits

\* A round of waitForCompletion: a token not found while the client is connected
\* has been acknowledged.
LEMMA WaitChecksKeeps ==
    ASSUME IInv, WaitChecks
    PROVE  IInv'
<1> USE DEF HandlesTypeOK
<1>1. UNCHANGED <<lib, handles, streams, hist, cl>> /\ call.op = "wait"
  BY DEF WaitChecks, Completes, Yields
<1>2. call \in Call /\ call.of \in Clients /\ call.token \in 1 .. hist.given[call.of] /\ call.token \in Nat
  BY <1>1 DEF IInv, Call
<1>3. CASE call' = NoCall /\ UNCHANGED result
  <2>1. call' \in Call /\ call'.op = "none" BY <1>3, Starts
  <2> QED BY <2>1, <1>1, <1>3 DEF IInv, CompletionMeansAcknowledged
<1>4. CASE /\ cl[call.of].connected /\ call.token \notin PendingTokens(call.of)
           /\ call' = NoCall /\ result' = [of |-> call.of, token |-> call.token]
  <2>1. call' \in Call /\ call'.op = "none" BY <1>4, Starts
  <2>2. Good(cl[call.of], streams[call.of], hist.sent[call.of], hist.got[call.of], hist.given[call.of], hist.acked[call.of])
    BY <1>2 DEF IInv, AllGood
  <2>3. 1 .. hist.given[call.of] \subseteq cl[call.of].out \cup hist.acked[call.of]
    BY <2>2, <1>4 DEF Good
  <2>4. call.token \in hist.acked[call.of]
    BY <2>3, <1>2, <1>4 DEF PendingTokens
  <2>5. result' \in Result /\ result'.of = call.of /\ result'.token = call.token
    BY <1>2, <1>4 DEF Result
  <2> QED BY <2>1, <2>4, <2>5, <1>1 DEF IInv, CompletionMeansAcknowledged
<1>5. CASE call' = [call EXCEPT !.yields = TRUE] /\ UNCHANGED result
  <2>1. call' \in Call /\ call'.op = "wait" /\ call'.of = call.of /\ call'.token = call.token
    BY <1>1, <1>2, <1>5 DEF Call
  <2> QED BY <2>1, <1>1, <1>5 DEF IInv, CompletionMeansAcknowledged
<1> QED BY <1>3, <1>4, <1>5 DEF WaitChecks, Completes, Yields

\* A disconnect goes on waiting, or closes the session.
LEMMA DisconnectChecksKeeps ==
    ASSUME IInv, DisconnectChecks
    PROVE  IInv'
<1> USE DEF HandlesTypeOK
<1>1. UNCHANGED <<lib, handles, streams, hist, result>> /\ call.op = "disconnect"
  BY DEF DisconnectChecks, Yields
<1>2. hist \in History /\ cl \in [Clients -> ClientState] /\ streams \in [Clients -> Stream] /\ call \in Call
      /\ AllGood(cl, streams, hist) /\ call.of \in Clients
  BY DEF IInv, Call
<1>3. CASE call' = [call EXCEPT !.yields = TRUE] /\ UNCHANGED cl
  <2>1. call' \in Call /\ call'.op = "disconnect" BY <1>1, <1>2, <1>3 DEF Call
  <2> QED BY <2>1, <1>1, <1>3 DEF IInv, CompletionMeansAcknowledged
<1>4. CASE call' = NoCall /\ cl' = [cl EXCEPT ![call.of] = Closed(@)]
  <2>1. call' \in Call /\ call'.op = "none" BY <1>4, Starts
  <2>2. cl' \in [Clients -> ClientState] /\ AllGood(cl', streams, hist) BY <1>2, <1>4, CloseOne
  <2> QED BY <2>1, <2>2, <1>1 DEF IInv, CompletionMeansAcknowledged
<1> QED BY <1>3, <1>4 DEF DisconnectChecks, Yields

-----------------------------------------------------------------------------
(* The theorems.                                                           *)

\* Before the first call no client is connected.
LEMMA InitInv == HandlesInit => IInv
<1> SUFFICES ASSUME HandlesInit PROVE IInv
  OBVIOUS
<1>1. /\ lib = FALSE /\ handles = {} /\ call = NoCall /\ result = Nothing
      /\ cl = [x \in Clients |-> Fresh] /\ streams = [x \in Clients |-> Silent]
  BY DEF HandlesInit
<1>2. hist \in History
  <2>1. <<>> \in Seq(Nat) /\ {} \in SUBSET Nat OBVIOUS
  <2> QED BY <2>1 DEF HandlesInit, History
<1>3. HandlesTypeOK
  BY <1>1, <1>2, Starts DEF HandlesTypeOK
<1>4. AllGood(cl, streams, hist)
  BY <1>1, FreshIsGood DEF AllGood
<1>5. call.op = "none" /\ result.token = 0
  BY <1>1, Starts
<1> QED BY <1>3, <1>4, <1>5 DEF IInv, CompletionMeansAcknowledged

\* Every step of the thread and of the broker keeps it.
LEMMA StepInv == IInv /\ [HandlesNext]_handleVars => IInv'
<1> SUFFICES ASSUME IInv, [HandlesNext]_handleVars PROVE IInv'
  OBVIOUS
<1>1. CASE UNCHANGED handleVars
  BY <1>1 DEF handleVars, IInv, HandlesTypeOK, CompletionMeansAcknowledged
<1>2. ASSUME NEW x \in Clients,
             Create(x) \/ Destroy(x) \/ Connect(x) \/ Publish(x) \/ BrokerSends(x) \/ BrokerCloses(x)
      PROVE  IInv'
  BY <1>2, CreateKeeps, DestroyKeeps, ConnectKeeps, PublishKeeps, BrokerSendsKeeps, BrokerClosesKeeps
<1>3. ASSUME NEW x \in Clients, Receive(x) \/ Disconnect(x) \/ Yield
      PROVE  IInv'
  BY <1>3, CallKeeps
<1>4. ASSUME NEW x \in Clients, NEW t \in 1 .. MaxTokens, WaitForCompletion(x, t)
      PROVE  IInv'
  <2>1. t \in 1 .. hist.given[x] /\ hist.given[x] \in Nat
    BY <1>4, HistoryFields DEF WaitForCompletion, IInv, HandlesTypeOK
  <2>2. t \in Nat BY <2>1
  <2> QED BY <2>2, <1>4, WaitKeeps
<1>5. CASE ReceiveReads \/ ReceiveWaits \/ YieldReads \/ YieldWaits \/ WaitChecks \/ DisconnectChecks
  BY <1>5, ReceiveReadsKeeps, ReceiveWaitsKeeps, YieldReadsKeeps, YieldWaitsKeeps, WaitChecksKeeps,
     DisconnectChecksKeeps
<1>6. CASE Yield
  BY <1>3, <1>6, ClientsAssumption
<1> QED BY <1>1, <1>2, <1>3, <1>4, <1>5, <1>6 DEF HandlesNext

\* The invariant says what is meant.
LEMMA InvImplies == IInv => HandlesAreApart
<1> SUFFICES ASSUME IInv PROVE MessagesInOrder
  BY DEF IInv, HandlesAreApart
<1> SUFFICES ASSUME NEW x \in handles, cl[x].connected
             PROVE  /\ Len(Here(x)) <= hist.sent[x] /\ \A i \in DOMAIN Here(x) : Here(x)[i] = i
                    /\ {streams[x].inbox[i].n : i \in Messages(x)} = Len(Here(x)) + 1 .. hist.sent[x]
                    /\ \A i, j \in Messages(x) : i < j => streams[x].inbox[i].n < streams[x].inbox[j].n
  BY DEF MessagesInOrder
<1>1. x \in Clients
  BY DEF IInv, HandlesTypeOK
<1>2. InOrder(Here(x), streams[x].inbox, hist.sent[x])
  BY <1>1 DEF IInv, AllGood, Good, Here
<1> QED BY <1>2 DEF InOrder, Messages

\* HandlesAreApart, for any number of clients, connections, messages and tokens: a
\* wait says complete only of what was acknowledged, and no message of a client is
\* lost or overtaken, whichever client's call reads the sockets (MQTTClient_cycle).
THEOREM ClientsAreApart == HandlesSpec => []HandlesAreApart
<1>1. HandlesInit => IInv
  BY InitInv
<1>2. IInv /\ [HandlesNext]_handleVars => IInv'
  BY StepInv
<1>3. IInv => HandlesAreApart
  BY InvImplies
<1> QED BY <1>1, <1>2, <1>3, PTL DEF HandlesSpec
=============================================================================
