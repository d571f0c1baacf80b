-------------------------- MODULE MqttSessionLemmas --------------------------
(***************************************************************************)
(* The lemmas MqttSessionProofs rests on: how a view of the publisher's    *)
(* flows may change, what the operators on lists and files do, in which     *)
(* order a restart finds the lists, and that every action keeps the types. *)
(***************************************************************************)
EXTENDS MqttSession, FiniteSetTheorems, SequenceTheorems, TLAPS

-----------------------------------------------------------------------------
(* The view of the flows.  *)

Forth(p) == p.type \in {"PUBLISH", "PUBREL"}
Back(p)  == p.type \in {"PUBACK", "PUBREC", "PUBCOMP"}

\* A view s of the publisher's flows: the pairs of an id and the message it
\* stands for (flows), the ids whose PUBREL is due (rel), whose files are being
\* removed (end), which the broker holds (held), what travels in the two
\* directions (wire, back), the messages published (pub) and received (got),
\* and whether the session is "kept", a clean one that "lasts", or "past".
Live(s) == s.stage # "past"

FlowsOK(s) ==
    /\ s.flows \subseteq Nat \X (DOMAIN s.pub)
    /\ \A f, g \in s.flows : f[1] = g[1] \/ f[2] = g[2] => f = g
    /\ s.got \subseteq DOMAIN s.pub

\* What is on its way to the broker belongs to a flow, in the state it is in.
PublishOK(s, p) ==
    /\ p.msg \in DOMAIN s.pub /\ p.qos = s.pub[p.msg]
    /\ Live(s) => <<p.id, p.msg>> \in s.flows /\ p.id \notin s.rel
    /\ p.qos = 2 /\ p.id \notin s.held => p.msg \notin s.got
PubrelOK(s, p) ==
    Live(s) => p.id \in s.rel /\ \E m \in DOMAIN s.pub : <<p.id, m>> \in s.flows
WireOK(s) ==
    \A i \in DOMAIN s.wire :
        /\ s.wire[i].type = "PUBLISH" => PublishOK(s, s.wire[i])
        /\ s.wire[i].type = "PUBREL" => PubrelOK(s, s.wire[i])
        /\ Forth(s.wire[i]) => s.wire[i].id \notin s.end

\* One packet of a flow travels at a time, in one direction.
AloneOK(s) ==
    /\ \A i, j \in DOMAIN s.wire :
          Forth(s.wire[i]) /\ Forth(s.wire[j]) /\ s.wire[i].id = s.wire[j].id => i = j
    /\ \A i, j \in DOMAIN s.wire :
          s.wire[i].type = "PUBLISH" /\ s.wire[j].type = "PUBLISH" /\ s.wire[i].msg = s.wire[j].msg => i = j
    /\ \A i \in DOMAIN s.wire, j \in DOMAIN s.back :
          Forth(s.wire[i]) /\ Back(s.back[j]) => s.wire[i].id # s.back[j].id
    /\ \A i, j \in DOMAIN s.back :
          Back(s.back[i]) /\ Back(s.back[j]) /\ s.back[i].id = s.back[j].id => i = j

\* What comes back is about a message the broker has.
AnswerOK(s, p) ==
    /\ p.id \notin s.end
    /\ Live(s)
    /\ \E m \in s.got : <<p.id, m>> \in s.flows /\ (p.type = "PUBACK" <=> s.pub[m] = 1)
    /\ p.type = "PUBREC" => p.id \in s.held
    /\ p.type = "PUBCOMP" => p.id \notin s.held /\ p.id \in s.rel
BackOK(s) == \A j \in DOMAIN s.back : Back(s.back[j]) => AnswerOK(s, s.back[j])

\* The broker holds the ids of QoS 2 messages it received; one it does not
\* hold it has not received, or the PUBREL was sent.
BrokerOK(s) ==
    Live(s) =>
       /\ \A n \in s.held : n \notin s.end /\ \E m \in s.got : <<n, m>> \in s.flows /\ s.pub[m] = 2
       /\ \A f \in s.flows :
             s.pub[f[2]] = 2 /\ f[1] \notin s.held => (f[1] \in s.rel <=> f[2] \in s.got)
       /\ \A f \in s.flows : f[1] \in s.rel \/ f[1] \in s.end => f[2] \in s.got

KeptOK(s) ==
    s.stage = "kept" => \A m \in DOMAIN s.pub : m \in s.got \/ \E f \in s.flows : f[2] = m

Sound(s) == FlowsOK(s) /\ WireOK(s) /\ AloneOK(s) /\ BackOK(s) /\ BrokerOK(s) /\ KeptOK(s)

\* The packets of a flow in w are packets of v, d places further on.
ForthFrom(w, v, d) ==
    \A i \in DOMAIN w : Forth(w[i]) => i + d \in DOMAIN v /\ w[i] = v[i + d]
BackFrom(w, v, d) ==
    \A i \in DOMAIN w : Back(w[i]) => i + d \in DOMAIN v /\ w[i] = v[i + d]

\* With packets taken away, one packet of a flow still travels at a time.
LEMMA FewerPacketsAlone ==
    ASSUME NEW s, NEW t, AloneOK(s), NEW d \in Nat, NEW e \in Nat,
           DOMAIN t.wire \subseteq Nat, DOMAIN t.back \subseteq Nat,
           ForthFrom(t.wire, s.wire, d), BackFrom(t.back, s.back, e)
    PROVE  AloneOK(t)
<1>1. \A i, j \in DOMAIN t.wire :
        Forth(t.wire[i]) /\ Forth(t.wire[j]) /\ t.wire[i].id = t.wire[j].id => i = j
  BY DEF AloneOK, ForthFrom
<1>2. \A i, j \in DOMAIN t.wire :
        t.wire[i].type = "PUBLISH" /\ t.wire[j].type = "PUBLISH" /\ t.wire[i].msg = t.wire[j].msg => i = j
  BY DEF AloneOK, ForthFrom, Forth
<1>3. \A i \in DOMAIN t.wire, j \in DOMAIN t.back :
        Forth(t.wire[i]) /\ Back(t.back[j]) => t.wire[i].id # t.back[j].id
  BY DEF AloneOK, ForthFrom, BackFrom
<1>4. \A i, j \in DOMAIN t.back :
        Back(t.back[i]) /\ Back(t.back[j]) /\ t.back[i].id = t.back[j].id => i = j
  BY DEF AloneOK, BackFrom
<1> QED BY <1>1, <1>2, <1>3, <1>4 DEF AloneOK

\* Packets get lost or are handed on, files go: what is left is sound.
LEMMA Unseen ==
    ASSUME NEW s, NEW t, Sound(s), NEW d \in Nat, NEW e \in Nat,
           DOMAIN t.wire \subseteq Nat, DOMAIN t.back \subseteq Nat,
           t.flows = s.flows, t.held = s.held, t.pub = s.pub, t.got = s.got, t.stage = s.stage,
           t.rel \subseteq s.rel, \A f \in s.flows : f[1] \in s.rel => f[1] \in t.rel,
           t.end \subseteq s.end,
           ForthFrom(t.wire, s.wire, d), BackFrom(t.back, s.back, e)
    PROVE  Sound(t)
<1> USE DEF Sound
<1>1. FlowsOK(t)
  BY DEF FlowsOK
<1>2. AloneOK(t)
  BY FewerPacketsAlone
<1>3. WireOK(t)
  <2> SUFFICES ASSUME NEW i \in DOMAIN t.wire, Forth(t.wire[i])
               PROVE  /\ t.wire[i].type = "PUBLISH" => PublishOK(t, t.wire[i])
                      /\ t.wire[i].type = "PUBREL" => PubrelOK(t, t.wire[i])
                      /\ t.wire[i].id \notin t.end
    BY DEF WireOK, Forth
  <2> DEFINE p == t.wire[i]
  <2>1. i + d \in DOMAIN s.wire /\ p = s.wire[i + d]
    BY DEF ForthFrom
  <2>2. /\ p.type = "PUBLISH" => PublishOK(s, p)
        /\ p.type = "PUBREL" => PubrelOK(s, p)
        /\ p.id \notin s.end
    BY <2>1 DEF WireOK, Forth
  <2> HIDE DEF p
  <2>3. p.type = "PUBLISH" => PublishOK(t, p)
    BY <2>2 DEF PublishOK, Live
  <2>4. p.type = "PUBREL" => PubrelOK(t, p)
    BY <2>2 DEF PubrelOK, Live
  <2> QED BY <2>2, <2>3, <2>4 DEF p
<1>4. BackOK(t)
  <2> SUFFICES ASSUME NEW j \in DOMAIN t.back, Back(t.back[j])
               PROVE  AnswerOK(t, t.back[j])
    BY DEF BackOK
  <2> DEFINE p == t.back[j]
  <2>1. AnswerOK(s, p)
    BY DEF BackFrom, BackOK
  <2> HIDE DEF p
  <2>2. AnswerOK(t, p)
    BY <2>1 DEF AnswerOK, Live
  <2> QED BY <2>2 DEF p
<1>5. BrokerOK(t)
  BY DEF BrokerOK, Live
<1>6. KeptOK(t)
  BY DEF KeptOK
<1> QED BY <1>1, <1>2, <1>3, <1>4, <1>5, <1>6
\* w is v with the packet p added in a new place k.
Added(w, v, k, p) ==
    /\ DOMAIN w = DOMAIN v \cup {k} /\ k \notin DOMAIN v /\ w[k] = p
    /\ \A i \in DOMAIN v : w[i] = v[i]

\* MQTTClient_publish: a new flow, with a free id, sends its PUBLISH.
LEMMA Accepted ==
    ASSUME NEW s, NEW t, Sound(s), Live(s),
           NEW n \in Nat, NEW m, NEW k, NEW p,
           \A f \in s.flows : f[1] # n, n \notin s.rel, n \notin s.end, m \notin DOMAIN s.pub,
           DOMAIN t.pub = DOMAIN s.pub \cup {m}, \A x \in DOMAIN s.pub : t.pub[x] = s.pub[x],
           t.flows = s.flows \cup {<<n, m>>},
           Added(t.wire, s.wire, k, p),
           p.type = "PUBLISH", p.id = n, p.msg = m, p.qos = t.pub[m],
           t.back = s.back, t.rel = s.rel, t.end = s.end, t.held = s.held,
           t.got = s.got, t.stage = s.stage
    PROVE  Sound(t)
<1> USE DEF Sound
<1>1. FlowsOK(t)
  <2>1. t.flows \subseteq Nat \X (DOMAIN t.pub) /\ t.got \subseteq DOMAIN t.pub
    BY DEF FlowsOK
  <2>2. \A f \in s.flows : f[2] # m
    BY DEF FlowsOK
  <2>3. \A f, g \in t.flows : f[1] = g[1] \/ f[2] = g[2] => f = g
    BY <2>2 DEF FlowsOK
  <2> QED BY <2>1, <2>3 DEF FlowsOK
<1>2. /\ \A i \in DOMAIN s.wire : Forth(s.wire[i]) => s.wire[i].id # n
      /\ \A i \in DOMAIN s.wire : s.wire[i].type = "PUBLISH" => s.wire[i].msg # m
      /\ \A j \in DOMAIN s.back : Back(s.back[j]) => s.back[j].id # n
      /\ n \notin s.held
  <2>1. \A i \in DOMAIN s.wire : Forth(s.wire[i]) => s.wire[i].id # n
    BY DEF WireOK, PublishOK, PubrelOK, Forth
  <2>2. \A i \in DOMAIN s.wire : s.wire[i].type = "PUBLISH" => s.wire[i].msg # m
    BY DEF WireOK, PublishOK
  <2>3. \A j \in DOMAIN s.back : Back(s.back[j]) => s.back[j].id # n
    BY DEF BackOK, AnswerOK
  <2>4. n \notin s.held
    BY DEF BrokerOK
  <2> QED BY <2>1, <2>2, <2>3, <2>4
<1>3. AloneOK(t)
  <2>1. \A i, j \in DOMAIN t.wire :
          Forth(t.wire[i]) /\ Forth(t.wire[j]) /\ t.wire[i].id = t.wire[j].id => i = j
    BY <1>2 DEF AloneOK, Added
  <2>2. \A i, j \in DOMAIN t.wire :
          t.wire[i].type = "PUBLISH" /\ t.wire[j].type = "PUBLISH" /\ t.wire[i].msg = t.wire[j].msg => i = j
    BY <1>2 DEF AloneOK, Added
  <2>3. \A i \in DOMAIN t.wire, j \in DOMAIN t.back :
          Forth(t.wire[i]) /\ Back(t.back[j]) => t.wire[i].id # t.back[j].id
    BY <1>2 DEF AloneOK, Added
  <2> QED BY <2>1, <2>2, <2>3 DEF AloneOK
<1>4. WireOK(t)
  <2> SUFFICES ASSUME NEW i \in DOMAIN t.wire, Forth(t.wire[i])
               PROVE  /\ t.wire[i].type = "PUBLISH" => PublishOK(t, t.wire[i])
                      /\ t.wire[i].type = "PUBREL" => PubrelOK(t, t.wire[i])
                      /\ t.wire[i].id \notin t.end
    BY DEF WireOK, Forth
  <2>1. CASE i = k
    <3>1. t.wire[i] = p /\ m \notin t.got
      BY <2>1 DEF Added, FlowsOK
    <3> QED BY <3>1 DEF PublishOK
  <2>2. CASE i \in DOMAIN s.wire
    <3> DEFINE x == t.wire[i]
    <3>1. /\ x.type = "PUBLISH" => PublishOK(s, x)
          /\ x.type = "PUBREL" => PubrelOK(s, x)
          /\ x.id \notin s.end
      BY <2>2 DEF WireOK, Added
    <3> HIDE DEF x
    <3>2. x.type = "PUBLISH" => PublishOK(t, x)
      BY <3>1 DEF PublishOK, Live
    <3>3. x.type = "PUBREL" => PubrelOK(t, x)
      BY <3>1 DEF PubrelOK, Live
    <3> QED BY <3>1, <3>2, <3>3 DEF x
  <2> QED BY <2>1, <2>2 DEF Added
<1>5. BackOK(t)
  BY DEF BackOK, AnswerOK, Live, FlowsOK
<1>6. BrokerOK(t)
  <2>1. \A x \in t.held : x \notin t.end /\ \E y \in t.got : <<x, y>> \in t.flows /\ t.pub[y] = 2
    BY DEF BrokerOK, FlowsOK
  <2>2. \A f \in s.flows : f[2] \in DOMAIN s.pub
    BY DEF FlowsOK
  <2>3. m \notin t.got
    BY DEF FlowsOK
  <2>4. \A f \in t.flows :
          t.pub[f[2]] = 2 /\ f[1] \notin t.held => (f[1] \in t.rel <=> f[2] \in t.got)
    BY <2>2, <2>3 DEF BrokerOK
  <2>5. \A f \in t.flows : f[1] \in t.rel \/ f[1] \in t.end => f[2] \in t.got
    BY <2>2 DEF BrokerOK
  <2> QED BY <2>1, <2>4, <2>5 DEF BrokerOK
<1>7. KeptOK(t)
  <2>1. <<n, m>> \in t.flows /\ <<n, m>>[2] = m
    OBVIOUS
  <2> QED BY <2>1 DEF KeptOK
<1> QED BY <1>1, <1>3, <1>4, <1>5, <1>6, <1>7

\* PUBREC is read: the PUBREL of the flow is due, and sent or not.
LEMMA Released ==
    ASSUME NEW s, NEW t, Sound(s), NEW n, NEW m \in s.got, NEW d \in Nat,
           <<n, m>> \in s.flows, n \in s.held,
           DOMAIN t.wire \subseteq Nat, DOMAIN t.back \subseteq Nat,
           \A i \in DOMAIN s.wire : Forth(s.wire[i]) => s.wire[i].id # n,
           BackFrom(t.back, s.back, d),
           \A j \in DOMAIN t.back : Back(t.back[j]) => t.back[j].id # n,
           \/ ForthFrom(t.wire, s.wire, 0)
           \/ \E k, p : Added(t.wire, s.wire, k, p) /\ p.type = "PUBREL" /\ p.id = n,
           Live(s), t.rel = s.rel \cup {n},
           t.flows = s.flows, t.pub = s.pub, t.end = s.end, t.held = s.held,
           t.got = s.got, t.stage = s.stage
    PROVE  Sound(t)
<1> USE DEF Sound
<1>1. FlowsOK(t)
  BY DEF FlowsOK
<1>2. \A i \in DOMAIN t.wire : Forth(t.wire[i]) =>
        \/ i \in DOMAIN s.wire /\ t.wire[i] = s.wire[i] /\ t.wire[i].id # n
        \/ t.wire[i].type = "PUBREL" /\ t.wire[i].id = n /\ i \notin DOMAIN s.wire
  <2>1. CASE ForthFrom(t.wire, s.wire, 0)
    BY <2>1 DEF ForthFrom
  <2>2. CASE \E k, p : Added(t.wire, s.wire, k, p) /\ p.type = "PUBREL" /\ p.id = n
    BY <2>2 DEF Added
  <2> QED BY <2>1, <2>2
<1>3. \A i, j \in DOMAIN t.wire : i \notin DOMAIN s.wire /\ j \notin DOMAIN s.wire
                                  /\ Forth(t.wire[i]) /\ Forth(t.wire[j]) => i = j
  <2>1. CASE ForthFrom(t.wire, s.wire, 0)
    BY <2>1 DEF ForthFrom
  <2>2. CASE \E k, p : Added(t.wire, s.wire, k, p) /\ p.type = "PUBREL" /\ p.id = n
    BY <2>2 DEF Added
  <2> QED BY <2>1, <2>2
<1>4. AloneOK(t)
  <2>1. \A i, j \in DOMAIN t.wire :
          Forth(t.wire[i]) /\ Forth(t.wire[j]) /\ t.wire[i].id = t.wire[j].id => i = j
    BY <1>2, <1>3 DEF AloneOK
  <2>2. \A i, j \in DOMAIN t.wire :
          t.wire[i].type = "PUBLISH" /\ t.wire[j].type = "PUBLISH" /\ t.wire[i].msg = t.wire[j].msg => i = j
    BY <1>2 DEF AloneOK, Forth
  <2>3. \A i \in DOMAIN t.wire, j \in DOMAIN t.back :
          Forth(t.wire[i]) /\ Back(t.back[j]) => t.wire[i].id # t.back[j].id
    BY <1>2 DEF AloneOK, BackFrom
  <2>4. \A i, j \in DOMAIN t.back :
          Back(t.back[i]) /\ Back(t.back[j]) /\ t.back[i].id = t.back[j].id => i = j
    BY DEF AloneOK, BackFrom
  <2> QED BY <2>1, <2>2, <2>3, <2>4 DEF AloneOK
<1>5. n \notin t.end /\ m \in DOMAIN t.pub
  BY DEF BrokerOK, FlowsOK
<1>6. WireOK(t)
  <2> SUFFICES ASSUME NEW i \in DOMAIN t.wire, Forth(t.wire[i])
               PROVE  /\ t.wire[i].type = "PUBLISH" => PublishOK(t, t.wire[i])
                      /\ t.wire[i].type = "PUBREL" => PubrelOK(t, t.wire[i])
                      /\ t.wire[i].id \notin t.end
    BY DEF WireOK, Forth
  <2> DEFINE x == t.wire[i]
  <2>1. CASE x.type = "PUBREL" /\ x.id = n
    <3> HIDE DEF x
    <3>1. PubrelOK(t, x) /\ x.id \notin t.end
      BY <1>5, <2>1 DEF PubrelOK, Live
    <3> QED BY <2>1, <3>1 DEF x
  <2>2. CASE i \in DOMAIN s.wire /\ x = s.wire[i] /\ x.id # n
    <3>1. /\ x.type = "PUBLISH" => PublishOK(s, x)
          /\ x.type = "PUBREL" => PubrelOK(s, x)
          /\ x.id \notin s.end
      BY <2>2 DEF WireOK
    <3> HIDE DEF x
    <3>2. x.type = "PUBLISH" => PublishOK(t, x)
      BY <2>2, <3>1 DEF PublishOK, Live
    <3>3. x.type = "PUBREL" => PubrelOK(t, x)
      BY <3>1 DEF PubrelOK, Live
    <3> QED BY <3>1, <3>2, <3>3 DEF x
  <2> QED BY <1>2, <2>1, <2>2
<1>7. BackOK(t)
  <2> SUFFICES ASSUME NEW j \in DOMAIN t.back, Back(t.back[j])
               PROVE  AnswerOK(t, t.back[j])
    BY DEF BackOK
  <2> DEFINE p == t.back[j]
  <2>1. AnswerOK(s, p)
    BY DEF BackFrom, BackOK
  <2> HIDE DEF p
  <2>2. AnswerOK(t, p)
    BY <2>1 DEF AnswerOK, Live
  <2> QED BY <2>2 DEF p
<1>8. BrokerOK(t)
  <2>1. \A f \in t.flows : f[1] = n => f[2] = m
    BY DEF FlowsOK
  <2> QED BY <2>1 DEF BrokerOK, Live
<1>9. KeptOK(t)
  BY DEF KeptOK
<1> QED BY <1>1, <1>4, <1>6, <1>7, <1>8, <1>9

\* The id n leaves: its flow is over, or its files are being removed.
LEMMA Forgotten ==
    ASSUME NEW s, NEW t, Sound(s), NEW n, NEW d \in Nat, NEW e \in Nat,
           DOMAIN t.wire \subseteq Nat, DOMAIN t.back \subseteq Nat,
           ForthFrom(t.wire, s.wire, e), BackFrom(t.back, s.back, d),
           \A i \in DOMAIN t.wire : Forth(t.wire[i]) => t.wire[i].id # n,
           \A j \in DOMAIN t.back : Back(t.back[j]) => t.back[j].id # n,
           n \notin s.held,
           \A f \in s.flows : f[1] = n => f[2] \in s.got,
           t.flows \subseteq s.flows, \A f \in s.flows : f[1] # n => f \in t.flows,
           t.rel \subseteq s.rel, \A x \in s.rel : x # n => x \in t.rel,
           \A f \in t.flows : f[1] = n => (s.pub[f[2]] = 2 => n \in t.rel),
           \A x \in t.end : x # n => x \in s.end,
           t.pub = s.pub, t.held = s.held, t.got = s.got, t.stage = s.stage
    PROVE  Sound(t)
<1> USE DEF Sound
<1>1. FlowsOK(t)
  BY DEF FlowsOK
<1>2. AloneOK(t)
  BY FewerPacketsAlone
<1>3. WireOK(t)
  <2> SUFFICES ASSUME NEW i \in DOMAIN t.wire, Forth(t.wire[i])
               PROVE  /\ t.wire[i].type = "PUBLISH" => PublishOK(t, t.wire[i])
                      /\ t.wire[i].type = "PUBREL" => PubrelOK(t, t.wire[i])
                      /\ t.wire[i].id \notin t.end
    BY DEF WireOK, Forth
  <2> DEFINE p == t.wire[i]
  <2>1. i + e \in DOMAIN s.wire /\ p = s.wire[i + e]
    BY DEF ForthFrom
  <2>2. /\ p.type = "PUBLISH" => PublishOK(s, p)
        /\ p.type = "PUBREL" => PubrelOK(s, p)
        /\ p.id \notin s.end /\ p.id # n
    BY <2>1 DEF WireOK, Forth
  <2> HIDE DEF p
  <2>3. p.type = "PUBLISH" => PublishOK(t, p)
    BY <2>2 DEF PublishOK, Live
  <2>4. p.type = "PUBREL" => PubrelOK(t, p)
    BY <2>2 DEF PubrelOK, Live
  <2> QED BY <2>2, <2>3, <2>4 DEF p
<1>4. BackOK(t)
  <2> SUFFICES ASSUME NEW j \in DOMAIN t.back, Back(t.back[j])
               PROVE  AnswerOK(t, t.back[j])
    BY DEF BackOK
  <2> DEFINE p == t.back[j]
  <2>1. AnswerOK(s, p) /\ p.id # n
    BY DEF BackFrom, BackOK
  <2> HIDE DEF p
  <2>2. AnswerOK(t, p)
    BY <2>1 DEF AnswerOK, Live
  <2> QED BY <2>2 DEF p
<1>5. BrokerOK(t)
  BY DEF BrokerOK, Live
<1>6. KeptOK(t)
  BY DEF KeptOK
<1> QED BY <1>1, <1>2, <1>3, <1>4, <1>5, <1>6

\* The session is past, or starts again with nothing.
LEMMA Reset ==
    ASSUME NEW s, NEW t, Sound(s),
           t.flows = {}, t.rel = {}, t.end = {}, t.pub = s.pub, t.got = s.got,
           t.stage # "kept",
           DOMAIN t.wire \subseteq Nat, DOMAIN t.back \subseteq Nat,
           \A j \in DOMAIN t.back : ~Back(t.back[j]),
           \/ t.stage = "past" /\ t.held = s.held /\ \E d \in Nat : ForthFrom(t.wire, s.wire, d)
           \/ t.held = {} /\ \A i \in DOMAIN t.wire : ~Forth(t.wire[i])
    PROVE  Sound(t)
<1> USE DEF Sound
<1>1. FlowsOK(t)
  BY DEF FlowsOK
<1>2. PICK d \in Nat : ForthFrom(t.wire, s.wire, d)
  BY DEF ForthFrom
<1>3. AloneOK(t)
  <2>1. BackFrom(t.back, s.back, 0)
    BY DEF BackFrom
  <2> QED BY <1>2, <2>1, FewerPacketsAlone
<1>4. WireOK(t)
  <2> SUFFICES ASSUME NEW i \in DOMAIN t.wire, Forth(t.wire[i])
               PROVE  /\ t.wire[i].type = "PUBLISH" => PublishOK(t, t.wire[i])
                      /\ t.wire[i].type = "PUBREL" => PubrelOK(t, t.wire[i])
                      /\ t.wire[i].id \notin t.end
    BY DEF WireOK, Forth
  <2>1. /\ t.stage = "past" /\ t.held = s.held
        /\ i + d \in DOMAIN s.wire /\ t.wire[i] = s.wire[i + d]
    BY <1>2 DEF ForthFrom
  <2>2. t.wire[i].type = "PUBLISH" => PublishOK(s, t.wire[i])
    BY <2>1 DEF WireOK
  <2> QED BY <2>1, <2>2 DEF PublishOK, PubrelOK, Live
<1>5. BackOK(t) /\ BrokerOK(t) /\ KeptOK(t)
  BY DEF BackOK, BrokerOK, KeptOK, Live
<1> QED BY <1>1, <1>3, <1>4, <1>5

\* MQTTClient_publish when the write fails: the new flow sends nothing, all that
\* was on its way back is lost, and a clean session is past.
LEMMA AcceptedUnsent ==
    ASSUME NEW s, NEW t, Sound(s), Live(s),
           NEW n \in Nat, NEW m, NEW p, NEW v, NEW k,
           \A f \in s.flows : f[1] # n, n \notin s.rel, n \notin s.end, m \notin DOMAIN s.pub,
           DOMAIN t.pub = DOMAIN s.pub \cup {m}, \A x \in DOMAIN s.pub : t.pub[x] = s.pub[x],
           p.type = "PUBLISH", p.id = n, p.msg = m, p.qos = t.pub[m],
           Added(v, s.wire, k, p), t.wire = s.wire, DOMAIN t.wire \subseteq Nat,
           DOMAIN t.back = {}, t.held = s.held, t.got = s.got,
           \/ /\ t.flows = s.flows \cup {<<n, m>>} /\ t.rel = s.rel /\ t.end = s.end
              /\ t.stage = s.stage
           \/ t.flows = {} /\ t.rel = {} /\ t.end = {} /\ t.stage = "past"
    PROVE  Sound(t)
<1> DEFINE w == [flows |-> s.flows \cup {<<n, m>>}, rel |-> s.rel, end |-> s.end, held |-> s.held,
                 wire |-> v, back |-> s.back, pub |-> t.pub, got |-> s.got, stage |-> s.stage]
<1>1. /\ w.flows = s.flows \cup {<<n, m>>} /\ w.rel = s.rel /\ w.end = s.end /\ w.held = s.held
      /\ w.wire = v /\ w.back = s.back /\ w.pub = t.pub /\ w.got = s.got /\ w.stage = s.stage
  OBVIOUS
<1> HIDE DEF w
<1>2. Sound(w)
  BY <1>1, Accepted
<1>3. ForthFrom(t.wire, w.wire, 0)
  <2>1. \A i \in DOMAIN t.wire : i + 0 = i
    OBVIOUS
  <2> QED BY <1>1, <2>1 DEF ForthFrom, Added
<1>4. BackFrom(t.back, w.back, 0) /\ \A j \in DOMAIN t.back : ~Back(t.back[j])
  BY DEF BackFrom
<1>5. 0 \in Nat /\ DOMAIN t.back \subseteq Nat
  OBVIOUS
<1>6. CASE t.stage = s.stage /\ t.flows = w.flows /\ t.rel = s.rel /\ t.end = s.end
  <2>1. /\ t.flows = w.flows /\ t.held = w.held /\ t.pub = w.pub /\ t.got = w.got /\ t.stage = w.stage
        /\ t.rel = w.rel /\ t.end = w.end
    BY <1>1, <1>6
  <2>2. /\ t.rel \subseteq w.rel /\ t.end \subseteq w.end
        /\ \A f \in w.flows : f[1] \in w.rel => f[1] \in t.rel
    BY <2>1
  <2> QED BY <1>2, <1>3, <1>4, <1>5, <2>1, <2>2, Unseen
<1>7. CASE t.flows = {} /\ t.rel = {} /\ t.end = {} /\ t.stage = "past"
  BY <1>1, <1>2, <1>3, <1>4, <1>5, <1>7, Reset
<1> QED BY <1>1, <1>6, <1>7

\* The list is sent again over a new connection.
LEMMA Resent ==
    ASSUME NEW s, NEW t, Sound(s), Live(s), s.end = {},
           t.flows = s.flows, t.rel = s.rel, t.end = s.end, t.held = s.held,
           t.pub = s.pub, t.got = s.got, t.stage = s.stage,
           \A j \in DOMAIN t.back : ~Back(t.back[j]),
           \A i \in DOMAIN t.wire :
              \/ /\ t.wire[i].type = "PUBLISH" /\ <<t.wire[i].id, t.wire[i].msg>> \in s.flows
                 /\ t.wire[i].id \notin s.rel /\ t.wire[i].qos = s.pub[t.wire[i].msg]
              \/ /\ t.wire[i].type = "PUBREL" /\ t.wire[i].id \in s.rel
                 /\ \E f \in s.flows : f[1] = t.wire[i].id,
           \A i, j \in DOMAIN t.wire : t.wire[i].id = t.wire[j].id => i = j
    PROVE  Sound(t)
<1> USE DEF Sound
<1>1. FlowsOK(t)
  BY DEF FlowsOK
<1>2. AloneOK(t)
  <2>1. \A i, j \in DOMAIN t.wire :
          t.wire[i].type = "PUBLISH" /\ t.wire[j].type = "PUBLISH" /\ t.wire[i].msg = t.wire[j].msg => i = j
    BY DEF FlowsOK
  <2> QED BY <2>1 DEF AloneOK
<1>3. WireOK(t)
  <2> SUFFICES ASSUME NEW i \in DOMAIN t.wire
               PROVE  /\ t.wire[i].type = "PUBLISH" => PublishOK(t, t.wire[i])
                      /\ t.wire[i].type = "PUBREL" => PubrelOK(t, t.wire[i])
    BY DEF WireOK
  <2> DEFINE p == t.wire[i]
  <2>1. \/ /\ p.type = "PUBLISH" /\ <<p.id, p.msg>> \in s.flows
           /\ p.id \notin s.rel /\ p.qos = s.pub[p.msg]
        \/ /\ p.type = "PUBREL" /\ p.id \in s.rel
           /\ \E f \in s.flows : f[1] = p.id
    OBVIOUS
  <2> HIDE DEF p
  <2>2. p.type = "PUBLISH" => PublishOK(t, p)
    BY <2>1 DEF PublishOK, FlowsOK, BrokerOK
  <2>3. p.type = "PUBREL" => PubrelOK(t, p)
    BY <2>1 DEF PubrelOK, FlowsOK
  <2> QED BY <2>2, <2>3 DEF p
<1>4. BackOK(t) /\ BrokerOK(t) /\ KeptOK(t)
  BY DEF BackOK, BrokerOK, KeptOK, Live
<1> QED BY <1>1, <1>2, <1>3, <1>4

\* The broker answers the packet with the id n, if the connection is there.
Answered(s, t, n, type) ==
    \/ BackFrom(t.back, s.back, 0)
    \/ /\ Live(s)
       /\ \E k, p : Added(t.back, s.back, k, p) /\ p.type = type /\ p.id = n

\* The broker answers the first packet: the answer travels alone.
LEMMA AnswerAlone ==
    ASSUME NEW s, NEW t, Sound(s), NEW n, NEW type, 1 \in DOMAIN s.wire,
           Forth(s.wire[1]), s.wire[1].id = n,
           DOMAIN t.wire \subseteq Nat \ {0}, DOMAIN t.back \subseteq Nat,
           ForthFrom(t.wire, s.wire, 1), Answered(s, t, n, type)
    PROVE  /\ AloneOK(t)
           /\ \A i \in DOMAIN t.wire : Forth(t.wire[i]) => t.wire[i].id # n
           /\ \A i \in DOMAIN t.wire : t.wire[i].type = "PUBLISH" /\ s.wire[1].type = "PUBLISH"
                                         => t.wire[i].msg # s.wire[1].msg
           /\ \A j \in DOMAIN t.back : Back(t.back[j]) =>
                 \/ j \in DOMAIN s.back /\ t.back[j] = s.back[j] /\ t.back[j].id # n
                 \/ j \notin DOMAIN s.back /\ t.back[j].id = n /\ t.back[j].type = type /\ Live(s)
<1> USE DEF Sound
<1>1. \A i \in DOMAIN t.wire : Forth(t.wire[i]) =>
          i + 1 \in DOMAIN s.wire /\ t.wire[i] = s.wire[i + 1] /\ i + 1 # 1
  BY DEF ForthFrom
<1>2. \A i \in DOMAIN t.wire : Forth(t.wire[i]) => t.wire[i].id # n
  BY <1>1 DEF AloneOK
<1>3. \A i \in DOMAIN t.wire : t.wire[i].type = "PUBLISH" /\ s.wire[1].type = "PUBLISH"
                                 => t.wire[i].msg # s.wire[1].msg
  BY <1>1 DEF AloneOK, Forth
<1>4. \A j \in DOMAIN s.back : Back(s.back[j]) => s.back[j].id # n
  BY DEF AloneOK
<1>5. /\ \A j \in DOMAIN t.back : Back(t.back[j]) =>
            \/ j \in DOMAIN s.back /\ t.back[j] = s.back[j] /\ t.back[j].id # n
            \/ j \notin DOMAIN s.back /\ t.back[j].id = n /\ t.back[j].type = type /\ Live(s)
      /\ \A i, j \in DOMAIN t.back : i \notin DOMAIN s.back /\ j \notin DOMAIN s.back
                                       /\ Back(t.back[i]) /\ Back(t.back[j]) => i = j
  <2>1. CASE BackFrom(t.back, s.back, 0)
    BY <1>4, <2>1 DEF BackFrom
  <2>2. CASE Live(s) /\ \E k, p : Added(t.back, s.back, k, p) /\ p.type = type /\ p.id = n
    BY <1>4, <2>2 DEF Added
  <2> QED BY <2>1, <2>2 DEF Answered
<1>6. AloneOK(t)
  <2>1. \A i, j \in DOMAIN t.wire :
          Forth(t.wire[i]) /\ Forth(t.wire[j]) /\ t.wire[i].id = t.wire[j].id => i = j
    BY <1>1 DEF AloneOK
  <2>2. \A i, j \in DOMAIN t.wire :
          t.wire[i].type = "PUBLISH" /\ t.wire[j].type = "PUBLISH" /\ t.wire[i].msg = t.wire[j].msg => i = j
    BY <1>1 DEF AloneOK, Forth
  <2>3. \A i \in DOMAIN t.wire, j \in DOMAIN t.back :
          Forth(t.wire[i]) /\ Back(t.back[j]) => t.wire[i].id # t.back[j].id
    BY <1>1, <1>2, <1>5 DEF AloneOK
  <2>4. \A i, j \in DOMAIN t.back :
          Back(t.back[i]) /\ Back(t.back[j]) /\ t.back[i].id = t.back[j].id => i = j
    BY <1>5 DEF AloneOK
  <2> QED BY <2>1, <2>2, <2>3, <2>4 DEF AloneOK
<1> QED BY <1>2, <1>3, <1>5, <1>6

\* The broker reads a PUBLISH, keeps it if of QoS 2, and answers.
LEMMA ReceivedNow ==
    ASSUME NEW s, NEW t, Sound(s), 1 \in DOMAIN s.wire,
           NEW n, NEW m, s.wire[1].type = "PUBLISH", s.wire[1].id = n, s.wire[1].msg = m,
           NEW type, s.pub[m] \in {1, 2},
           DOMAIN t.wire \subseteq Nat \ {0}, DOMAIN t.back \subseteq Nat,
           ForthFrom(t.wire, s.wire, 1), Answered(s, t, n, type),
           \/ s.pub[m] = 1 /\ type = "PUBACK" /\ t.held = s.held /\ t.got = s.got \cup {m}
           \/ /\ s.pub[m] = 2 /\ type = "PUBREC" /\ t.held = s.held \cup {n}
              /\ t.got = IF n \in s.held THEN s.got ELSE s.got \cup {m},
           t.flows = s.flows, t.rel = s.rel, t.end = s.end, t.pub = s.pub, t.stage = s.stage
    PROVE  Sound(t)
<1>1. /\ AloneOK(t)
      /\ \A i \in DOMAIN t.wire : Forth(t.wire[i]) => t.wire[i].id # n
      /\ \A i \in DOMAIN t.wire : t.wire[i].type = "PUBLISH" => t.wire[i].msg # m
      /\ \A j \in DOMAIN t.back : Back(t.back[j]) =>
            \/ j \in DOMAIN s.back /\ t.back[j] = s.back[j] /\ t.back[j].id # n
            \/ j \notin DOMAIN s.back /\ t.back[j].id = n /\ t.back[j].type = type /\ Live(s)
  BY AnswerAlone DEF Forth
<1> USE DEF Sound
<1>2. PublishOK(s, s.wire[1]) /\ n \notin s.end
  BY DEF WireOK, Forth
<1>3. /\ m \in DOMAIN s.pub /\ (Live(s) => <<n, m>> \in s.flows /\ n \notin s.rel)
      /\ \A x \in s.got : x \in t.got
  BY <1>2 DEF PublishOK
<1>4. m \in t.got \/ ~Live(s)
  <2>1. CASE n \in s.held /\ s.pub[m] = 2 /\ Live(s)
    <3>1. PICK x \in s.got : <<n, x>> \in s.flows
      BY <2>1 DEF BrokerOK
    <3>2. x = m
      <4>1. <<n, x>>[1] = <<n, m>>[1] /\ <<n, m>> \in s.flows
        BY <1>3, <2>1
      <4>2. <<n, x>> = <<n, m>>
        BY <3>1, <4>1 DEF FlowsOK
      <4> QED BY <4>2
    <3> QED BY <1>3, <3>1, <3>2
  <2> QED BY <2>1
<1>5. FlowsOK(t)
  BY <1>3 DEF FlowsOK
<1>6. WireOK(t)
  <2> SUFFICES ASSUME NEW i \in DOMAIN t.wire, Forth(t.wire[i])
               PROVE  /\ t.wire[i].type = "PUBLISH" => PublishOK(t, t.wire[i])
                      /\ t.wire[i].type = "PUBREL" => PubrelOK(t, t.wire[i])
                      /\ t.wire[i].id \notin t.end
    BY DEF WireOK, Forth
  <2> DEFINE p == t.wire[i]
  <2>1. i + 1 \in DOMAIN s.wire /\ p = s.wire[i + 1]
    BY DEF ForthFrom
  <2>2. /\ p.type = "PUBLISH" => PublishOK(s, p)
        /\ p.type = "PUBREL" => PubrelOK(s, p)
        /\ p.id \notin s.end /\ p.id # n
        /\ p.type = "PUBLISH" => p.msg # m
    BY <1>1, <2>1 DEF WireOK, Forth
  <2> HIDE DEF p
  <2>3. p.type = "PUBLISH" => PublishOK(t, p)
    BY <2>2 DEF PublishOK, Live
  <2>4. p.type = "PUBREL" => PubrelOK(t, p)
    BY <2>2 DEF PubrelOK, Live
  <2> QED BY <2>2, <2>3, <2>4 DEF p
<1>7. BackOK(t)
  <2> SUFFICES ASSUME NEW j \in DOMAIN t.back, Back(t.back[j])
               PROVE  AnswerOK(t, t.back[j])
    BY DEF BackOK
  <2> DEFINE p == t.back[j]
  <2>1. CASE j \in DOMAIN s.back /\ p = s.back[j] /\ p.id # n
    <3>1. AnswerOK(s, p)
      BY <2>1 DEF BackOK
    <3> HIDE DEF p
    <3>2. AnswerOK(t, p)
      BY <1>3, <2>1, <3>1 DEF AnswerOK, Live
    <3> QED BY <3>2 DEF p
  <2>2. CASE p.id = n /\ p.type = type /\ Live(s)
    <3> HIDE DEF p
    <3>1. <<n, m>> \in t.flows /\ m \in t.got /\ n \notin t.end
      BY <1>2, <1>3, <1>4, <2>2
    <3>2. AnswerOK(t, p)
      BY <2>2, <3>1 DEF AnswerOK, Live
    <3> QED BY <3>2 DEF p
  <2> QED BY <1>1, <2>1, <2>2
<1>8. BrokerOK(t)
  <2> SUFFICES ASSUME Live(s) PROVE BrokerOK(t)
    BY DEF BrokerOK, Live
  <2>1. <<n, m>> \in s.flows /\ n \notin s.rel /\ m \in t.got
    BY <1>3, <1>4
  <2>2. \A f \in s.flows : (f[1] = n \/ f[2] = m) => f[1] = n /\ f[2] = m
    BY <2>1 DEF FlowsOK
  <2>3. \A x \in t.held : x \notin t.end /\ \E y \in t.got : <<x, y>> \in t.flows /\ t.pub[y] = 2
    BY <1>2, <1>3, <2>1 DEF BrokerOK
  <2>4. \A f \in t.flows :
          t.pub[f[2]] = 2 /\ f[1] \notin t.held => (f[1] \in t.rel <=> f[2] \in t.got)
    BY <2>1, <2>2 DEF BrokerOK
  <2>5. \A f \in t.flows : f[1] \in t.rel \/ f[1] \in t.end => f[2] \in t.got
    BY <1>3 DEF BrokerOK
  <2> QED BY <2>3, <2>4, <2>5 DEF BrokerOK
<1>9. KeptOK(t)
  BY <1>3 DEF KeptOK
<1> QED BY <1>1, <1>5, <1>6, <1>7, <1>8, <1>9

\* The broker reads a PUBREL, lets the id go, and answers.
LEMMA PubrelRead ==
    ASSUME NEW s, NEW t, Sound(s), 1 \in DOMAIN s.wire,
           NEW n, s.wire[1].type = "PUBREL", s.wire[1].id = n,
           \A m \in DOMAIN s.pub : s.pub[m] \in {1, 2},
           Live(s) => \A f \in s.flows : f[1] = n => s.pub[f[2]] = 2,
           DOMAIN t.wire \subseteq Nat \ {0}, DOMAIN t.back \subseteq Nat,
           ForthFrom(t.wire, s.wire, 1), Answered(s, t, n, "PUBCOMP"),
           t.held = s.held \ {n}, t.got = s.got,
           t.flows = s.flows, t.rel = s.rel, t.end = s.end, t.pub = s.pub, t.stage = s.stage
    PROVE  Sound(t)
<1>1. /\ AloneOK(t)
      /\ \A i \in DOMAIN t.wire : Forth(t.wire[i]) => t.wire[i].id # n
      /\ \A j \in DOMAIN t.back : Back(t.back[j]) =>
            \/ j \in DOMAIN s.back /\ t.back[j] = s.back[j] /\ t.back[j].id # n
            \/ j \notin DOMAIN s.back /\ t.back[j].id = n /\ t.back[j].type = "PUBCOMP" /\ Live(s)
  BY AnswerAlone DEF Forth
<1> USE DEF Sound
<1>2. PubrelOK(s, s.wire[1]) /\ n \notin s.end
  BY DEF WireOK, Forth
<1>3. FlowsOK(t) /\ KeptOK(t)
  BY DEF FlowsOK, KeptOK
<1>4. Live(s) => n \in s.rel /\ \E m \in s.got : <<n, m>> \in s.flows /\ s.pub[m] = 2
  <2> SUFFICES ASSUME Live(s)
               PROVE  n \in s.rel /\ \E m \in s.got : <<n, m>> \in s.flows /\ s.pub[m] = 2
    OBVIOUS
  <2>1. n \in s.rel
    BY <1>2 DEF PubrelOK
  <2>2. PICK m \in DOMAIN s.pub : <<n, m>> \in s.flows
    BY <1>2 DEF PubrelOK
  <2>3. <<n, m>>[1] = n /\ <<n, m>>[2] = m
    OBVIOUS
  <2>4. m \in s.got /\ s.pub[m] = 2
    BY <2>1, <2>2, <2>3 DEF BrokerOK
  <2> QED BY <2>1, <2>2, <2>4
<1>5. WireOK(t)
  <2> SUFFICES ASSUME NEW i \in DOMAIN t.wire, Forth(t.wire[i])
               PROVE  /\ t.wire[i].type = "PUBLISH" => PublishOK(t, t.wire[i])
                      /\ t.wire[i].type = "PUBREL" => PubrelOK(t, t.wire[i])
                      /\ t.wire[i].id \notin t.end
    BY DEF WireOK, Forth
  <2> DEFINE p == t.wire[i]
  <2>1. i + 1 \in DOMAIN s.wire /\ p = s.wire[i + 1]
    BY DEF ForthFrom
  <2>2. /\ p.type = "PUBLISH" => PublishOK(s, p)
        /\ p.type = "PUBREL" => PubrelOK(s, p)
        /\ p.id \notin s.end /\ p.id # n
    BY <1>1, <2>1 DEF WireOK, Forth
  <2> HIDE DEF p
  <2>3. p.type = "PUBLISH" => PublishOK(t, p)
    BY <2>2 DEF PublishOK, Live
  <2>4. p.type = "PUBREL" => PubrelOK(t, p)
    BY <2>2 DEF PubrelOK, Live
  <2> QED BY <2>2, <2>3, <2>4 DEF p
<1>6. BackOK(t)
  <2> SUFFICES ASSUME NEW j \in DOMAIN t.back, Back(t.back[j])
               PROVE  AnswerOK(t, t.back[j])
    BY DEF BackOK
  <2> DEFINE p == t.back[j]
  <2>1. CASE j \in DOMAIN s.back /\ p = s.back[j] /\ p.id # n
    <3>1. AnswerOK(s, p)
      BY <2>1 DEF BackOK
    <3> HIDE DEF p
    <3>2. AnswerOK(t, p)
      BY <2>1, <3>1 DEF AnswerOK, Live
    <3> QED BY <3>2 DEF p
  <2>2. CASE p.id = n /\ p.type = "PUBCOMP" /\ Live(s)
    <3> HIDE DEF p
    <3>1. AnswerOK(t, p)
      BY <1>2, <1>4, <2>2 DEF AnswerOK, Live
    <3> QED BY <3>1 DEF p
  <2> QED BY <1>1, <2>1, <2>2
<1>7. BrokerOK(t)
  BY <1>4 DEF BrokerOK, Live
<1> QED BY <1>1, <1>3, <1>5, <1>6, <1>7

-----------------------------------------------------------------------------
(* The inductive invariant. *)

Types   == {"PUBLISH", "PUBACK", "PUBREC", "PUBREL", "PUBCOMP"}
Packets == [type : Types, id : Nat, qos : 0..2, msg : Nat, dup : BOOLEAN]
Files   == [kind : {"s", "sc", "q", "r"}, n : Nat, msg : Nat, qos : 0..2]
Ops     == [op : {"put", "rm"}, file : Files]
Entries == [id : Nat, qos : 0..2, msg : Nat, next : {"PUBACK", "PUBREC", "PUBCOMP"}]
Clients == [out : Seq(Entries), inb : SUBSET [id : Nat, msg : Nat],
            queue : Seq([msg : Nat, seq : Nat]), msgID : Nat, seqno : Nat]
Apps    == [published : Seq(Qos), received : Seq(Nat), offered : Seq(Qos),
            arrived : Seq(Nat), crashes : Nat]

Shapes ==
    /\ mode \in Modes /\ relDup \in BOOLEAN /\ alive \in BOOLEAN /\ up \in BOOLEAN
    /\ stalled \in BOOLEAN /\ run \in {"cycle", "ready", "deliver"}
    /\ client \in Clients
    /\ held \in Seq(Packets) /\ Len(held) <= 1
    /\ toBroker \in Seq(Packets) /\ toClient \in Seq(Packets)
    /\ todo \in Seq(Ops)
    /\ disk \in SUBSET Files /\ IsFiniteSet(disk)
    /\ broker \in [in : SUBSET Nat, out : Seq(Entries)]
    /\ app \in Apps /\ faults \in Nat

\* What is not there when the connection or the process is not.
Nothing ==
    /\ up => alive
    /\ held # <<>> \/ toClient # <<>> => up
    /\ ~alive => client.out = <<>> /\ todo = <<>>
    /\ mode = "clean" => disk = {} /\ todo = <<>> /\ (~up => client.out = <<>>)
    /\ run = "deliver" => client.queue # <<>>
    /\ ~up => run = "cycle"

Persistent == mode = "persistent"
Sent == FilesOf(disk, "s")
Rest == FilesOf(disk, "sc")

Flows == IF Persistent THEN {<<f.n, f.msg>> : f \in Sent}
         ELSE {<<client.out[i].id, client.out[i].msg>> : i \in DOMAIN client.out}
Awaited == {i \in DOMAIN client.out : client.out[i].next = "PUBCOMP"}
Rels == IF Persistent THEN {f.n : f \in Rest} ELSE {client.out[i].id : i \in Awaited}
Removals == {i \in DOMAIN todo : todo[i].file.kind \in {"s", "sc"}}
Ends == {todo[i].file.n : i \in Removals}

View == [flows |-> Flows, rel |-> Rels, end |-> Ends, held |-> broker.in,
         wire |-> toBroker \o held, back |-> toClient,
         pub |-> app.published, got |-> ToSet(app.received),
         stage |-> IF Persistent THEN "kept" ELSE IF up THEN "lasts" ELSE "past"]

OutInv ==
    /\ Len(client.out) <= MaxInflight
    /\ client.msgID \in 0..MaxId
    /\ \A i \in DOMAIN client.out :
          /\ client.out[i].id \in 1..MaxId
          /\ client.out[i].msg \in Published
          /\ client.out[i].qos = app.published[client.out[i].msg]
          /\ client.out[i].next = "PUBACK" <=> client.out[i].qos = 1
    /\ \A i, j \in DOMAIN client.out : client.out[i].id = client.out[j].id => i = j

KeyInv == \A f, g \in disk : SameKey(f, g) => f = g

FilesInv ==
    /\ Cardinality(Sent) <= MaxInflight
    /\ \A f \in Sent : f.n \in 1..MaxId /\ f.msg \in Published /\ f.qos = app.published[f.msg]
    /\ \A f \in Rest : f.msg = 0 /\ f.qos = 0
    /\ \A f \in Rest, g \in Sent : f.n = g.n => g.qos = 2

TodoInv ==
    \/ \A i \in DOMAIN todo : todo[i].file.kind \in {"q", "r"}
    \/ \E n \in 1..MaxId : todo = <<Rm("s", n), Rm("sc", n)>>
    \/ \E n \in 1..MaxId : todo = <<Rm("sc", n)>> /\ \A f \in Sent : f.n # n

\* Lists and files.
MirrorInv ==
    Persistent /\ alive =>
        /\ \A i \in DOMAIN client.out :
              /\ \E f \in Sent : f.n = client.out[i].id /\ f.msg = client.out[i].msg
              /\ client.out[i].next = "PUBCOMP" <=> \E f \in Rest : f.n = client.out[i].id
              /\ client.out[i].id \notin Ends
        /\ \A f \in Sent \cup Rest :
              f.n \in Ends \/ \E i \in DOMAIN client.out : client.out[i].id = f.n

Store == OutInv /\ KeyInv /\ FilesInv /\ TodoInv /\ MirrorInv

ReceivedInv ==
    /\ \A i \in DOMAIN app.received : app.received[i] \in Published
    /\ \A i, j \in DOMAIN app.received :
          app.received[i] = app.received[j] /\ app.published[app.received[i]] = 2 => i = j

Offered == 1..Len(app.offered)
OfferedInv ==
    /\ \A e \in client.inb : e.msg \in Offered
    /\ \A f \in FilesOf(disk, "r") : f.msg \in Offered
    /\ \A i \in DOMAIN toClient : toClient[i].type = "PUBLISH" => toClient[i].msg \in Offered
    /\ \A i \in DOMAIN broker.out : broker.out[i].msg \in Offered
    /\ \A i \in DOMAIN todo : todo[i].file.kind = "r" => todo[i].op = "rm"

IInv == Shapes /\ Nothing /\ Store /\ Sound(View) /\ ReceivedInv /\ OfferedInv

-----------------------------------------------------------------------------
(* Sequences. *)

\* Append adds one place.
LEMMA AppendFacts ==
    ASSUME NEW S, NEW s \in Seq(S), NEW e \in S
    PROVE  /\ Append(s, e) \in Seq(S) /\ Append(s, e) # <<>>
           /\ DOMAIN Append(s, e) = 1..(Len(s) + 1)
           /\ Added(Append(s, e), s, Len(s) + 1, e)
<1>1. /\ Append(s, e) \in Seq(S) /\ Append(s, e) # <<>>
      /\ Len(Append(s, e)) = Len(s) + 1
      /\ \A i \in 1..Len(s) : Append(s, e)[i] = s[i]
      /\ Append(s, e)[Len(s) + 1] = e
  BY AppendProperties
<1>2. DOMAIN s = 1..Len(s) /\ Len(s) \in Nat
  BY LenProperties
<1>3. DOMAIN Append(s, e) = 1..(Len(s) + 1)
  BY <1>1, LenProperties
<1>4. 1..(Len(s) + 1) = 1..Len(s) \cup {Len(s) + 1} /\ Len(s) + 1 \notin 1..Len(s)
  BY <1>2
<1> QED BY <1>1, <1>2, <1>3, <1>4 DEF Added

\* Tail moves every place but the first.
LEMMA TailFacts ==
    ASSUME NEW S, NEW s \in Seq(S), s # <<>>
    PROVE  /\ Head(s) = s[1] /\ 1 \in DOMAIN s /\ Head(s) \in S
           /\ Tail(s) \in Seq(S) /\ Len(Tail(s)) = Len(s) - 1
           /\ \A i \in DOMAIN Tail(s) : i \in Nat \ {0} /\ i + 1 \in DOMAIN s /\ Tail(s)[i] = s[i + 1]
<1>1. Len(s) \in Nat \ {0} /\ DOMAIN s = 1..Len(s)
  BY EmptySeq, LenProperties
<1>2. /\ Head(s) \in S /\ Tail(s) \in Seq(S) /\ Len(Tail(s)) = Len(s) - 1
      /\ \A i \in 1..Len(Tail(s)) : Tail(s)[i] = s[i + 1]
  BY HeadTailProperties
<1>3. DOMAIN Tail(s) = 1..(Len(s) - 1)
  BY <1>2, LenProperties
<1>4. Head(s) = s[1]
  BY DEF Head
<1>5. \A i \in 1..(Len(s) - 1) : i \in Nat \ {0} /\ i + 1 \in 1..Len(s)
  BY <1>1
<1> QED BY <1>1, <1>2, <1>3, <1>4, <1>5

\* The places of two sequences joined.
LEMMA CatFacts ==
    ASSUME NEW S, NEW s \in Seq(S), NEW t \in Seq(S)
    PROVE  /\ s \o t \in Seq(S)
           /\ DOMAIN (s \o t) = 1..(Len(s) + Len(t))
           /\ \A i \in 1..(Len(s) + Len(t)) :
                 (s \o t)[i] = IF i <= Len(s) THEN s[i] ELSE t[i - Len(s)]
           /\ \A i \in DOMAIN s : i \in DOMAIN (s \o t) /\ (s \o t)[i] = s[i]
<1>1. /\ s \o t \in Seq(S) /\ Len(s \o t) = Len(s) + Len(t)
      /\ \A i \in 1..(Len(s) + Len(t)) : (s \o t)[i] = IF i <= Len(s) THEN s[i] ELSE t[i - Len(s)]
  BY ConcatProperties
<1>2. DOMAIN s = 1..Len(s) /\ Len(s) \in Nat /\ Len(t) \in Nat
  BY LenProperties
<1>3. DOMAIN (s \o t) = 1..(Len(s) + Len(t))
  BY <1>1, LenProperties
<1>4. \A i \in 1..Len(s) : i \in 1..(Len(s) + Len(t)) /\ i <= Len(s)
  BY <1>2
<1> QED BY <1>1, <1>2, <1>3, <1>4

\* The first n places.
LEMMA SliceFacts ==
    ASSUME NEW S, NEW s \in Seq(S), NEW n \in Nat, n <= Len(s)
    PROVE  /\ SubSeq(s, 1, n) \in Seq(S) /\ Len(SubSeq(s, 1, n)) = n
           /\ \A i \in DOMAIN SubSeq(s, 1, n) : i \in DOMAIN s /\ i <= n /\ SubSeq(s, 1, n)[i] = s[i]
<1>1. DOMAIN s = 1..Len(s) /\ Len(s) \in Nat /\ \A i \in 1..n : s[i] \in S
  BY LenProperties
<1>2. /\ SubSeq(s, 1, n) \in Seq(S)
      /\ Len(SubSeq(s, 1, n)) = IF 1 <= n THEN n - 1 + 1 ELSE 0
      /\ \A i \in 1..(n - 1 + 1) : SubSeq(s, 1, n)[i] = s[1 + i - 1]
  BY <1>1, SubSeqProperties
<1>3. Len(SubSeq(s, 1, n)) = n /\ n - 1 + 1 = n
  BY <1>2
<1>4. DOMAIN SubSeq(s, 1, n) = 1..n
  BY <1>2, <1>3, LenProperties
<1>5. \A i \in 1..n : SubSeq(s, 1, n)[i] = s[i]
  <2> TAKE i \in 1..n
  <2>1. SubSeq(s, 1, n)[i] = s[1 + i - 1] /\ 1 + i - 1 = i
    BY <1>2, <1>3
  <2> QED BY <2>1
<1>6. \A i \in 1..n : i \in 1..Len(s) /\ i <= n
  BY <1>1
<1> QED BY <1>1, <1>2, <1>3, <1>4, <1>5, <1>6

\* RemoveAt takes one place out and keeps the others.
LEMMA RemoveFacts ==
    ASSUME NEW S, NEW s \in Seq(S), NEW k \in DOMAIN s
    PROVE  /\ RemoveAt(s, k) \in Seq(S)
           /\ Len(RemoveAt(s, k)) = Len(s) - 1
           /\ \A i \in DOMAIN RemoveAt(s, k) :
                 \E j \in DOMAIN s : j # k /\ RemoveAt(s, k)[i] = s[j] /\ j = IF i < k THEN i ELSE i + 1
           /\ \A j \in DOMAIN s : j # k =>
                 \E i \in DOMAIN RemoveAt(s, k) : RemoveAt(s, k)[i] = s[j]
<1>1. DOMAIN s = 1..Len(s) /\ Len(s) \in Nat /\ k \in 1..Len(s) /\ \A i \in 1..Len(s) : s[i] \in S
  BY LenProperties
<1> DEFINE a == SubSeq(s, 1, k - 1)
           b == SubSeq(s, k + 1, Len(s))
<1>2. a \in Seq(S) /\ Len(a) = k - 1 /\ \A i \in 1..(k - 1) : a[i] = s[i]
  <2>1. k - 1 \in Nat /\ k - 1 <= Len(s)
    BY <1>1
  <2>2. a \in Seq(S) /\ Len(a) = k - 1 /\ \A i \in DOMAIN a : a[i] = s[i]
    BY <2>1, SliceFacts
  <2> QED BY <2>2, LenProperties
<1>3. b \in Seq(S) /\ Len(b) = Len(s) - k /\ \A i \in 1..(Len(s) - k) : b[i] = s[k + i]
  <2>1. \A i \in (k + 1)..Len(s) : s[i] \in S
    BY <1>1
  <2>2. k + 1 \in Int /\ Len(s) \in Int
    BY <1>1
  <2>3. /\ b \in Seq(S)
        /\ Len(b) = IF k + 1 <= Len(s) THEN Len(s) - (k + 1) + 1 ELSE 0
        /\ \A i \in 1..(Len(s) - (k + 1) + 1) : b[i] = s[k + 1 + i - 1]
    BY <2>1, <2>2, SubSeqProperties
  <2>4. Len(b) = Len(s) - k /\ Len(s) - (k + 1) + 1 = Len(s) - k
    BY <1>1, <2>3
  <2>5. \A i \in 1..(Len(s) - k) : b[i] = s[k + i]
    <3> TAKE i \in 1..(Len(s) - k)
    <3>1. b[i] = s[k + 1 + i - 1]
      BY <2>3, <2>4
    <3>2. k + 1 + i - 1 = k + i
      <4>1. k \in Int /\ i \in Int
        BY <1>1
      <4> QED BY <4>1
    <3> QED BY <3>1, <3>2
  <2> QED BY <2>3, <2>4, <2>5
<1> HIDE DEF a, b
<1> DEFINE r == a \o b
<1>4. /\ r \in Seq(S) /\ DOMAIN r = 1..(Len(a) + Len(b)) /\ Len(r) = Len(a) + Len(b)
      /\ \A i \in 1..(Len(a) + Len(b)) : r[i] = IF i <= Len(a) THEN a[i] ELSE b[i - Len(a)]
  <2>1. Len(r) = Len(a) + Len(b)
    BY <1>2, <1>3, ConcatProperties
  <2>2. /\ r \in Seq(S) /\ DOMAIN r = 1..(Len(a) + Len(b))
        /\ \A i \in 1..(Len(a) + Len(b)) : r[i] = IF i <= Len(a) THEN a[i] ELSE b[i - Len(a)]
    <3>1. a \in Seq(S) /\ b \in Seq(S)
      BY <1>2, <1>3
    <3> QED BY <3>1, CatFacts
  <2> QED BY <2>1, <2>2
<1>5. RemoveAt(s, k) = r
  BY DEF RemoveAt, a, b
<1> HIDE DEF r
<1>6. DOMAIN r = 1..(Len(s) - 1) /\ Len(r) = Len(s) - 1
  BY <1>1, <1>2, <1>3, <1>4
<1>7. \A i \in 1..(Len(s) - 1) : r[i] = IF i < k THEN s[i] ELSE s[i + 1]
  <2> TAKE i \in 1..(Len(s) - 1)
  <2>1. CASE i < k
    <3>1. i \in 1..(Len(a) + Len(b)) /\ i <= Len(a) /\ i \in 1..(k - 1)
      BY <1>1, <1>2, <1>3, <2>1
    <3> QED BY <1>2, <1>4, <2>1, <3>1
  <2>2. CASE ~(i < k)
    <3>1. /\ i \in 1..(Len(a) + Len(b)) /\ ~(i <= Len(a)) /\ i - Len(a) \in 1..(Len(s) - k)
          /\ k + (i - Len(a)) = i + 1
      BY <1>1, <1>2, <1>3, <2>2
    <3>2. r[i] = b[i - Len(a)] /\ b[i - Len(a)] = s[k + (i - Len(a))]
      BY <1>3, <1>4, <3>1
    <3> QED BY <2>2, <3>1, <3>2
  <2> QED BY <2>1, <2>2
<1>8. \A i \in 1..(Len(s) - 1) :
         \E j \in 1..Len(s) : j # k /\ r[i] = s[j] /\ j = IF i < k THEN i ELSE i + 1
  <2> TAKE i \in 1..(Len(s) - 1)
  <2>1. /\ (IF i < k THEN i ELSE i + 1) \in 1..Len(s)
        /\ (IF i < k THEN i ELSE i + 1) # k
    BY <1>1
  <2>2. r[i] = s[IF i < k THEN i ELSE i + 1]
    BY <1>7
  <2> QED BY <2>1, <2>2
<1>9. \A j \in 1..Len(s) : j # k => \E i \in 1..(Len(s) - 1) : r[i] = s[j]
  <2> SUFFICES ASSUME NEW j \in 1..Len(s), j # k PROVE \E i \in 1..(Len(s) - 1) : r[i] = s[j]
    OBVIOUS
  <2>1. CASE j < k
    <3>1. j \in 1..(Len(s) - 1)
      BY <1>1, <2>1
    <3> QED BY <1>7, <2>1, <3>1
  <2>2. CASE j > k
    <3>1. j - 1 \in 1..(Len(s) - 1) /\ ~(j - 1 < k) /\ (j - 1) + 1 = j
      BY <1>1, <2>2
    <3> QED BY <1>7, <3>1
  <2> QED BY <1>1, <2>1, <2>2
<1> QED BY <1>1, <1>4, <1>5, <1>6, <1>8, <1>9

\* A packet sent, whole or in part, is one more on its way.
LEMMA WirePlusOne ==
    ASSUME NEW S, NEW tb \in Seq(S), NEW p \in S, NEW tb2, NEW h2,
           \/ tb2 = Append(tb, p) /\ h2 = <<>>
           \/ tb2 = tb /\ h2 = <<p>>
    PROVE  /\ tb2 \in Seq(S) /\ h2 \in Seq(S) /\ Len(h2) <= 1
           /\ Added(tb2 \o h2, tb \o <<>>, Len(tb) + 1, p)
<1>1. /\ Append(tb, p) \in Seq(S) /\ <<p>> \in Seq(S) /\ <<>> \in Seq(S)
      /\ Len(<<p>>) = 1 /\ Len(<<>>) = 0
  BY AppendFacts, EmptySeq
<1>2. tb \o <<>> = tb /\ Append(tb, p) \o <<>> = Append(tb, p)
  BY <1>1, ConcatEmptySeq
<1>3. Added(Append(tb, p), tb, Len(tb) + 1, p)
  BY AppendFacts
<1>4. Added(tb \o <<p>>, tb, Len(tb) + 1, p)
  <2> DEFINE w == tb \o <<p>>
  <2>1. /\ DOMAIN w = 1..(Len(tb) + 1)
        /\ \A i \in 1..(Len(tb) + 1) : w[i] = IF i <= Len(tb) THEN tb[i] ELSE <<p>>[i - Len(tb)]
        /\ \A i \in DOMAIN tb : w[i] = tb[i]
    BY <1>1, CatFacts
  <2>2. Len(tb) \in Nat /\ DOMAIN tb = 1..Len(tb)
    BY LenProperties
  <2>3. 1..(Len(tb) + 1) = 1..Len(tb) \cup {Len(tb) + 1} /\ Len(tb) + 1 \notin 1..Len(tb)
    BY <2>2
  <2>4. w[Len(tb) + 1] = p
    <3>1. Len(tb) + 1 \in 1..(Len(tb) + 1) /\ ~(Len(tb) + 1 <= Len(tb)) /\ Len(tb) + 1 - Len(tb) = 1
      BY <2>2
    <3> QED BY <2>1, <3>1
  <2> HIDE DEF w
  <2>5. Added(w, tb, Len(tb) + 1, p)
    BY <2>1, <2>2, <2>3, <2>4 DEF Added
  <2> QED BY <2>5 DEF w
<1>5. CASE tb2 = Append(tb, p) /\ h2 = <<>>
  <2>1. tb2 \o h2 = Append(tb, p) /\ Len(h2) = 0
    BY <1>1, <1>2, <1>5
  <2> QED BY <1>1, <1>2, <1>3, <1>5, <2>1
<1>6. CASE tb2 = tb /\ h2 = <<p>>
  <2>1. tb2 \o h2 = tb \o <<p>> /\ Len(h2) = 1
    BY <1>1, <1>6
  <2> QED BY <1>1, <1>2, <1>4, <1>6, <2>1
<1> QED BY <1>5, <1>6

\* What was only partly written is lost with the connection.
LEMMA WireCut ==
    ASSUME NEW S, NEW tb \in Seq(S), NEW h \in Seq(S)
    PROVE  /\ ForthFrom(tb \o <<>>, tb \o h, 0) /\ BackFrom(tb \o <<>>, tb \o h, 0)
           /\ DOMAIN (tb \o h) \subseteq Nat \ {0}
<1>1. tb \o <<>> = tb
  BY ConcatEmptySeq
<1>2. /\ \A i \in DOMAIN tb : i \in DOMAIN (tb \o h) /\ (tb \o h)[i] = tb[i]
      /\ DOMAIN (tb \o h) = 1..(Len(tb) + Len(h))
  BY CatFacts
<1>3. DOMAIN tb \subseteq Nat /\ 1..(Len(tb) + Len(h)) \subseteq Nat \ {0}
  BY LenProperties
<1>4. \A i \in DOMAIN tb : i + 0 = i
  BY <1>3
<1> QED BY <1>1, <1>2, <1>3, <1>4 DEF ForthFrom, BackFrom

\* The broker takes the first packet.
LEMMA WireMinusOne ==
    ASSUME NEW S, NEW tb \in Seq(S), NEW h \in Seq(S), tb # <<>>
    PROVE  /\ ForthFrom(Tail(tb) \o h, tb \o h, 1) /\ BackFrom(Tail(tb) \o h, tb \o h, 1)
           /\ 1 \in DOMAIN (tb \o h) /\ (tb \o h)[1] = Head(tb)
           /\ DOMAIN (Tail(tb) \o h) \subseteq Nat \ {0}
<1>1. /\ Tail(tb) \in Seq(S) /\ Len(Tail(tb)) = Len(tb) - 1
      /\ \A i \in DOMAIN Tail(tb) : Tail(tb)[i] = tb[i + 1]
      /\ 1 \in DOMAIN tb /\ Head(tb) = tb[1]
  BY TailFacts
<1>2. Len(tb) \in Nat /\ Len(tb) >= 1 /\ Len(h) \in Nat /\ DOMAIN tb = 1..Len(tb)
      /\ DOMAIN Tail(tb) = 1..(Len(tb) - 1)
  <2>1. Len(tb) \in Nat /\ Len(h) \in Nat /\ DOMAIN tb = 1..Len(tb)
    BY LenProperties
  <2>2. DOMAIN Tail(tb) = 1..(Len(tb) - 1)
    BY <1>1, LenProperties
  <2>3. Len(tb) >= 1
    BY <1>1, <2>1
  <2> QED BY <2>1, <2>2, <2>3
<1> DEFINE v == tb \o h
           w == Tail(tb) \o h
<1>3. /\ DOMAIN v = 1..(Len(tb) + Len(h))
      /\ \A i \in 1..(Len(tb) + Len(h)) : v[i] = IF i <= Len(tb) THEN tb[i] ELSE h[i - Len(tb)]
      /\ \A i \in DOMAIN tb : i \in DOMAIN v /\ v[i] = tb[i]
  BY CatFacts
<1>4. /\ DOMAIN w = 1..(Len(Tail(tb)) + Len(h))
      /\ \A i \in 1..(Len(Tail(tb)) + Len(h)) :
           w[i] = IF i <= Len(Tail(tb)) THEN Tail(tb)[i] ELSE h[i - Len(Tail(tb))]
  BY <1>1, CatFacts
<1> HIDE DEF v, w
<1>5. Len(Tail(tb)) + Len(h) = Len(tb) + Len(h) - 1
  BY <1>1, <1>2
<1>6. \A i \in 1..(Len(tb) + Len(h) - 1) : i + 1 \in 1..(Len(tb) + Len(h)) /\ w[i] = v[i + 1]
  <2> TAKE i \in 1..(Len(tb) + Len(h) - 1)
  <2>1. i + 1 \in 1..(Len(tb) + Len(h))
    BY <1>2
  <2>2. CASE i <= Len(tb) - 1
    <3>1. i \in 1..(Len(tb) - 1) /\ i + 1 <= Len(tb)
      BY <1>2, <2>2
    <3>2. w[i] = Tail(tb)[i]
      BY <1>1, <1>4, <1>5, <2>2
    <3>3. v[i + 1] = tb[i + 1]
      BY <1>3, <2>1, <3>1
    <3> QED BY <1>1, <1>2, <2>1, <3>1, <3>2, <3>3
  <2>3. CASE ~(i <= Len(tb) - 1)
    <3>1. ~(i + 1 <= Len(tb)) /\ i + 1 - Len(tb) = i - (Len(tb) - 1)
      BY <1>2, <2>3
    <3>2. w[i] = h[i - (Len(tb) - 1)]
      BY <1>1, <1>4, <1>5, <2>3
    <3>3. v[i + 1] = h[i + 1 - Len(tb)]
      BY <1>3, <2>1, <3>1
    <3> QED BY <2>1, <3>1, <3>2, <3>3
  <2> QED BY <2>2, <2>3
<1>7. ForthFrom(w, v, 1) /\ BackFrom(w, v, 1)
  BY <1>3, <1>4, <1>5, <1>6 DEF ForthFrom, BackFrom
<1>8. 1 \in DOMAIN v /\ v[1] = Head(tb)
  BY <1>1, <1>3
<1>9. DOMAIN w \subseteq Nat \ {0}
  BY <1>2, <1>4, <1>5
<1> QED BY <1>7, <1>8, <1>9 DEF v, w

-----------------------------------------------------------------------------
(* Types. *)

\* An acknowledgement is a packet.
LEMMA AckIsAPacket ==
    ASSUME NEW t \in Types, NEW n \in Nat
    PROVE  /\ Ack(t, n) \in Packets
           /\ Ack(t, n).type = t /\ Ack(t, n).id = n
BY DEF Ack, Packet, Packets

\* Closing keeps a persistent client as it is and empties a clean one.
LEMMA ClosedIsAClient ==
    ASSUME NEW c \in Clients
    PROVE  /\ Closed(c) \in Clients
           /\ mode # "clean" => Closed(c) = c
           /\ mode = "clean" => Closed(c).out = <<>> /\ Closed(c).msgID = 0 /\ Closed(c).inb = {}
                               /\ Closed(c).queue = <<>>
<1>1. NoLists \in Clients /\ c.seqno \in Nat
  BY EmptySeq DEF NoLists, Clients
<1>2. [NoLists EXCEPT !.seqno = c.seqno] \in Clients
  BY <1>1 DEF Clients
<1>3. /\ [NoLists EXCEPT !.seqno = c.seqno].out = <<>>
      /\ [NoLists EXCEPT !.seqno = c.seqno].msgID = 0
      /\ [NoLists EXCEPT !.seqno = c.seqno].inb = {}
      /\ [NoLists EXCEPT !.seqno = c.seqno].queue = <<>>
  BY DEF NoLists
<1> QED BY <1>2, <1>3 DEF Closed

Connection ==
    /\ client \in Clients /\ up \in BOOLEAN /\ run \in {"cycle", "ready", "deliver"}
    /\ held \in Seq(Packets) /\ Len(held) <= 1
    /\ toBroker \in Seq(Packets) /\ toClient \in Seq(Packets)
    /\ faults \in Nat

\* A connection that goes on.
LEMMA StayShapes ==
    ASSUME Shapes, NEW c \in Clients, Stay(c)
    PROVE  client' \in Clients /\ up' \in BOOLEAN /\ run' \in {"cycle", "ready", "deliver"}
BY DEF Stay, Shapes

\* A connection that is closed.
LEMMA CloseShapes ==
    ASSUME Shapes, NEW c \in Clients, Close(c)
    PROVE  /\ client' \in Clients /\ up' \in BOOLEAN /\ run' \in {"cycle", "ready", "deliver"}
           /\ held' \in Seq(Packets) /\ Len(held') <= 1 /\ toClient' \in Seq(Packets)
<1>1. client' \in Clients
  BY ClosedIsAClient DEF Close
<1>2. <<>> \in Seq(Packets) /\ Len(<<>>) <= 1
  BY EmptySeq
<1> QED BY <1>1, <1>2 DEF Close

\* A handler that answers nothing keeps the types.
LEMMA SilentShapes ==
    ASSUME Shapes, NEW c \in Clients, toClient # <<>>, Silent(c)
    PROVE  Connection'
<1>1. client' \in Clients /\ up' \in BOOLEAN /\ run' \in {"cycle", "ready", "deliver"}
  BY StayShapes DEF Silent
<1>2. toClient' \in Seq(Packets)
  BY TailFacts DEF Silent, Shapes
<1> QED BY <1>1, <1>2 DEF Silent, Shapes, Connection

\* So does one that answers.
LEMMA AnswerShapes ==
    ASSUME Shapes, NEW c \in Clients, NEW p \in Packets, toClient # <<>>, Answer(p, c)
    PROVE  Connection'
<1>1. CASE Transmit(p, c) /\ toClient' = Tail(toClient)
  <2>1. client' \in Clients /\ up' \in BOOLEAN /\ run' \in {"cycle", "ready", "deliver"}
    BY <1>1, StayShapes DEF Transmit
  <2>2. toClient' \in Seq(Packets)
    BY <1>1, TailFacts DEF Shapes
  <2>3. held' \in Seq(Packets) /\ Len(held') <= 1 /\ toBroker' \in Seq(Packets)
    <3>1. \/ toBroker' = Append(toBroker, p) /\ held' = <<>>
          \/ toBroker' = toBroker /\ held' = <<p>>
      BY <1>1 DEF Transmit
    <3>2. toBroker \in Seq(Packets)
      BY DEF Shapes
    <3> QED BY <3>1, <3>2, WirePlusOne
  <2>4. faults' \in Nat
    BY <1>1 DEF Transmit, Fault, Shapes
  <2> QED BY <2>1, <2>2, <2>3, <2>4 DEF Connection
<1>2. CASE held # <<>> /\ Close(c) /\ UNCHANGED <<toBroker, faults>>
  BY <1>2, CloseShapes DEF Connection, Shapes
<1> QED BY <1>1, <1>2 DEF Answer

\* A message added to the queue leaves the lists alone.
LEMMA QueuedIsAClient ==
    ASSUME NEW c \in Clients, NEW m \in Nat
    PROVE  /\ Queued(c, m) \in Clients /\ Queued(c, m).out = c.out
           /\ Queued(c, m).msgID = c.msgID /\ Queued(c, m).inb = c.inb
           /\ Queued(c, m).queue # <<>>
           /\ Queued(c, m).queue = Append(c.queue, [msg |-> m, seq |-> c.seqno + 1])
           /\ Queued(c, m).seqno = c.seqno + 1
<1> DEFINE S == [msg : Nat, seq : Nat]
           e == [msg |-> m, seq |-> c.seqno + 1]
<1>1. c.queue \in Seq(S) /\ c.seqno + 1 \in Nat /\ e \in S
  BY DEF Clients
<1>2. Append(c.queue, e) \in Seq(S) /\ Append(c.queue, e) # <<>>
  <2> HIDE DEF S, e
  <2> QED BY <1>1, AppendFacts
<1> QED BY <1>1, <1>2 DEF Queued, Clients

\* File operations, or none.
LEMMA FiledIsOps ==
    ASSUME NEW ops \in Seq(Ops)
    PROVE  Filed(ops) \in Seq(Ops)
BY EmptySeq DEF Filed

\* The operations the handlers order.
LEMMA OpsAreOps ==
    /\ \A n \in Nat, m \in Nat, q \in 0..2, k \in {"s", "sc", "q", "r"} : File(k, n, m, q) \in Files
    /\ \A n \in Nat, k \in {"s", "sc", "q", "r"} : Rm(k, n) \in Ops
    /\ \A f \in Files : Put(f) \in Ops
<1>1. \A n \in Nat, m \in Nat, q \in 0..2, k \in {"s", "sc", "q", "r"} : File(k, n, m, q) \in Files
  BY DEF File, Files
<1>2. \A n \in Nat, k \in {"s", "sc", "q", "r"} : Rm(k, n) \in Ops
  BY <1>1 DEF Rm, Ops
<1> QED BY <1>1, <1>2 DEF Put, Ops

\* A file operation keeps the files' types.
LEMMA AfterShapes ==
    ASSUME NEW d \in SUBSET Files, IsFiniteSet(d), NEW o \in Ops
    PROVE  After(d, o) \in SUBSET Files /\ IsFiniteSet(After(d, o))
<1>1. {f \in d : ~SameKey(f, o.file)} \in SUBSET d
  OBVIOUS
<1>2. IsFiniteSet({f \in d : ~SameKey(f, o.file)})
  BY <1>1, FS_Subset
<1>3. IsFiniteSet({f \in d : ~SameKey(f, o.file)} \cup {o.file})
  BY <1>2, FS_AddElement
<1>4. {f \in d : ~SameKey(f, o.file)} \cup {} = {f \in d : ~SameKey(f, o.file)}
  OBVIOUS
<1>5. o.file \in Files
  BY DEF Ops
<1> QED BY <1>1, <1>2, <1>3, <1>4, <1>5 DEF After

\* An entry taken out of the outbound list.
LEMMA MinusOneShapes ==
    ASSUME NEW c \in Clients, NEW i \in DOMAIN c.out
    PROVE  /\ [c EXCEPT !.out = RemoveAt(@, i)] \in Clients
           /\ [c EXCEPT !.out = RemoveAt(@, i)].out = RemoveAt(c.out, i)
           /\ [c EXCEPT !.out = RemoveAt(@, i)].msgID = c.msgID
<1>1. c.out \in Seq(Entries)
  BY DEF Clients
<1>2. RemoveAt(c.out, i) \in Seq(Entries)
  BY <1>1, RemoveFacts
<1> QED BY <1>1, <1>2 DEF Clients

\* An entry of the outbound list that now waits for PUBCOMP.
LEMMA NextShapes ==
    ASSUME NEW c \in Clients, NEW i \in DOMAIN c.out
    PROVE  LET e == [c EXCEPT !.out[i].next = "PUBCOMP"]
           IN  /\ e \in Clients /\ e.msgID = c.msgID
               /\ Len(e.out) = Len(c.out) /\ DOMAIN e.out = DOMAIN c.out
               /\ \A j \in DOMAIN c.out :
                     e.out[j] = IF j = i THEN [c.out[i] EXCEPT !.next = "PUBCOMP"] ELSE c.out[j]
<1> DEFINE x == [c.out[i] EXCEPT !.next = "PUBCOMP"]
           o == [c.out EXCEPT ![i] = x]
           e == [c EXCEPT !.out[i].next = "PUBCOMP"]
<1>1. c.out \in Seq(Entries) /\ DOMAIN c.out = 1..Len(c.out)
  BY LenProperties DEF Clients
<1>2. x \in Entries
  <2>1. c.out[i] \in Entries
    BY <1>1, ElementOfSeq
  <2> QED BY <2>1 DEF Entries
<1>3. /\ o \in Seq(Entries) /\ Len(o) = Len(c.out)
      /\ \A j \in 1..Len(c.out) : o[j] = IF j = i THEN x ELSE c.out[j]
  <2> HIDE DEF x
  <2> QED BY <1>1, <1>2, ExceptSeq
<1>4. DOMAIN o = DOMAIN c.out
  OBVIOUS
<1>5. e = [c EXCEPT !.out = o]
  OBVIOUS
<1> HIDE DEF o
<1>6. e \in Clients /\ e.out = o /\ e.msgID = c.msgID
  BY <1>3, <1>5 DEF Clients
<1> HIDE DEF e
<1>7. \A j \in DOMAIN c.out : e.out[j] = IF j = i THEN x ELSE c.out[j]
  BY <1>1, <1>3, <1>6
<1> QED BY <1>3, <1>4, <1>6, <1>7 DEF e

-----------------------------------------------------------------------------
(* Ids and restored lists. *)

\* A set of numbers has a smallest.
LEMMA SmallestOf ==
    ASSUME NEW T, T \subseteq Nat, T # {}
    PROVE  Min(T) \in T /\ \A y \in T : Min(T) <= y
<1> DEFINE less == {ss \in Nat \X Nat : ss[1] < ss[2]}
<1>1. less = OpToRel(<, Nat)
  BY DEF OpToRel
<1>2. IsWellFoundedOn(less, Nat)
  BY <1>1, NatLessThanWellFounded
<1>3. PICK x \in T : \A y \in T : ~(<<y, x>> \in less)
  <2> HIDE DEF less
  <2> QED BY <1>2, WFMin
<1>4. \A y \in T : x <= y
  <2> TAKE y \in T
  <2>1. <<y, x>> \in Nat \X Nat /\ ~(<<y, x>> \in less)
    BY <1>3
  <2> QED BY <2>1
<1> QED BY <1>4 DEF Min

\* Two numbers less than n apart have different remainders.
LEMMA RemaindersDiffer ==
    ASSUME NEW n \in Nat \ {0}, NEW a \in Nat, NEW b \in Nat, a < b, b - a < n
    PROVE  a % n # b % n
<1> SUFFICES ASSUME a % n = b % n PROVE FALSE
  OBVIOUS
<1>1. /\ a \div n \in Nat /\ a = n * (a \div n) + (a % n)
      /\ b \div n \in Nat /\ b = n * (b \div n) + (b % n)
      /\ a % n \in Nat
  OBVIOUS
<1> DEFINE d == (b \div n) - (a \div n)
<1>2. d \in Int /\ b - a = n * d
  BY <1>1
<1> HIDE DEF d
<1>3. (d <= 0 => n * d <= 0) /\ (d >= 1 => n * d >= n)
  BY <1>2
<1> QED BY <1>2, <1>3

\* MQTTProtocol_assignMsgId finds an id no message in flight has.
LEMMA AssignedIdIsFree ==
    ASSUME NEW c, NEW E, c.out \in Seq(E), c.msgID \in Nat, Len(c.out) < MaxId
    PROVE  /\ AssignMsgId(c) \in 1..MaxId
           /\ \A i \in DOMAIN c.out : c.out[i].id # AssignMsgId(c)
<1> DEFINE used == {c.out[i].id : i \in DOMAIN c.out}
           id(n) == ((c.msgID + n) % MaxId) + 1
           free == {n \in 0..(MaxId - 1) : id(n) \notin used}
<1>1. MaxId \in Nat \ {0} /\ Len(c.out) \in Nat /\ DOMAIN c.out = 1..Len(c.out)
  BY IdAssumption
<1>2. free # {}
  <2> SUFFICES ASSUME \A n \in 0..(MaxId - 1) : id(n) \in used PROVE FALSE
    OBVIOUS
  <2> DEFINE f == [n \in 0..(MaxId - 1) |-> CHOOSE i \in 1..Len(c.out) : c.out[i].id = id(n)]
  <2>1. \A n \in 0..(MaxId - 1) : f[n] \in 1..Len(c.out) /\ c.out[f[n]].id = id(n)
    BY <1>1
  <2>2. f \in [0..(MaxId - 1) -> 1..Len(c.out)]
    BY <2>1
  <2>3. /\ IsFiniteSet(0..(MaxId - 1)) /\ Cardinality(0..(MaxId - 1)) = MaxId
        /\ IsFiniteSet(1..Len(c.out)) /\ Cardinality(1..Len(c.out)) = Len(c.out)
    <3>1. 0 \in Int /\ 1 \in Int /\ MaxId - 1 \in Int /\ Len(c.out) \in Int
      BY <1>1
    <3>2. /\ IsFiniteSet(0..(MaxId - 1))
          /\ Cardinality(0..(MaxId - 1)) = IF 0 > MaxId - 1 THEN 0 ELSE MaxId - 1 - 0 + 1
      BY <3>1, FS_Interval
    <3>3. /\ IsFiniteSet(1..Len(c.out))
          /\ Cardinality(1..Len(c.out)) = IF 1 > Len(c.out) THEN 0 ELSE Len(c.out) - 1 + 1
      BY <3>1, FS_Interval
    <3> QED BY <1>1, <3>2, <3>3
  <2> HIDE DEF f
  <2>4. \E x, y \in 0..(MaxId - 1) : x # y /\ f[x] = f[y]
    <3>1. Cardinality(1..Len(c.out)) < Cardinality(0..(MaxId - 1))
      BY <2>3
    <3> QED BY <2>2, <2>3, <3>1, FS_PigeonHole
  <2>5. PICK x \in 0..(MaxId - 1), y \in 0..(MaxId - 1) : x < y /\ f[x] = f[y]
    BY <2>4
  <2>6. id(x) = id(y) /\ x < y /\ x \in 0..(MaxId - 1) /\ y \in 0..(MaxId - 1)
    BY <2>1, <2>5
  <2> DEFINE k == c.msgID + x
             h == c.msgID + y
  <2>7. k \in Nat /\ h \in Nat /\ k < h /\ h - k < MaxId
    <3>1. x \in Nat /\ y \in Nat /\ x < y /\ y < MaxId /\ c.msgID \in Nat
      BY <1>1, <2>6
    <3> HIDE DEF id, free, used
    <3> QED BY <1>1, <3>1
  <2>8. (k % MaxId) + 1 = (h % MaxId) + 1
    BY <2>6
  <2> HIDE DEF k, h
  <2>9. k % MaxId = h % MaxId
    <3>1. k % MaxId \in Int /\ h % MaxId \in Int
      BY <1>1, <2>7
    <3> QED BY <2>8, <3>1
  <2> QED BY <1>1, <2>7, <2>9, RemaindersDiffer
<1>3. free \subseteq Nat
  OBVIOUS
<1>4. Min(free) \in free
  BY <1>2, <1>3, SmallestOf
<1>5. AssignMsgId(c) = id(Min(free))
  BY DEF AssignMsgId
<1>6. id(Min(free)) \notin used /\ id(Min(free)) \in 1..MaxId
  <2>1. id(Min(free)) \notin used /\ Min(free) \in Nat
    <3> HIDE DEF used
    <3> QED BY <1>3, <1>4
  <2> DEFINE k == Min(free)
  <2>2. k \in Nat
    BY <2>1
  <2> HIDE DEF k
  <2>3. (c.msgID + k) % MaxId \in 0..(MaxId - 1)
    BY <1>1, <2>2
  <2>4. id(k) \in 1..MaxId
    BY <1>1, <2>3
  <2> QED BY <2>1, <2>4 DEF k
<1> QED BY <1>5, <1>6

\* The restored list has every file once.
LEMMA ListsInOrder ==
    ASSUME NEW S, IsFiniteSet(S), \A f \in S : f.n \in Nat,
           \A f, g \in S : f.n = g.n => f = g
    PROVE  /\ ByNumber(S) \in [1..Cardinality(S) -> S]
           /\ Cardinality(S) \in Nat
           /\ \A i, j \in 1..Cardinality(S) : i < j => ByNumber(S)[i].n < ByNumber(S)[j].n
           /\ \A i, j \in 1..Cardinality(S) : ByNumber(S)[i] = ByNumber(S)[j] => i = j
           /\ \A f \in S : \E i \in 1..Cardinality(S) : ByNumber(S)[i] = f
<1> DEFINE N == Cardinality(S)
           below(f) == {g \in S : g.n <= f.n}
           r == [f \in S |-> Cardinality(below(f))]
<1>1. N \in Nat /\ IsFiniteSet(1..N) /\ Cardinality(1..N) = N
  <2>1. N \in Nat
    BY FS_CardinalityType
  <2> HIDE DEF N
  <2> QED BY <2>1, FS_Interval
<1>2. \A f \in S : IsFiniteSet(below(f)) /\ Cardinality(below(f)) \in 1..N
  <2> TAKE f \in S
  <2>1. below(f) \in SUBSET S /\ f \in below(f)
    OBVIOUS
  <2>2. IsFiniteSet(below(f)) /\ Cardinality(below(f)) <= N
    BY <2>1, FS_Subset
  <2>3. Cardinality(below(f)) \in Nat /\ Cardinality(below(f)) # 0
    BY <2>1, <2>2, FS_CardinalityType, FS_EmptySet
  <2> QED BY <1>1, <2>2, <2>3
<1>3. ASSUME NEW f \in S, NEW g \in S, f.n < g.n
      PROVE  Cardinality(below(f)) < Cardinality(below(g))
  <2>1. below(f) \in SUBSET below(g) /\ g \in below(g) /\ g \notin below(f)
    BY <1>3
  <2>2. Cardinality(below(f)) <= Cardinality(below(g)) /\ Cardinality(below(f)) # Cardinality(below(g))
    BY <1>2, <2>1, FS_Subset
  <2> QED BY <1>2, <2>2
<1> HIDE DEF below
<1>4. r \in Injection(S, 1..N)
  <2>1. r \in [S -> 1..N]
    BY <1>2
  <2>2. \A f, g \in S : r[f] = r[g] => f = g
    <3> TAKE f, g \in S
    <3> HAVE r[f] = r[g]
    <3>1. Cardinality(below(f)) = Cardinality(below(g))
      OBVIOUS
    <3>2. ~(f.n < g.n) /\ ~(g.n < f.n)
      BY <1>2, <1>3, <3>1
    <3> QED BY <3>2
  <2> HIDE DEF r
  <2> QED BY <2>1, <2>2 DEF Injection, IsInjective
<1>5. r \in Surjection(S, 1..N)
  BY <1>1, <1>4, FS_Injection
<1> DEFINE t == [i \in 1..N |-> CHOOSE f \in S : r[f] = i]
<1>6. \A i \in 1..N : t[i] \in S /\ r[t[i]] = i
  BY <1>5 DEF Surjection
<1>7. t \in [1..N -> S]
  BY <1>6
<1>8. \A i, j \in DOMAIN t : i < j => t[i].n < t[j].n
  <2> SUFFICES ASSUME NEW i \in 1..N, NEW j \in 1..N, i < j PROVE t[i].n < t[j].n
    OBVIOUS
  <2>1. t[i] \in S /\ t[j] \in S /\ r[t[i]] = i /\ r[t[j]] = j
    BY <1>6
  <2> HIDE DEF t
  <2>2. Cardinality(below(t[i])) = i /\ Cardinality(below(t[j])) = j
    BY <2>1
  <2>3. t[i].n \in Nat /\ t[j].n \in Nat
    BY <2>1
  <2>4. ~(t[j].n < t[i].n)
    BY <1>3, <2>1, <2>2
  <2>5. t[i].n # t[j].n
    BY <2>1, <2>2
  <2> QED BY <2>3, <2>4, <2>5
<1> DEFINE b == ByNumber(S)
<1>9. b \in [1..N -> S] /\ \A i, j \in DOMAIN b : i < j => b[i].n < b[j].n
  <2> HIDE DEF t
  <2> QED BY <1>7, <1>8 DEF ByNumber
<1> HIDE DEF b
<1>10. \A i, j \in 1..N : b[i] = b[j] => i = j
  <2> TAKE i, j \in 1..N
  <2> HAVE b[i] = b[j]
  <2>1. b[i].n = b[j].n /\ b[i].n \in Nat
    BY <1>9
  <2>2. ~(i < j) /\ ~(j < i)
    BY <1>9, <2>1
  <2> QED BY <1>1, <2>2
<1>11. b \in Injection(1..N, S)
  BY <1>9, <1>10 DEF Injection, IsInjective
<1>12. b \in Surjection(1..N, S)
  BY <1>1, <1>11, FS_Injection
<1> QED BY <1>1, <1>9, <1>10, <1>12 DEF b, Surjection

\* MQTTPersistence_wrapMsgID only turns the list.
LEMMA Rotated ==
    ASSUME NEW E, NEW s \in Seq(E)
    PROVE  /\ WrapMsgID(s) \in Seq(E) /\ Len(WrapMsgID(s)) = Len(s)
           /\ \E k \in 0..Len(s) : \A i \in 1..Len(s) :
                 WrapMsgID(s)[i] = IF i <= Len(s) - k THEN s[i + k] ELSE s[i - (Len(s) - k)]
<1> DEFINE n == Len(s)
           gap(i) == s[i].id - s[i - 1].id
           wide == {i \in 2..n : /\ gap(i) > (MaxId - s[n].id) + s[1].id
                                 /\ \A j \in 2..n : gap(j) <= gap(i)}
           first == Min(wide)
           a == SubSeq(s, first, n)
           b == SubSeq(s, 1, first - 1)
<1>1. WrapMsgID(s) = IF wide = {} THEN s ELSE a \o b
  BY DEF WrapMsgID
<1>2. n \in Nat /\ DOMAIN s = 1..n /\ \A i \in 1..n : s[i] \in E
  BY LenProperties
<1>3. wide \subseteq Nat /\ \A i \in wide : i \in 2..n
  BY <1>2
<1>4. CASE wide = {}
  <2>1. WrapMsgID(s) = s
    BY <1>1, <1>4
  <2>2. 0 \in 0..n /\ \A i \in 1..n : i <= n - 0 /\ i + 0 = i
    BY <1>2
  <2> QED BY <2>1, <2>2
<1>5. CASE wide # {}
  <2> HIDE DEF wide
  <2>1. first \in 2..n
    BY <1>3, <1>5, SmallestOf
  <2> HIDE DEF first
  <2> HIDE DEF gap
  <2>2. a \in Seq(E) /\ Len(a) = n - first + 1 /\ \A i \in 1..(n - first + 1) : a[i] = s[first + i - 1]
    <3>1. \A i \in first..n : s[i] \in E
      BY <1>2, <2>1
    <3>2. first \in Int /\ n \in Int /\ first <= n
      BY <1>2, <2>1
    <3> QED BY <3>1, <3>2, SubSeqProperties
  <2>3. b \in Seq(E) /\ Len(b) = first - 1 /\ \A i \in 1..(first - 1) : b[i] = s[i]
    <3>1. first - 1 \in Nat /\ first - 1 <= n
      BY <1>2, <2>1
    <3>2. b \in Seq(E) /\ Len(b) = first - 1 /\ \A i \in DOMAIN b : b[i] = s[i]
      BY <3>1, SliceFacts
    <3> QED BY <3>2, LenProperties
  <2> HIDE DEF a, b
  <2>4. /\ a \o b \in Seq(E) /\ Len(a \o b) = Len(a) + Len(b)
        /\ \A i \in 1..(Len(a) + Len(b)) :
             (a \o b)[i] = IF i <= Len(a) THEN a[i] ELSE b[i - Len(a)]
    BY <2>2, <2>3, ConcatProperties
  <2> DEFINE r == a \o b
             k == first - 1
  <2>5. WrapMsgID(s) = r
    BY <1>1, <1>5
  <2>6. Len(a) + Len(b) = n /\ Len(a) = n - k
    <3>1. \A x, y \in Int : x - y + 1 + (y - 1) = x /\ x - y + 1 = x - (y - 1)
      OBVIOUS
    <3>2. n \in Int /\ first \in Int /\ Len(a) = n - first + 1 /\ Len(b) = first - 1
      BY <1>2, <2>1, <2>2, <2>3
    <3> HIDE DEF n
    <3> QED BY <3>1, <3>2
  <2>7. k \in 0..n /\ n - first + 1 = n - k
    BY <1>2, <2>1
  <2>8. ASSUME NEW i \in 1..n PROVE r[i] = IF i <= n - k THEN s[i + k] ELSE s[i - (n - k)]
    <3>1. CASE i <= n - k
      <4>1. i \in 1..(n - first + 1) /\ first + i - 1 = i + k
        BY <1>2, <2>1, <3>1
      <4>2. r[i] = a[i]
        BY <2>4, <2>6, <3>1
      <4> QED BY <2>2, <3>1, <4>1, <4>2
    <3>2. CASE ~(i <= n - k)
      <4>1. i - (n - k) \in 1..(first - 1)
        BY <1>2, <2>1, <3>2
      <4>2. r[i] = b[i - (n - k)]
        BY <2>4, <2>6, <3>2
      <4> QED BY <2>3, <3>2, <4>1, <4>2
    <3> QED BY <3>1, <3>2
  <2> QED BY <2>4, <2>5, <2>6, <2>7, <2>8
<1> QED BY <1>4, <1>5

\* The restored list has the entries of s, each once.
LEMMA WrapKeeps ==
    ASSUME NEW E, NEW s \in Seq(E), \A i, j \in 1..Len(s) : s[i].id = s[j].id => i = j
    PROVE  /\ WrapMsgID(s) \in Seq(E) /\ Len(WrapMsgID(s)) = Len(s)
           /\ \A i \in 1..Len(s) : \E j \in 1..Len(s) : WrapMsgID(s)[i] = s[j]
           /\ \A j \in 1..Len(s) : \E i \in 1..Len(s) : WrapMsgID(s)[i] = s[j]
           /\ \A i, j \in 1..Len(s) : WrapMsgID(s)[i].id = WrapMsgID(s)[j].id => i = j
<1> DEFINE n == Len(s)
<1>1. n \in Nat
  BY LenProperties
<1>2. PICK k \in 0..n : \A i \in 1..n :
        WrapMsgID(s)[i] = IF i <= n - k THEN s[i + k] ELSE s[i - (n - k)]
  BY Rotated
<1> DEFINE g(i) == IF i <= n - k THEN i + k ELSE i - (n - k)
<1>3. \A i \in 1..n : WrapMsgID(s)[i] = s[g(i)]
  BY <1>2
<1>a. \A i, j \in 1..n : s[i].id = s[j].id => i = j
  OBVIOUS
<1> HIDE DEF n
<1>4. \A i \in 1..n : g(i) \in 1..n
  BY <1>1
<1>5. \A i, j \in 1..n : g(i) = g(j) => i = j
  BY <1>1
<1>6. \A j \in 1..n : \E i \in 1..n : g(i) = j
  <2> SUFFICES ASSUME NEW j \in 1..n PROVE \E i \in 1..n : g(i) = j
    OBVIOUS
  <2>1. CASE j > k
    <3>1. j - k \in 1..n /\ g(j - k) = j
      BY <1>1, <2>1
    <3> QED BY <3>1
  <2>2. CASE j <= k
    <3>1. j + (n - k) \in 1..n /\ g(j + (n - k)) = j
      BY <1>1, <2>2
    <3> QED BY <3>1
  <2> QED BY <1>1, <2>1, <2>2
<1> HIDE DEF g
<1>7. /\ \A i \in 1..n : \E j \in 1..n : WrapMsgID(s)[i] = s[j]
      /\ \A j \in 1..n : \E i \in 1..n : WrapMsgID(s)[i] = s[j]
  BY <1>3, <1>4, <1>6
<1>8. \A i, j \in 1..n : WrapMsgID(s)[i].id = WrapMsgID(s)[j].id => i = j
  BY <1>3, <1>4, <1>5, <1>a
<1> QED BY <1>7, <1>8, Rotated DEF n

\* What MQTTClient_create makes of the files.
LEMMA RestoredFacts ==
    ASSUME NEW d \in SUBSET Files, IsFiniteSet(d),
           \A f, g \in d : SameKey(f, g) => f = g
    PROVE  /\ Restored(d) \in Clients /\ Restored(d).msgID = 0
           /\ Len(Restored(d).out) = Cardinality(FilesOf(d, "s"))
           /\ \A i \in DOMAIN Restored(d).out :
                 \E f \in FilesOf(d, "s") :
                    /\ Restored(d).out[i].id = f.n /\ Restored(d).out[i].qos = f.qos
                    /\ Restored(d).out[i].msg = f.msg
                    /\ Restored(d).out[i].next =
                          IF \E g \in FilesOf(d, "sc") : g.n = f.n THEN "PUBCOMP"
                          ELSE IF f.qos = 2 THEN "PUBREC" ELSE "PUBACK"
           /\ \A f \in FilesOf(d, "s") :
                 \E i \in DOMAIN Restored(d).out : Restored(d).out[i].id = f.n
           /\ \A i, j \in DOMAIN Restored(d).out :
                 Restored(d).out[i].id = Restored(d).out[j].id => i = j
           /\ \A e \in Restored(d).inb : \E f \in FilesOf(d, "r") : e.msg = f.msg
<1> DEFINE S == FilesOf(d, "s")
           Q == FilesOf(d, "q")
           sent == ByNumber(S)
           queued == ByNumber(Q)
           released(id) == \E f \in d : f.kind = "sc" /\ f.n = id
           entry(f) == [id |-> f.n, qos |-> f.qos, msg |-> f.msg,
                        next |-> IF released(f.n) THEN "PUBCOMP"
                                 ELSE IF f.qos = 2 THEN "PUBREC" ELSE "PUBACK"]
           L == [i \in DOMAIN sent |-> entry(sent[i])]
           M == [i \in DOMAIN queued |-> [msg |-> queued[i].msg, seq |-> queued[i].n]]
           I == {[id |-> f.n, msg |-> f.msg] : f \in FilesOf(d, "r")}
           num == IF queued = <<>> THEN 0 ELSE Last(queued).n
<1>1. Restored(d) = [out |-> WrapMsgID(L), inb |-> I, queue |-> M, msgID |-> 0, seqno |-> num]
  BY DEF Restored
<1>2. \A k \in {"s", "sc", "q", "r"} :
        /\ FilesOf(d, k) \in SUBSET d /\ IsFiniteSet(FilesOf(d, k))
        /\ \A f \in FilesOf(d, k) : f \in Files /\ f.n \in Nat /\ f.msg \in Nat /\ f.qos \in 0..2
        /\ \A f, g \in FilesOf(d, k) : f.n = g.n => f = g
  <2> TAKE k \in {"s", "sc", "q", "r"}
  <2>1. FilesOf(d, k) \in SUBSET d
    BY DEF FilesOf
  <2>2. IsFiniteSet(FilesOf(d, k))
    BY <2>1, FS_Subset
  <2>3. \A f \in FilesOf(d, k) : f \in Files /\ f.n \in Nat /\ f.msg \in Nat /\ f.qos \in 0..2
    BY <2>1 DEF Files
  <2>4. \A f, g \in FilesOf(d, k) : f.n = g.n => f = g
    BY DEF FilesOf, SameKey
  <2> QED BY <2>1, <2>2, <2>3, <2>4
<1> DEFINE n == Cardinality(S)
           m == Cardinality(Q)
<1>3. /\ sent \in [1..n -> S] /\ n \in Nat
      /\ \A i, j \in 1..n : sent[i] = sent[j] => i = j
      /\ \A f \in S : \E i \in 1..n : sent[i] = f
  BY <1>2, ListsInOrder
<1>4. queued \in [1..m -> Q] /\ m \in Nat
  BY <1>2, ListsInOrder
<1> HIDE DEF sent, queued
<1>5. L \in Seq(Entries) /\ Len(L) = n /\ \A i \in 1..n : L[i] = entry(sent[i])
  <2>1. \A i \in 1..n : entry(sent[i]) \in Entries
    <3> TAKE i \in 1..n
    <3>1. sent[i] \in S
      BY <1>3
    <3>2. sent[i].n \in Nat /\ sent[i].msg \in Nat /\ sent[i].qos \in 0..2
      BY <1>2, <3>1
    <3> QED BY <3>2 DEF Entries
  <2>2. DOMAIN sent = 1..n
    BY <1>3
  <2> HIDE DEF entry, n
  <2>3. L \in [1..n -> Entries]
    BY <2>1, <2>2
  <2> QED BY <1>3, <2>2, <2>3
<1>6. M \in Seq([msg : Nat, seq : Nat])
  <2>1. \A i \in 1..m : [msg |-> queued[i].msg, seq |-> queued[i].n] \in [msg : Nat, seq : Nat]
    <3> TAKE i \in 1..m
    <3>1. queued[i] \in Q
      BY <1>4
    <3>2. queued[i].n \in Nat /\ queued[i].msg \in Nat
      BY <1>2, <3>1
    <3> QED BY <3>2
  <2>2. DOMAIN queued = 1..m
    BY <1>4
  <2> HIDE DEF m
  <2>3. M \in [1..m -> [msg : Nat, seq : Nat]]
    BY <2>1, <2>2
  <2> QED BY <1>4, <2>3
<1>7. I \in SUBSET [id : Nat, msg : Nat]
  BY <1>2
<1>8. num \in Nat
  <2>1. CASE queued # <<>>
    <3>1. Len(queued) = m /\ m # 0
      <4>1. Len(queued) = m
        BY <1>4
      <4>2. queued \in Seq(Q)
        BY <1>4
      <4> QED BY <2>1, <4>1, <4>2, EmptySeq
    <3>2. m \in 1..m
      BY <1>4, <3>1
    <3>3. queued[m] \in Q
      BY <1>4, <3>2
    <3>4. queued[m].n \in Nat
      BY <1>2, <3>3
    <3>5. Last(queued) = queued[m]
      BY <3>1 DEF Last
    <3> QED BY <3>4, <3>5
  <2> QED BY <2>1
<1> DEFINE rel(x) == \E h \in FilesOf(d, "sc") : h.n = x
<1>e. \A g \in S : /\ entry(g).id = g.n /\ entry(g).qos = g.qos /\ entry(g).msg = g.msg
                   /\ entry(g).next = IF rel(g.n) THEN "PUBCOMP"
                                      ELSE IF g.qos = 2 THEN "PUBREC" ELSE "PUBACK"
  <2> TAKE g \in S
  <2>1. released(g.n) <=> rel(g.n)
    BY DEF FilesOf
  <2> HIDE DEF released, rel
  <2> QED BY <2>1
<1> HIDE DEF entry, released, L, M, I, num
<1>9. \A i \in 1..n : sent[i] \in S /\ L[i].id = sent[i].n
  BY <1>3, <1>5, <1>e
<1>10. \A i, j \in 1..n : L[i].id = L[j].id => i = j
  <2> TAKE i, j \in 1..n
  <2> HAVE L[i].id = L[j].id
  <2>1. sent[i] \in S /\ sent[j] \in S /\ sent[i].n = sent[j].n
    BY <1>9
  <2>2. sent[i] = sent[j]
    BY <1>2, <2>1
  <2> QED BY <1>3, <2>2
<1> DEFINE W == WrapMsgID(L)
<1>11. /\ W \in Seq(Entries) /\ Len(W) = n
       /\ \A i \in 1..n : \E j \in 1..n : W[i] = L[j]
       /\ \A j \in 1..n : \E i \in 1..n : W[i] = L[j]
       /\ \A i, j \in 1..n : W[i].id = W[j].id => i = j
  <2> HIDE DEF n
  <2>1. L \in Seq(Entries) /\ Len(L) = n /\ \A i, j \in 1..Len(L) : L[i].id = L[j].id => i = j
    BY <1>5, <1>10
  <2> QED BY <2>1, WrapKeeps
<1> HIDE DEF W
<1>12. Restored(d) \in Clients /\ Restored(d).out = W /\ Restored(d).msgID = 0 /\ Restored(d).inb = I
  <2>1. 0 \in Nat
    OBVIOUS
  <2> QED BY <1>1, <1>6, <1>7, <1>8, <1>11, <2>1 DEF Clients, W
<1>13. DOMAIN W = 1..n
  BY <1>11, LenProperties
<1>14. \A i \in 1..n : \E g \in S :
          /\ W[i].id = g.n /\ W[i].qos = g.qos /\ W[i].msg = g.msg
          /\ W[i].next = IF rel(g.n) THEN "PUBCOMP"
                         ELSE IF g.qos = 2 THEN "PUBREC" ELSE "PUBACK"
  <2> HIDE DEF rel
  <2> TAKE i \in 1..n
  <2>1. PICK j \in 1..n : W[i] = L[j]
    BY <1>11
  <2>2. sent[j] \in S /\ W[i] = entry(sent[j])
    BY <1>3, <1>5, <2>1
  <2> QED BY <1>e, <2>2
<1>16. \A g \in S : \E i \in 1..n : W[i].id = g.n
  <2> TAKE g \in S
  <2>1. PICK j \in 1..n : sent[j] = g
    BY <1>3
  <2>2. PICK i \in 1..n : W[i] = L[j]
    BY <1>11
  <2> QED BY <1>9, <2>1, <2>2
<1>18. \A e \in I : \E g \in FilesOf(d, "r") : e.msg = g.msg
  BY DEF I
<1> HIDE DEF n
<1>19. DOMAIN Restored(d).out = 1..n /\ Restored(d).out = W /\ Len(W) = n
  BY <1>11, <1>12, <1>13
<1>20. n = Cardinality(FilesOf(d, "s"))
  BY DEF n
<1> DEFINE o == Restored(d).out
<1>21. \A i \in DOMAIN o : \E g \in S :
          /\ o[i].id = g.n /\ o[i].qos = g.qos /\ o[i].msg = g.msg
          /\ o[i].next = IF rel(g.n) THEN "PUBCOMP"
                         ELSE IF g.qos = 2 THEN "PUBREC" ELSE "PUBACK"
  <2> HIDE DEF rel
  <2> QED BY <1>14, <1>19
<1>22. \A g \in S : \E i \in DOMAIN o : o[i].id = g.n
  BY <1>16, <1>19
<1>23. \A i, j \in DOMAIN o : o[i].id = o[j].id => i = j
  BY <1>11, <1>19
<1>24. \A e \in Restored(d).inb : \E g \in FilesOf(d, "r") : e.msg = g.msg
  BY <1>12, <1>18
<1>25. Len(o) = Cardinality(FilesOf(d, "s"))
  BY <1>19, <1>20
<1> HIDE DEF I
<1> QED BY <1>12, <1>21, <1>22, <1>23, <1>24, <1>25

-----------------------------------------------------------------------------
(* Types, action by action. *)

USE IdAssumption, QosAssumption

\* Qualities of service are 1 and 2.
LEMMA QosAreSmall == \A q \in Qos : q \in {1, 2} /\ q \in 0..2 /\ q \in Nat
  OBVIOUS

\* What a publication puts into the list, on the wire and on disk.
LEMMA EntryShapes ==
    ASSUME NEW n \in Nat, NEW q \in Qos, NEW m \in Nat
    PROVE  /\ Entry(n, q, m) \in Entries /\ Entry(n, q, m).id = n /\ Entry(n, q, m).qos = q
           /\ Entry(n, q, m).msg = m /\ Entry(n, q, m).next = IF q = 2 THEN "PUBREC" ELSE "PUBACK"
           /\ Packet("PUBLISH", n, q, m, FALSE) \in Packets
           /\ File("s", n, m, q) \in Files
BY QosAreSmall DEF Entry, Entries, Packet, Packets, File, Files, Types

\* MQTTClient_publish when the packet is written, all or in part,
PublishWritten(q) ==
    /\ alive /\ up /\ todo = <<>> /\ held = <<>>
    /\ Len(client.out) < MaxInflight
    /\ LET id == AssignMsgId(client)
           m == Len(app.published) + 1
           p == Packet("PUBLISH", id, q, m, FALSE)
       IN /\ app' = [app EXCEPT !.published = Append(@, q)]
          /\ disk' = disk \cup (IF mode = "persistent" THEN {File("s", id, m, q)} ELSE {})
          /\ client' = [client EXCEPT !.out = Append(@, Entry(id, q, m)), !.msgID = id]
          /\ \/ toBroker' = Append(toBroker, p) /\ UNCHANGED <<held, faults>>
             \/ Fault /\ held' = <<p>> /\ UNCHANGED toBroker
    /\ UNCHANGED <<mode, relDup, alive, up, todo, run, stalled, toClient, broker>>

\* and when the write fails.
PublishFails(q) ==
    /\ alive /\ up /\ todo = <<>> /\ held = <<>>
    /\ Len(client.out) < MaxInflight
    /\ LET id == AssignMsgId(client)
           m == Len(app.published) + 1
       IN /\ app' = [app EXCEPT !.published = Append(@, q)]
          /\ disk' = disk \cup (IF mode = "persistent" THEN {File("s", id, m, q)} ELSE {})
          /\ Close([client EXCEPT !.out = Append(@, Entry(id, q, m)), !.msgID = id])
    /\ Fault
    /\ UNCHANGED <<mode, relDup, alive, todo, stalled, toBroker, broker>>

\* One or the other happens.
LEMMA PublishSplits ==
    ASSUME NEW q, Publish(q)
    PROVE  PublishWritten(q) \/ PublishFails(q)
BY DEF Publish, PublishWritten, PublishFails

\* What PublishWritten(q) does, with the id and the number it gives the message.
LEMMA PublishFacts ==
    ASSUME Shapes, OutInv, NEW q \in Qos, PublishWritten(q)
    PROVE  \E n \in 1..MaxId, p \in Packets :
              /\ p = Packet("PUBLISH", n, q, Len(app.published) + 1, FALSE)
              /\ \A i \in DOMAIN client.out : client.out[i].id # n
              /\ client' = [client EXCEPT !.out = Append(@, Entry(n, q, Len(app.published) + 1)),
                                          !.msgID = n]
              /\ disk' = disk \cup (IF mode = "persistent"
                                    THEN {File("s", n, Len(app.published) + 1, q)} ELSE {})
              /\ \/ toBroker' = Append(toBroker, p) /\ held' = <<>>
                 \/ toBroker' = toBroker /\ held' = <<p>>
              /\ faults' \in Nat
<1> DEFINE n == AssignMsgId(client)
           m == Len(app.published) + 1
           p == Packet("PUBLISH", n, q, m, FALSE)
<1>1. client.out \in Seq(Entries) /\ client.msgID \in Nat /\ Len(client.out) < MaxId
  BY DEF PublishWritten, Shapes, Clients, OutInv
<1>2. n \in 1..MaxId /\ \A i \in DOMAIN client.out : client.out[i].id # n
  BY <1>1, AssignedIdIsFree
<1> HIDE DEF n
<1>3. m \in Nat
  BY LenProperties DEF Shapes, Apps
<1>4. p \in Packets
  <2>1. n \in Nat
    BY <1>2
  <2> HIDE DEF m
  <2> QED BY <1>3, <2>1, EntryShapes
<1>5. faults' \in Nat
  <2>1. faults' = faults \/ faults' = faults + 1
    BY DEF PublishWritten, Fault
  <2> QED BY <2>1 DEF Shapes
<1> QED BY <1>2, <1>4, <1>5 DEF PublishWritten, n

\* MQTTClient_publish keeps the types.
LEMMA PublishShapes ==
    ASSUME Shapes, OutInv, NEW q \in Qos, PublishWritten(q)
    PROVE  Shapes'
<1> DEFINE m == Len(app.published) + 1
<1>1. m \in Nat /\ app.published \in Seq(Qos)
  BY LenProperties DEF Shapes, Apps
<1>2. PICK n \in 1..MaxId, p \in Packets :
              /\ client' = [client EXCEPT !.out = Append(@, Entry(n, q, m)), !.msgID = n]
              /\ disk' = disk \cup (IF mode = "persistent" THEN {File("s", n, m, q)} ELSE {})
              /\ \/ toBroker' = Append(toBroker, p) /\ held' = <<>>
                 \/ toBroker' = toBroker /\ held' = <<p>>
              /\ faults' \in Nat
  BY PublishFacts
<1> HIDE DEF m
<1>3. client' \in Clients
  <2>0. n \in Nat
    OBVIOUS
  <2>1. client.out \in Seq(Entries) /\ Entry(n, q, m) \in Entries /\ n \in Nat
    BY <1>1, <2>0, EntryShapes DEF Shapes, Clients
  <2>2. Append(client.out, Entry(n, q, m)) \in Seq(Entries)
    BY <2>1, AppendFacts
  <2> QED BY <1>2, <2>1, <2>2 DEF Shapes, Clients
<1>4. disk' \in SUBSET Files /\ IsFiniteSet(disk')
  <2>1. File("s", n, m, q) \in Files
    <3>1. n \in Nat
      OBVIOUS
    <3> QED BY <1>1, <3>1, EntryShapes
  <2>2. IsFiniteSet(disk \cup {File("s", n, m, q)}) /\ disk \cup {} = disk
    BY FS_AddElement DEF Shapes
  <2> QED BY <1>2, <2>1, <2>2 DEF Shapes
<1>5. held' \in Seq(Packets) /\ Len(held') <= 1 /\ toBroker' \in Seq(Packets)
  BY <1>2, WirePlusOne DEF Shapes
<1>6. app' \in Apps
  <2>1. app' = [app EXCEPT !.published = Append(@, q)]
    BY DEF PublishWritten
  <2>2. Append(app.published, q) \in Seq(Qos)
    BY <1>1, AppendFacts
  <2> QED BY <2>1, <2>2 DEF Shapes, Apps
<1> QED BY <1>2, <1>3, <1>4, <1>5, <1>6 DEF PublishWritten, Shapes

\* What a failing one does: the list with the new entry is what is closed.
LEMMA PublishFailsFacts ==
    ASSUME Shapes, OutInv, NEW q \in Qos, PublishFails(q)
    PROVE  \E n \in 1..MaxId, c \in Clients :
              /\ Packet("PUBLISH", n, q, Len(app.published) + 1, FALSE) \in Packets
              /\ \A i \in DOMAIN client.out : client.out[i].id # n
              /\ c.out = Append(client.out, Entry(n, q, Len(app.published) + 1)) /\ c.msgID = n
              /\ c.queue = client.queue /\ c.inb = client.inb /\ c.seqno = client.seqno
              /\ disk' = disk \cup (IF mode = "persistent"
                                    THEN {File("s", n, Len(app.published) + 1, q)} ELSE {})
              /\ Close(c)
<1> DEFINE n == AssignMsgId(client)
           m == Len(app.published) + 1
           c == [client EXCEPT !.out = Append(@, Entry(n, q, m)), !.msgID = n]
<1>1. client \in Clients /\ client.out \in Seq(Entries) /\ client.msgID \in Nat /\ Len(client.out) < MaxId
  BY DEF PublishFails, Shapes, Clients, OutInv
<1>2. n \in 1..MaxId /\ \A i \in DOMAIN client.out : client.out[i].id # n
  BY <1>1, AssignedIdIsFree
<1>3. Close(c) /\ disk' = disk \cup (IF mode = "persistent" THEN {File("s", n, m, q)} ELSE {})
  BY DEF PublishFails
<1> HIDE DEF n
<1>4. m \in Nat
  BY LenProperties DEF Shapes, Apps
<1> HIDE DEF m
<1>5. n \in Nat
  BY <1>2
<1>6. Packet("PUBLISH", n, q, m, FALSE) \in Packets /\ Entry(n, q, m) \in Entries
  BY <1>4, <1>5, EntryShapes
<1>7. Append(client.out, Entry(n, q, m)) \in Seq(Entries)
  BY <1>1, <1>6, AppendFacts
<1>8. /\ c \in Clients /\ c.out = Append(client.out, Entry(n, q, m)) /\ c.msgID = n
      /\ c.queue = client.queue /\ c.inb = client.inb /\ c.seqno = client.seqno
  BY <1>1, <1>5, <1>7 DEF Clients
<1> HIDE DEF c
<1> QED BY <1>2, <1>3, <1>6, <1>8 DEF m

\* It keeps the types too.
LEMMA PublishFailsShapes ==
    ASSUME Shapes, OutInv, NEW q \in Qos, PublishFails(q)
    PROVE  Shapes'
<1> DEFINE m == Len(app.published) + 1
<1>1. m \in Nat /\ app.published \in Seq(Qos)
  BY LenProperties DEF Shapes, Apps
<1>2. PICK n \in 1..MaxId, c \in Clients :
         Close(c) /\ disk' = disk \cup (IF mode = "persistent" THEN {File("s", n, m, q)} ELSE {})
  BY PublishFailsFacts
<1> HIDE DEF m
<1>3. disk' \in SUBSET Files /\ IsFiniteSet(disk')
  <2>1. File("s", n, m, q) \in Files
    <3>1. n \in Nat
      OBVIOUS
    <3> QED BY <1>1, <3>1, EntryShapes
  <2>2. IsFiniteSet(disk \cup {File("s", n, m, q)}) /\ disk \cup {} = disk
    BY FS_AddElement DEF Shapes
  <2> QED BY <1>2, <2>1, <2>2 DEF Shapes
<1>4. app' \in Apps
  <2>1. app' = [app EXCEPT !.published = Append(@, q)]
    BY DEF PublishFails
  <2>2. Append(app.published, q) \in Seq(Qos)
    BY <1>1, AppendFacts
  <2> QED BY <2>1, <2>2 DEF Shapes, Apps
<1>5. /\ client' \in Clients /\ up' \in BOOLEAN /\ run' \in {"cycle", "ready", "deliver"}
      /\ held' \in Seq(Packets) /\ Len(held') <= 1 /\ toClient' \in Seq(Packets)
  BY <1>2, CloseShapes
<1>6. faults' \in Nat
  BY DEF PublishFails, Fault, Shapes
<1>7. UNCHANGED <<mode, relDup, alive, todo, stalled, toBroker, broker>>
  BY DEF PublishFails
<1> QED BY <1>3, <1>4, <1>5, <1>6, <1>7 DEF Shapes

\* A reply of the broker is a packet.
LEMMA ReplyShapes ==
    ASSUME Shapes, NEW p \in Packets, Reply(p)
    PROVE  toClient' \in Seq(Packets)
<1>1. toClient \in Seq(Packets)
  BY DEF Shapes
<1>2. toClient' = Append(toClient, p) \/ toClient' = toClient
  BY DEF Reply
<1> QED BY <1>1, <1>2, AppendFacts

\* What somebody else's publication does to the broker.
LEMMA BrokerPublishesFacts ==
    ASSUME Shapes, NEW q \in Qos, BrokerPublishes(q)
    PROVE  \E n \in Nat :
              LET e == Entry(n, q, Len(app.offered) + 1)
                  p == Packet("PUBLISH", n, q, Len(app.offered) + 1, FALSE)
              IN  /\ \A i \in DOMAIN broker.out : broker.out[i].id # n
                  /\ e \in Entries /\ p \in Packets
                  /\ broker' = [broker EXCEPT !.out = Append(@, e)]
                  /\ Reply(p)
<1> DEFINE used == {broker.out[i].id : i \in DOMAIN broker.out}
           size == Len(broker.out) + 1
           free == (1..size) \ used
           n == Min(free)
           m == Len(app.offered) + 1
<1>1. broker.out \in Seq(Entries) /\ Len(broker.out) \in Nat /\ DOMAIN broker.out = 1..Len(broker.out)
      /\ app.offered \in Seq(Qos) /\ m \in Nat
  BY LenProperties DEF Shapes, Apps
<1>2. free # {}
  <2> SUFFICES ASSUME \A x \in 1..size : x \in used PROVE FALSE
    OBVIOUS
  <2> DEFINE f == [x \in 1..size |-> CHOOSE i \in DOMAIN broker.out : broker.out[i].id = x]
  <2>1. \A x \in 1..size : f[x] \in DOMAIN broker.out /\ broker.out[f[x]].id = x
    OBVIOUS
  <2>2. f \in [1..size -> 1..Len(broker.out)]
    BY <1>1, <2>1
  <2>3. IsFiniteSet(1..size) /\ IsFiniteSet(1..Len(broker.out))
        /\ Cardinality(1..Len(broker.out)) < Cardinality(1..size)
    <3>1. 1 \in Int /\ Len(broker.out) \in Int /\ size \in Int
      BY <1>1
    <3>2. IsFiniteSet(1..size) /\ Cardinality(1..size) = IF 1 > size THEN 0 ELSE size - 1 + 1
      BY <3>1, FS_Interval
    <3>3. /\ IsFiniteSet(1..Len(broker.out))
          /\ Cardinality(1..Len(broker.out)) =
                IF 1 > Len(broker.out) THEN 0 ELSE Len(broker.out) - 1 + 1
      BY <3>1, FS_Interval
    <3> QED BY <1>1, <3>2, <3>3
  <2> HIDE DEF f, size
  <2>4. \E x, y \in 1..size : x # y /\ f[x] = f[y]
    <3> DEFINE X == 1..size
               Y == 1..Len(broker.out)
    <3>1. /\ IsFiniteSet(X) /\ IsFiniteSet(Y) /\ Cardinality(Y) < Cardinality(X)
          /\ f \in [X -> Y]
      BY <2>2, <2>3
    <3> HIDE DEF X, Y
    <3>2. \E x, y \in X : x # y /\ f[x] = f[y]
      BY <3>1, FS_PigeonHole
    <3> QED BY <3>2 DEF X
  <2> QED BY <2>1, <2>4
<1>3. n \in free
  <2>1. free \subseteq Nat
    OBVIOUS
  <2> HIDE DEF free
  <2> QED BY <1>2, <2>1, SmallestOf
<1>4. n \in Nat /\ \A i \in DOMAIN broker.out : broker.out[i].id # n
  <2>1. n \notin used
    BY <1>3
  <2>2. n \in Nat
    <3> HIDE DEF used
    <3> QED BY <1>1, <1>3
  <2> QED BY <2>1, <2>2
<1> HIDE DEF n
<1>5. Entry(n, q, m) \in Entries /\ Packet("PUBLISH", n, q, m, FALSE) \in Packets
  <2> HIDE DEF m
  <2> QED BY <1>1, <1>4, EntryShapes
<1>6. broker' = [broker EXCEPT !.out = Append(@, Entry(n, q, m))] /\ Reply(Packet("PUBLISH", n, q, m, FALSE))
  BY DEF BrokerPublishes, n
<1> QED BY <1>4, <1>5, <1>6

\* And that it keeps the types.
LEMMA BrokerPublishesShapes ==
    ASSUME Shapes, NEW q \in Qos, BrokerPublishes(q)
    PROVE  Shapes'
<1>1. PICK n \in Nat :
              LET e == Entry(n, q, Len(app.offered) + 1)
                  p == Packet("PUBLISH", n, q, Len(app.offered) + 1, FALSE)
              IN  /\ e \in Entries /\ p \in Packets
                  /\ broker' = [broker EXCEPT !.out = Append(@, e)]
                  /\ Reply(p)
  BY BrokerPublishesFacts
<1>2. toClient' \in Seq(Packets)
  BY <1>1, ReplyShapes
<1>3. broker' \in [in : SUBSET Nat, out : Seq(Entries)]
  <2>1. Append(broker.out, Entry(n, q, Len(app.offered) + 1)) \in Seq(Entries)
    BY <1>1, AppendFacts DEF Shapes
  <2> QED BY <1>1, <2>1 DEF Shapes
<1>4. app' \in Apps
  <2>1. Append(app.offered, q) \in Seq(Qos)
    BY AppendFacts DEF Shapes, Apps
  <2> QED BY <2>1 DEF BrokerPublishes, Shapes, Apps
<1> QED BY <1>2, <1>3, <1>4 DEF BrokerPublishes, Shapes

\* What both sides repeat are packets, none of them an answer.
LEMMA RetryShapes ==
    ASSUME NEW o \in Seq(Entries), relDup \in BOOLEAN
    PROVE  /\ [i \in DOMAIN o |-> Retry(o[i])] \in Seq(Packets)
           /\ [i \in DOMAIN o |-> BrokerRetry(o[i])] \in Seq(Packets)
           /\ DOMAIN [i \in DOMAIN o |-> Retry(o[i])] = DOMAIN o
           /\ Len([i \in DOMAIN o |-> Retry(o[i])]) = Len(o)
           /\ \A i \in DOMAIN o : Retry(o[i]) \in Packets /\ ~Back(BrokerRetry(o[i]))
<1>1. DOMAIN o = 1..Len(o) /\ Len(o) \in Nat /\ \A i \in 1..Len(o) : o[i] \in Entries
  BY LenProperties
<1>2. ASSUME NEW e \in Entries
      PROVE  Retry(e) \in Packets /\ BrokerRetry(e) \in Packets /\ ~Back(BrokerRetry(e))
  <2>1. /\ e.id \in Nat /\ e.qos \in 0..2 /\ e.msg \in Nat
        /\ "PUBREL" \in Types /\ "PUBLISH" \in Types
    BY DEF Entries, Types
  <2>2. Ack("PUBREL", e.id) \in Packets /\ Ack("PUBREL", e.id).type = "PUBREL"
    BY <2>1, AckIsAPacket
  <2>3. Packet("PUBLISH", e.id, e.qos, e.msg, TRUE) \in Packets
    BY <2>1 DEF Packet, Packets
  <2>4. /\ [Ack("PUBREL", e.id) EXCEPT !.dup = relDup] \in Packets
        /\ [Ack("PUBREL", e.id) EXCEPT !.dup = relDup].type = "PUBREL"
    BY <2>2 DEF Packets
  <2>5. Packet("PUBLISH", e.id, e.qos, e.msg, TRUE).type = "PUBLISH"
    BY DEF Packet
  <2> QED BY <2>2, <2>3, <2>4, <2>5 DEF Retry, BrokerRetry, Back
<1>3. /\ [i \in 1..Len(o) |-> Retry(o[i])] \in [1..Len(o) -> Packets]
      /\ [i \in 1..Len(o) |-> BrokerRetry(o[i])] \in [1..Len(o) -> Packets]
  BY <1>1, <1>2
<1>4. /\ [i \in 1..Len(o) |-> Retry(o[i])] \in Seq(Packets)
      /\ [i \in 1..Len(o) |-> BrokerRetry(o[i])] \in Seq(Packets)
  BY <1>1, <1>3
<1>5. Len([i \in 1..Len(o) |-> Retry(o[i])]) = Len(o)
  BY <1>1
<1> QED BY <1>1, <1>2, <1>4, <1>5

\* Steps without a packet keep the types.
LEMMA QuietShapes ==
    ASSUME Shapes, Nothing,
           \/ DiskStep \/ ContinueWrite \/ FindReady \/ HandlePingresps \/ Deliver
           \/ Drop \/ Crash
    PROVE  Shapes'
<1>1. CASE DiskStep
  <2>1. Tail(todo) \in Seq(Ops) /\ Head(todo) \in Ops
    BY <1>1, TailFacts DEF DiskStep, Shapes
  <2>2. disk' \in SUBSET Files /\ IsFiniteSet(disk')
    BY <1>1, <2>1, AfterShapes DEF DiskStep, Shapes
  <2> QED BY <1>1, <2>1, <2>2 DEF DiskStep, Shapes
<1>2. CASE ContinueWrite
  <2>1. toBroker' \in Seq(Packets)
    BY <1>2, CatFacts DEF ContinueWrite, Shapes
  <2>2. <<>> \in Seq(Packets) /\ Len(<<>>) <= 1
    BY EmptySeq
  <2> QED BY <1>2, <2>1, <2>2 DEF ContinueWrite, Shapes
<1>3. CASE FindReady
  BY <1>3 DEF FindReady, Shapes
<1>4. CASE HandlePingresps
  BY <1>4 DEF HandlePingresps, Shapes
<1>5. CASE Deliver
  <2> USE <1>5 DEF Deliver
  <2>1. CASE Fault /\ UNCHANGED <<client, todo, app>>
    BY <2>1 DEF Fault, Shapes
  <2>2. CASE /\ app' = [app EXCEPT !.arrived = Append(@, Head(client.queue).msg)]
             /\ client' = [client EXCEPT !.queue = Tail(@)]
             /\ todo' = Filed(<<Rm("q", Head(client.queue).seq)>>)
             /\ UNCHANGED faults
    <3> DEFINE S == [msg : Nat, seq : Nat]
    <3>1. client.queue \in Seq(S) /\ client.queue # <<>>
      BY DEF Shapes, Clients, Nothing
    <3>2. Head(client.queue) \in S /\ Tail(client.queue) \in Seq(S)
      <4> HIDE DEF S
      <4> QED BY <3>1, TailFacts
    <3>3. Head(client.queue).msg \in Nat /\ Head(client.queue).seq \in Nat
      BY <3>2
    <3>4. client' \in Clients
      BY <2>2, <3>2 DEF Shapes, Clients
    <3>5. app' \in Apps
      <4>1. Append(app.arrived, Head(client.queue).msg) \in Seq(Nat)
        BY <3>3, AppendFacts DEF Shapes, Apps
      <4> QED BY <2>2, <4>1 DEF Shapes, Apps
    <3>6. todo' \in Seq(Ops)
      <4>1. Rm("q", Head(client.queue).seq) \in Ops
        BY <3>3, OpsAreOps
      <4>2. <<Rm("q", Head(client.queue).seq)>> \in Seq(Ops)
        BY <4>1
      <4> QED BY <2>2, <4>2, FiledIsOps
    <3> QED BY <2>2, <3>4, <3>5, <3>6 DEF Shapes
  <2> QED BY <2>1, <2>2
<1>6. CASE Drop
  <2>1. client \in Clients
    BY DEF Shapes
  <2>2. client' \in Clients /\ up' \in BOOLEAN /\ run' \in {"cycle", "ready", "deliver"}
        /\ held' \in Seq(Packets) /\ Len(held') <= 1 /\ toClient' \in Seq(Packets)
    BY <1>6, <2>1, CloseShapes DEF Drop
  <2> QED BY <1>6, <2>2 DEF Drop, Fault, Shapes
<1>7. CASE Crash
  <2>1. NoLists \in Clients
    BY EmptySeq DEF NoLists, Clients
  <2>2. <<>> \in Seq(Packets) /\ Len(<<>>) <= 1 /\ <<>> \in Seq(Ops)
    BY EmptySeq
  <2>3. app' \in Apps
    <3>1. app.crashes + 1 \in Nat
      BY DEF Shapes, Apps
    <3> QED BY <1>7, <3>1 DEF Crash, Shapes, Apps
  <2>4. faults' \in Nat
    BY <1>7 DEF Crash, Fault, Shapes
  <2> QED BY <1>7, <2>1, <2>2, <2>3, <2>4 DEF Crash, Shapes
<1> QED BY <1>1, <1>2, <1>3, <1>4, <1>5, <1>6, <1>7

\* The cases of BrokerReads.
ReadPublish1(p) ==
    /\ p.type = "PUBLISH" /\ p.qos = 1
    /\ app' = [app EXCEPT !.received = Append(@, p.msg)]
    /\ Reply(Ack("PUBACK", p.id)) /\ broker' = broker
ReadPublish2(p) ==
    /\ p.type = "PUBLISH" /\ p.qos = 2
    /\ app' = IF p.id \in broker.in THEN app ELSE [app EXCEPT !.received = Append(@, p.msg)]
    /\ broker' = [broker EXCEPT !.in = @ \cup {p.id}]
    /\ Reply(Ack("PUBREC", p.id))
ReadPubrel(p) ==
    /\ p.type = "PUBREL"
    /\ broker' = [broker EXCEPT !.in = @ \ {p.id}]
    /\ Reply(Ack("PUBCOMP", p.id)) /\ app' = app
\* An acknowledgement of the client's: the broker's own flow goes on.
ReadAck(p) ==
    /\ p.type \in {"PUBREC", "PUBACK", "PUBCOMP"}
    /\ broker' \in [in : SUBSET Nat, out : Seq(Entries)] /\ broker'.in = broker.in
    /\ \A i \in DOMAIN broker'.out : \E j \in DOMAIN broker.out : broker'.out[i].msg = broker.out[j].msg
    /\ app' = app
    /\ Reply(Ack("PUBREL", p.id)) \/ toClient' = toClient

\* The broker does one of four things with a packet.
LEMMA BrokerReadsFacts ==
    ASSUME Shapes, BrokerReads, Head(toBroker).type = "PUBLISH" => Head(toBroker).qos \in {1, 2}
    PROVE  /\ Head(toBroker) \in Packets
           /\ \/ ReadPublish1(Head(toBroker)) \/ ReadPublish2(Head(toBroker))
              \/ ReadPubrel(Head(toBroker)) \/ ReadAck(Head(toBroker))
<1> DEFINE p == Head(toBroker)
           mine == {i \in DOMAIN broker.out : broker.out[i].id = p.id}
<1>1. p \in Packets
  BY TailFacts DEF BrokerReads, Shapes
<1>2. p.type \in Types
  BY <1>1 DEF Packets
<1>3. broker.out \in Seq(Entries) /\ broker.in \in SUBSET Nat
  BY DEF Shapes
<1> HIDE DEF p
<1>4. CASE p.type = "PUBLISH" /\ p.qos = 1
  <2>1. ReadPublish1(p)
    <3>1. p.type # "PUBREL" /\ p.type # "PUBREC" /\ p.type \notin {"PUBACK", "PUBCOMP"} /\ p.qos # 2
      BY <1>4
    <3> QED BY <1>4, <3>1 DEF BrokerReads, ReadPublish1, p
  <2> QED BY <1>1, <2>1 DEF p
<1>5. CASE p.type = "PUBLISH" /\ p.qos = 2
  <2>1. ReadPublish2(p)
    <3>1. p.type # "PUBREL" /\ p.type # "PUBREC" /\ p.type \notin {"PUBACK", "PUBCOMP"} /\ p.qos # 1
      BY <1>5
    <3>2. /\ IF p.id \in broker.in THEN UNCHANGED app
             ELSE app' = [app EXCEPT !.received = Append(@, p.msg)]
          /\ broker' = [broker EXCEPT !.in = @ \cup {p.id}]
          /\ Reply(Ack("PUBREC", p.id))
      BY <1>5, <3>1 DEF BrokerReads, p
    <3> QED BY <1>5, <3>2 DEF ReadPublish2
  <2> QED BY <1>1, <2>1 DEF p
<1>6. CASE p.type = "PUBREL"
  <2>1. ReadPubrel(p)
    BY <1>6 DEF BrokerReads, ReadPubrel, p
  <2> QED BY <1>1, <2>1 DEF p
<1>7. CASE p.type = "PUBREC"
  <2>1. /\ broker' = [broker EXCEPT !.out = [i \in DOMAIN broker.out |->
                        IF i \in mine THEN [broker.out[i] EXCEPT !.next = "PUBCOMP"]
                        ELSE broker.out[i]]]
        /\ Reply(Ack("PUBREL", p.id)) /\ app' = app
    BY <1>7 DEF BrokerReads, p
  <2> DEFINE o == [i \in DOMAIN broker.out |->
                     IF i \in mine THEN [broker.out[i] EXCEPT !.next = "PUBCOMP"]
                     ELSE broker.out[i]]
  <2>2. DOMAIN broker.out = 1..Len(broker.out) /\ Len(broker.out) \in Nat
        /\ \A i \in 1..Len(broker.out) : broker.out[i] \in Entries
    BY <1>3, LenProperties
  <2>3. \A e \in Entries : [e EXCEPT !.next = "PUBCOMP"] \in Entries
                           /\ [e EXCEPT !.next = "PUBCOMP"].msg = e.msg
    BY DEF Entries
  <2>4. o \in [1..Len(broker.out) -> Entries] /\ \A i \in DOMAIN o : o[i].msg = broker.out[i].msg
    <3> HIDE DEF mine
    <3> QED BY <2>2, <2>3
  <2>5. o \in Seq(Entries) /\ DOMAIN o = DOMAIN broker.out
    BY <2>2, <2>4
  <2> HIDE DEF o
  <2>6. broker' = [broker EXCEPT !.out = o]
    BY <2>1 DEF o
  <2>7. /\ broker' \in [in : SUBSET Nat, out : Seq(Entries)]
        /\ broker'.in = broker.in /\ broker'.out = o
    BY <2>5, <2>6 DEF Shapes
  <2> QED BY <1>1, <1>7, <2>1, <2>4, <2>5, <2>7 DEF ReadAck, p
<1>8. CASE p.type \in {"PUBACK", "PUBCOMP"}
  <2> DEFINE o == IF mine = {} THEN broker.out ELSE RemoveAt(broker.out, Min(mine))
  <2>1. broker' = [broker EXCEPT !.out = o] /\ toClient' = toClient /\ app' = app
    BY <1>8 DEF BrokerReads, p
  <2>2. o \in Seq(Entries) /\ \A i \in DOMAIN o : \E j \in DOMAIN broker.out : o[i] = broker.out[j]
    <3>1. CASE mine = {}
      BY <1>3, <3>1
    <3>2. CASE mine # {}
      <4>1. mine \subseteq Nat
        BY <1>3, LenProperties
      <4>2. Min(mine) \in DOMAIN broker.out
        <5>1. Min(mine) \in mine
          <6> HIDE DEF mine
          <6> QED BY <3>2, <4>1, SmallestOf
        <5> QED BY <5>1
      <4> DEFINE k == Min(mine)
      <4>3. k \in DOMAIN broker.out
        BY <4>2
      <4> HIDE DEF k
      <4>4. /\ RemoveAt(broker.out, k) \in Seq(Entries)
            /\ \A i \in DOMAIN RemoveAt(broker.out, k) :
                  \E j \in DOMAIN broker.out : RemoveAt(broker.out, k)[i] = broker.out[j]
        BY <1>3, <4>3, RemoveFacts
      <4>5. o = RemoveAt(broker.out, k)
        BY <3>2 DEF k
      <4> HIDE DEF o
      <4> QED BY <4>4, <4>5
    <3> QED BY <3>1, <3>2
  <2> HIDE DEF o
  <2>3. /\ broker' \in [in : SUBSET Nat, out : Seq(Entries)]
        /\ broker'.in = broker.in /\ broker'.out = o
    BY <2>1, <2>2 DEF Shapes
  <2> QED BY <1>1, <1>8, <2>1, <2>2, <2>3 DEF ReadAck, p
<1>9. p.type = "PUBLISH" => p.qos \in {1, 2}
  BY DEF p
<1> QED BY <1>2, <1>4, <1>5, <1>6, <1>7, <1>8, <1>9 DEF Types

\* Each keeps the types.
LEMMA BrokerReadsShapes ==
    ASSUME Shapes, BrokerReads, Head(toBroker).type = "PUBLISH" => Head(toBroker).qos \in {1, 2}
    PROVE  Shapes'
<1> DEFINE p == Head(toBroker)
<1>1. /\ p \in Packets
      /\ ReadPublish1(p) \/ ReadPublish2(p) \/ ReadPubrel(p) \/ ReadAck(p)
  BY BrokerReadsFacts
<1>2. p.id \in Nat /\ p.msg \in Nat
  BY <1>1 DEF Packets
<1> HIDE DEF p
<1>3. toBroker' \in Seq(Packets)
  BY TailFacts DEF BrokerReads, Shapes
<1>4. toClient' \in Seq(Packets)
  <2>1. \A t \in Types : Ack(t, p.id) \in Packets
    BY <1>2, AckIsAPacket
  <2>2. toClient' = toClient \/ \E t \in {"PUBACK", "PUBREC", "PUBCOMP", "PUBREL"} : Reply(Ack(t, p.id))
    BY <1>1 DEF ReadPublish1, ReadPublish2, ReadPubrel, ReadAck
  <2>3. {"PUBACK", "PUBREC", "PUBCOMP", "PUBREL"} \subseteq Types
    BY DEF Types
  <2> QED BY <2>1, <2>2, <2>3, ReplyShapes DEF Shapes
<1>5. app' \in Apps
  <2>1. [app EXCEPT !.received = Append(@, p.msg)] \in Apps
    <3>1. Append(app.received, p.msg) \in Seq(Nat)
      BY <1>2, AppendFacts DEF Shapes, Apps
    <3> QED BY <3>1 DEF Shapes, Apps
  <2>2. app \in Apps
    BY DEF Shapes
  <2> QED BY <1>1, <2>1, <2>2 DEF ReadPublish1, ReadPublish2, ReadPubrel, ReadAck
<1>6. broker' \in [in : SUBSET Nat, out : Seq(Entries)]
  <2>1. /\ broker \in [in : SUBSET Nat, out : Seq(Entries)]
        /\ [broker EXCEPT !.in = @ \cup {p.id}] \in [in : SUBSET Nat, out : Seq(Entries)]
        /\ [broker EXCEPT !.in = @ \ {p.id}] \in [in : SUBSET Nat, out : Seq(Entries)]
    BY <1>2 DEF Shapes
  <2> QED BY <1>1, <2>1 DEF ReadPublish1, ReadPublish2, ReadPubrel, ReadAck
<1> QED BY <1>3, <1>4, <1>5, <1>6 DEF BrokerReads, Shapes

\* The packet a handler is given, and when.
LEMMA ReadsFacts ==
    ASSUME Shapes, NEW p, NEW type, Reads(type, p)
    PROVE  /\ p \in Packets /\ p.id \in Nat /\ p.msg \in Nat /\ p.type = type
           /\ toClient # <<>> /\ p = toClient[1] /\ 1 \in DOMAIN toClient
           /\ alive /\ up /\ todo = <<>>
<1>1. p \in Packets /\ p = toClient[1] /\ 1 \in DOMAIN toClient
  BY TailFacts DEF Reads, Shapes
<1> QED BY <1>1 DEF Reads, Packets

\* The handler of PUBLISH keeps the types.
LEMMA HandlePublishesShapes ==
    ASSUME Shapes, HandlePublishes
    PROVE  Shapes'
<1>1. PICK p : Reads("PUBLISH", p) /\ (HandlePublish1(p) \/ HandlePublish2(p))
  BY DEF HandlePublishes
<1>2. p \in Packets /\ p.id \in Nat /\ p.msg \in Nat /\ toClient # <<>> /\ todo = <<>>
  BY <1>1, ReadsFacts
<1>3. "PUBACK" \in Types /\ "PUBREC" \in Types
  BY DEF Types
<1>4. Ack("PUBACK", p.id) \in Packets /\ Ack("PUBREC", p.id) \in Packets
  BY <1>2, <1>3, AckIsAPacket
<1>5. client \in Clients /\ Queued(client, p.msg) \in Clients
  BY <1>2, QueuedIsAClient DEF Shapes
<1>6. CASE HandlePublish1(p)
  <2>1. Connection'
    BY <1>2, <1>4, <1>5, <1>6, AnswerShapes DEF HandlePublish1
  <2>2. todo' \in Seq(Ops)
    <3>1. QueueFile(p.msg) \in Ops
      <4>1. client.seqno + 1 \in Nat
        BY <1>5 DEF Clients
      <4> QED BY <1>2, <4>1, OpsAreOps DEF QueueFile
    <3>2. <<QueueFile(p.msg)>> \in Seq(Ops) /\ <<>> \in Seq(Ops)
      BY <3>1
    <3> QED BY <1>6, <3>2, FiledIsOps DEF HandlePublish1
  <2> QED BY <1>6, <2>1, <2>2 DEF HandlePublish1, HandlePublishes, Connection, Shapes
<1>7. CASE HandlePublish2(p)
  <2> DEFINE e == [id |-> p.id, msg |-> p.msg]
             kept == {x \in client.inb : x.id # p.id} \cup {e}
             c == [client EXCEPT !.inb = kept]
  <2>1. c \in Clients
    <3>1. e \in [id : Nat, msg : Nat] /\ client.inb \in SUBSET [id : Nat, msg : Nat]
      BY <1>2, <1>5 DEF Clients
    <3>2. kept \in SUBSET [id : Nat, msg : Nat]
      BY <3>1
    <3> HIDE DEF kept
    <3> QED BY <1>5, <3>2 DEF Clients
  <2>2. Answer(Ack("PUBREC", p.id), client) \/ Answer(Ack("PUBREC", p.id), c)
    BY <1>7 DEF HandlePublish2
  <2> HIDE DEF c
  <2>3. Connection'
    BY <1>2, <1>4, <1>5, <2>1, <2>2, AnswerShapes
  <2>4. disk' \in SUBSET Files /\ IsFiniteSet(disk')
    <3>1. Put(File("r", p.id, p.msg, 2)) \in Ops
      BY <1>2, OpsAreOps
    <3>2. disk' = After(disk, Put(File("r", p.id, p.msg, 2))) \/ disk' = disk
      BY <1>7 DEF HandlePublish2
    <3> QED BY <3>1, <3>2, AfterShapes DEF Shapes
  <2>5. todo' = <<>> /\ <<>> \in Seq(Ops)
    BY <1>7 DEF HandlePublish2
  <2> QED BY <2>3, <2>4, <2>5 DEF HandlePublishes, Connection, Shapes
<1> QED BY <1>1, <1>6, <1>7

\* The end of a flow keeps the types.
LEMMA OverShapes ==
    ASSUME Shapes, toClient # <<>>, NEW i \in DOMAIN client.out, Over(i)
    PROVE  Connection' /\ todo' \in Seq(Ops)
<1>1. client \in Clients /\ client.out[i].id \in Nat
  <2>1. client \in Clients /\ client.out \in Seq(Entries)
    BY DEF Shapes, Clients
  <2>2. client.out[i] \in Entries
    BY <2>1, LenProperties
  <2> QED BY <2>1, <2>2 DEF Entries
<1>2. [client EXCEPT !.out = RemoveAt(@, i)] \in Clients
  BY <1>1, MinusOneShapes
<1>3. Connection'
  BY <1>2, SilentShapes DEF Over
<1>4. todo' \in Seq(Ops)
  <2> DEFINE x == Rm("s", client.out[i].id)
             y == Rm("sc", client.out[i].id)
  <2>1. x \in Ops /\ y \in Ops
    BY <1>1, OpsAreOps
  <2>2. todo' = Filed(<<x, y>>)
    BY DEF Over
  <2> HIDE DEF x, y
  <2>3. <<x, y>> \in Seq(Ops)
    BY <2>1
  <2> QED BY <2>2, <2>3, FiledIsOps
<1> QED BY <1>3, <1>4

\* A packet that is ignored keeps the types.
LEMMA IgnoredShapes ==
    ASSUME Shapes, toClient # <<>>, Ignored
    PROVE  Connection' /\ todo' \in Seq(Ops)
<1>1. client \in Clients /\ todo \in Seq(Ops)
  BY DEF Shapes
<1> QED BY <1>1, SilentShapes DEF Ignored

\* The handlers of PUBACK and PUBCOMP keep the types.
LEMMA HandleAcksShapes ==
    ASSUME Shapes, HandlePubacks \/ HandlePubcomps
    PROVE  Shapes'
<1>1. CASE HandlePubacks
  <2>1. toClient # <<>>
    BY <1>1 DEF HandlePubacks, Reads
  <2>2. Ignored \/ \E i \in DOMAIN client.out : Over(i)
    BY <1>1 DEF HandlePubacks, Outbound
  <2>3. Connection' /\ todo' \in Seq(Ops)
    BY <2>1, <2>2, OverShapes, IgnoredShapes
  <2> QED BY <1>1, <2>3 DEF HandlePubacks, Connection, Shapes
<1>2. CASE HandlePubcomps
  <2>1. toClient # <<>>
    BY <1>2 DEF HandlePubcomps, Reads
  <2>2. Ignored \/ \E i \in DOMAIN client.out : Over(i)
    BY <1>2 DEF HandlePubcomps, Outbound
  <2>3. Connection' /\ todo' \in Seq(Ops)
    BY <2>1, <2>2, OverShapes, IgnoredShapes
  <2> QED BY <1>2, <2>3 DEF HandlePubcomps, Connection, Shapes
<1> QED BY <1>1, <1>2

\* The handler of PUBREC keeps the types.
LEMMA HandlePubrecsShapes ==
    ASSUME Shapes, HandlePubrecs
    PROVE  Shapes'
<1>1. PICK p : /\ Reads("PUBREC", p)
               /\ \/ \E i \in Outbound(p.id) :
                       /\ client.out[i].next = "PUBREC"
                       /\ Answer(Ack("PUBREL", p.id), [client EXCEPT !.out[i].next = "PUBCOMP"])
                       /\ disk' = disk \cup (IF mode = "persistent"
                                             THEN {File("sc", p.id, 0, 0)} ELSE {})
                  \/ Silent(client) /\ UNCHANGED disk
  BY DEF HandlePubrecs
<1>2. p \in Packets /\ p.id \in Nat /\ toClient # <<>>
  BY <1>1, ReadsFacts
<1>3. client \in Clients /\ disk \in SUBSET Files /\ IsFiniteSet(disk)
  BY DEF Shapes
<1>4. CASE Silent(client) /\ UNCHANGED disk
  <2>1. Connection'
    BY <1>2, <1>3, <1>4, SilentShapes
  <2> QED BY <1>4, <2>1 DEF HandlePubrecs, Connection, Shapes
<1>5. ASSUME NEW i \in Outbound(p.id),
             Answer(Ack("PUBREL", p.id), [client EXCEPT !.out[i].next = "PUBCOMP"]),
             disk' = disk \cup (IF mode = "persistent" THEN {File("sc", p.id, 0, 0)} ELSE {})
      PROVE  Shapes'
  <2>1. [client EXCEPT !.out[i].next = "PUBCOMP"] \in Clients
    BY <1>3, NextShapes DEF Outbound
  <2>2. "PUBREL" \in Types
    BY DEF Types
  <2>3. Ack("PUBREL", p.id) \in Packets
    BY <1>2, <2>2, AckIsAPacket
  <2>4. Connection'
    BY <1>2, <1>5, <2>1, <2>3, AnswerShapes
  <2>5. disk' \in SUBSET Files /\ IsFiniteSet(disk')
    <3>1. File("sc", p.id, 0, 0) \in Files
      BY <1>2, OpsAreOps
    <3>2. IsFiniteSet(disk \cup {File("sc", p.id, 0, 0)}) /\ disk \cup {} = disk
      BY <1>3, FS_AddElement
    <3> QED BY <1>3, <1>5, <3>1, <3>2
  <2> QED BY <2>4, <2>5 DEF HandlePubrecs, Connection, Shapes
<1> QED BY <1>1, <1>4, <1>5

\* The handler of PUBREL keeps the types.
LEMMA HandlePubrelsShapes ==
    ASSUME Shapes, HandlePubrels
    PROVE  Shapes'
<1>1. PICK p : /\ Reads("PUBREL", p)
               /\ \/ \E e \in Inbound(p.id) :
                       LET c == [client EXCEPT !.inb = @ \ {e}]
                       IN  \/ Answer(Ack("PUBCOMP", p.id), client) /\ UNCHANGED todo
                           \/ /\ Answer(Ack("PUBCOMP", p.id), Queued(c, e.msg))
                              /\ todo' = Filed(<<QueueFile(e.msg), Rm("r", p.id)>>)
                  \/ Answer(Ack("PUBCOMP", p.id), client) /\ UNCHANGED todo
                  \/ Silent(client) /\ UNCHANGED todo
  BY DEF HandlePubrels
<1>2. p \in Packets /\ p.id \in Nat /\ toClient # <<>>
  BY <1>1, ReadsFacts
<1>3. client \in Clients /\ todo \in Seq(Ops)
  BY DEF Shapes
<1>4. Ack("PUBCOMP", p.id) \in Packets
  <2>1. "PUBCOMP" \in Types
    BY DEF Types
  <2> QED BY <1>2, <2>1, AckIsAPacket
<1>5. ASSUME NEW e \in Inbound(p.id),
             Answer(Ack("PUBCOMP", p.id), Queued([client EXCEPT !.inb = @ \ {e}], e.msg)),
             todo' = Filed(<<QueueFile(e.msg), Rm("r", p.id)>>)
      PROVE  Connection' /\ todo' \in Seq(Ops)
  <2>1. e \in [id : Nat, msg : Nat] /\ client.seqno + 1 \in Nat
    BY <1>3 DEF Inbound, Clients
  <2>2. [client EXCEPT !.inb = @ \ {e}] \in Clients /\ e.msg \in Nat
    BY <1>3, <2>1 DEF Clients
  <2>3. Queued([client EXCEPT !.inb = @ \ {e}], e.msg) \in Clients
    BY <2>2, QueuedIsAClient
  <2>4. Connection'
    BY <1>2, <1>4, <1>5, <2>3, AnswerShapes
  <2> DEFINE x == QueueFile(e.msg)
             y == Rm("r", p.id)
  <2>5. x \in Ops /\ y \in Ops
    BY <1>2, <2>1, <2>2, OpsAreOps DEF QueueFile
  <2> HIDE DEF x, y
  <2>6. <<x, y>> \in Seq(Ops)
    BY <2>5
  <2>7. todo' = Filed(<<x, y>>)
    BY <1>5 DEF x, y
  <2> QED BY <2>4, <2>6, <2>7, FiledIsOps
<1>6. Connection' /\ todo' \in Seq(Ops)
  <2>1. CASE Answer(Ack("PUBCOMP", p.id), client) /\ UNCHANGED todo
    BY <1>2, <1>3, <1>4, <2>1, AnswerShapes
  <2>2. CASE Silent(client) /\ UNCHANGED todo
    BY <1>2, <1>3, <2>2, SilentShapes
  <2> QED BY <1>1, <1>5, <2>1, <2>2
<1> QED BY <1>6 DEF HandlePubrels, Connection, Shapes

\* Restoring the lists keeps the types.
LEMMA CreateShapes ==
    ASSUME Shapes, KeyInv, Create
    PROVE  Shapes'
<1>1. disk \in SUBSET Files /\ IsFiniteSet(disk) /\ \A f, g \in disk : SameKey(f, g) => f = g
  BY DEF Shapes, KeyInv
<1>2. client' \in Clients
  BY <1>1, RestoredFacts DEF Create
<1>3. disk' \in SUBSET disk
  BY DEF Create, WithoutOrphans
<1>4. disk' \in SUBSET Files /\ IsFiniteSet(disk')
  BY <1>1, <1>3, FS_Subset
<1> QED BY <1>2, <1>4 DEF Create, Shapes

\* Connecting, with its retries, keeps the types.
LEMMA ConnectShapes ==
    ASSUME Shapes, Connect
    PROVE  Shapes'
<1> DEFINE out == Closed(client).out
           repeated == [i \in DOMAIN out |-> Retry(out[i])]
           answers == [i \in DOMAIN broker'.out |-> BrokerRetry(broker'.out[i])]
<1>1. Closed(client) \in Clients /\ out \in Seq(Entries) /\ client \in Clients
  BY ClosedIsAClient DEF Shapes, Clients
<1>2. broker' \in [in : SUBSET Nat, out : Seq(Entries)]
  <2>1. NoSession \in [in : SUBSET Nat, out : Seq(Entries)]
    BY EmptySeq DEF NoSession
  <2> QED BY <2>1 DEF Connect, Shapes
<1>3. broker'.out \in Seq(Entries) /\ relDup \in BOOLEAN
  BY <1>2 DEF Shapes
<1>4. /\ repeated \in Seq(Packets) /\ answers \in Seq(Packets) /\ Len(repeated) = Len(out)
      /\ DOMAIN repeated = DOMAIN out
  BY <1>1, <1>3, RetryShapes
<1> HIDE DEF out, repeated, answers
<1>5. CASE /\ up' = TRUE
           /\ client' = Closed(client)
           /\ toBroker' = repeated
           /\ toClient' = answers
           /\ stalled' = FALSE
           /\ UNCHANGED <<held, run, faults>>
  BY <1>1, <1>2, <1>4, <1>5 DEF Connect, Shapes
<1>6. ASSUME NEW k \in DOMAIN out, Fault,
             toBroker' = SubSeq(repeated, 1, k - 1),
             stalled' = (k < Len(out)),
             IF repeated[k].type = "PUBREL" THEN Close(client)
             ELSE /\ up' = TRUE
                  /\ held' = <<repeated[k]>>
                  /\ client' = client
                  /\ toClient' = answers
                  /\ run' = run
      PROVE  Shapes'
  <2>1. k - 1 \in Nat /\ k - 1 <= Len(repeated) /\ k \in 1..Len(repeated) /\ repeated[k] \in Packets
    <3>1. DOMAIN out = 1..Len(out) /\ Len(out) \in Nat
      BY <1>1, LenProperties
    <3>2. k \in 1..Len(repeated) /\ Len(repeated) \in Nat
      BY <1>4, <3>1
    <3>3. repeated[k] \in Packets
      BY <1>4, <3>2, ElementOfSeq
    <3> QED BY <3>2, <3>3
  <2>2. toBroker' \in Seq(Packets)
    BY <1>4, <1>6, <2>1, SliceFacts
  <2>3. faults' \in Nat
    BY <1>6 DEF Fault, Shapes
  <2>4. client' \in Clients /\ up' \in BOOLEAN /\ run' \in {"cycle", "ready", "deliver"}
        /\ held' \in Seq(Packets) /\ Len(held') <= 1 /\ toClient' \in Seq(Packets)
    <3>1. CASE Close(client)
      BY <1>1, <3>1, CloseShapes
    <3>2. CASE /\ up' = TRUE /\ held' = <<repeated[k]>> /\ client' = client
               /\ toClient' = answers /\ run' = run
      <4>1. <<repeated[k]>> \in Seq(Packets) /\ Len(<<repeated[k]>>) <= 1
        BY <2>1
      <4> QED BY <1>1, <1>4, <3>2, <4>1 DEF Shapes
    <3> QED BY <1>6, <3>1, <3>2
  <2>5. stalled' \in BOOLEAN
    BY <1>6
  <2> QED BY <1>2, <2>2, <2>3, <2>4, <2>5 DEF Connect, Shapes
<1> QED BY <1>5, <1>6 DEF Connect, out, repeated, answers

-----------------------------------------------------------------------------
(* The order a restart finds. *)

\* Strictly in the order of their keys; every element of one in the other.
Rising(s, key) == \A i, j \in DOMAIN s : i < j => key[s[i]] < key[s[j]]
Within(s, t) == \A i \in DOMAIN s : \E j \in DOMAIN t : t[j] = s[i]
Number == [e \in Entries |-> e.id]

\* A sequence in strict order with the elements of another begins like it.
LEMMA SameBeginning ==
    ASSUME NEW E, NEW key \in [E -> Nat], NEW s \in Seq(E), NEW t \in Seq(E),
           Rising(s, key), Rising(t, key), Within(s, t), Within(t, s)
    PROVE  Len(s) <= Len(t) /\ \A i \in DOMAIN s : s[i] = t[i]
<1>1. /\ DOMAIN s = 1..Len(s) /\ Len(s) \in Nat /\ DOMAIN t = 1..Len(t) /\ Len(t) \in Nat
      /\ \A i \in DOMAIN s : s[i] \in E /\ key[s[i]] \in Nat
      /\ \A i \in DOMAIN t : t[i] \in E /\ key[t[i]] \in Nat
  BY LenProperties, ElementOfSeq
<1> DEFINE D == {i \in 1..Len(s) : i > Len(t) \/ s[i] # t[i]}
<1>2. D = {}
  <2> SUFFICES ASSUME D # {} PROVE FALSE
    OBVIOUS
  <2>1. D \subseteq Nat
    BY <1>1
  <2> DEFINE k == Min(D)
  <2>2. k \in D /\ \A y \in D : k <= y
    <3> HIDE DEF D
    <3> QED BY <2>1, SmallestOf
  <2>3. k \in 1..Len(s) /\ (k > Len(t) \/ s[k] # t[k])
    BY <2>2
  <2>4. \A i \in 1..Len(s) : i < k => i <= Len(t) /\ s[i] = t[i]
    <3> TAKE i \in 1..Len(s)
    <3> HAVE i < k
    <3>1. i \in Nat /\ k \in Nat
      BY <1>1, <2>3
    <3>2. i \notin D
      <4> HIDE DEF k, D
      <4> QED BY <2>2, <3>1
    <3> QED BY <1>1, <3>1, <3>2
  <2> HIDE DEF k, D
  <2>5. PICK j \in 1..Len(t) : t[j] = s[k]
    BY <1>1, <2>3 DEF Within
  <2>6. k \in Nat /\ j \in Nat
    BY <1>1, <2>3
  <2>7. ~(j < k)
    <3> SUFFICES ASSUME j < k PROVE FALSE
      OBVIOUS
    <3>1. j \in 1..Len(s)
      BY <1>1, <2>3, <2>6
    <3>2. s[j] = t[j]
      BY <2>4, <3>1
    <3>3. key[s[j]] < key[s[k]]
      BY <1>1, <2>3, <3>1 DEF Rising
    <3>4. key[s[k]] \in Nat
      BY <1>1, <2>3
    <3> QED BY <2>5, <3>2, <3>3, <3>4
  <2>8. k < j
    <3>1. k # j
      BY <1>1, <2>3, <2>5
    <3> QED BY <2>6, <2>7, <3>1
  <2>9. k \in 1..Len(t) /\ s[k] # t[k]
    BY <1>1, <2>3, <2>6, <2>8
  <2>10. PICK i \in 1..Len(s) : t[k] = s[i]
    BY <1>1, <2>9 DEF Within
  <2>11. i \in Nat
    BY <1>1
  <2>12. ~(i < k)
    <3> SUFFICES ASSUME i < k PROVE FALSE
      OBVIOUS
    <3>1. i \in 1..Len(t) /\ s[i] = t[i]
      BY <1>1, <2>4
    <3>2. key[t[i]] < key[t[k]]
      BY <1>1, <2>9, <3>1 DEF Rising
    <3>3. key[t[k]] \in Nat
      BY <1>1, <2>9
    <3> QED BY <2>10, <3>1, <3>2, <3>3
  <2>13. k < i
    <3>1. i # k
      BY <2>9, <2>10
    <3> QED BY <2>6, <2>11, <2>12, <3>1
  <2>14. key[s[k]] < key[s[i]] /\ key[t[k]] < key[t[j]]
    BY <1>1, <2>3, <2>8, <2>9, <2>13 DEF Rising
  <2>15. key[s[k]] \in Nat /\ key[s[i]] \in Nat
    BY <1>1, <2>3
  <2> DEFINE x == key[s[k]]
             y == key[s[i]]
  <2>16. x < y /\ y < x /\ x \in Nat /\ y \in Nat
    BY <2>5, <2>10, <2>14, <2>15
  <2> HIDE DEF x, y
  <2> QED BY <2>16
<1>3. \A i \in 1..Len(s) : i <= Len(t) /\ s[i] = t[i]
  BY <1>1, <1>2
<1>4. Len(s) <= Len(t)
  <2>1. CASE Len(s) = 0
    BY <1>1, <2>1
  <2>2. CASE Len(s) # 0
    <3>1. Len(s) \in 1..Len(s)
      BY <1>1, <2>2
    <3> QED BY <1>3, <3>1
  <2> QED BY <2>1, <2>2
<1> QED BY <1>1, <1>3, <1>4

\* There is one sequence in strict order with the same elements.
LEMMA OneOrder ==
    ASSUME NEW E, NEW key \in [E -> Nat], NEW s \in Seq(E), NEW t \in Seq(E),
           Rising(s, key), Rising(t, key), Within(s, t), Within(t, s)
    PROVE  s = t
<1>1. Len(s) <= Len(t) /\ \A i \in DOMAIN s : s[i] = t[i]
  BY SameBeginning
<1>2. Len(t) <= Len(s)
  BY SameBeginning
<1>3. Len(s) \in Nat /\ Len(t) \in Nat /\ DOMAIN s = 1..Len(s)
  BY LenProperties
<1>4. Len(s) = Len(t)
  BY <1>1, <1>2, <1>3
<1> QED BY <1>1, <1>3, <1>4, SeqEqual

\* A list in a window, put in the order of its ids, is turned back by
\* MQTTPersistence_wrapMsgID.
LEMMA WindowComesBack ==
    ASSUME NEW s \in Seq(Entries), NEW t \in Seq(Entries),
           \A i \in DOMAIN s : s[i].id \in 1..MaxId, InWindow(s),
           Rising(t, Number), Within(s, t), Within(t, s)
    PROVE  WrapMsgID(t) = s
<1> DEFINE n == Len(s)
           way(i) == IF s[i].id >= s[1].id THEN s[i].id - s[1].id
                     ELSE MaxId - s[1].id + s[i].id
<1>1. DOMAIN s = 1..n /\ n \in Nat /\ MaxId \in Nat
  <2>1. DOMAIN s = 1..n /\ n \in Nat
    BY LenProperties
  <2> QED BY <2>1, IdAssumption
<1>2. \A i \in 1..n : s[i] \in Entries /\ s[i].id \in 1..MaxId /\ s[i].id \in Int
  BY <1>1, ElementOfSeq
<1>3. Number \in [Entries -> Nat] /\ \A e \in Entries : Number[e] = e.id
  BY DEF Entries, Number
<1>4. /\ \A i, j \in 1..n : i < j => way(i) < way(j)
      /\ \A i \in 1..n : 2 * way(i) < MaxId
  BY <1>1 DEF InWindow
<1>5. \A u \in Seq(Entries) :
        Rising(u, Number) /\ Within(s, u) /\ Within(u, s) => t = u
  <2> TAKE u \in Seq(Entries)
  <2> HAVE Rising(u, Number) /\ Within(s, u) /\ Within(u, s)
  <2>1. Within(t, u) /\ Within(u, t)
    BY DEF Within
  <2> QED BY <1>3, <2>1, OneOrder
<1> DEFINE low == {i \in 1..n : s[i].id < s[1].id}
<1> HIDE DEF n
\* No id lies before the first: the list is in order, and has no gap to turn at.
<1>6. CASE low = {}
  <2>1. \A i \in 1..n : way(i) = s[i].id - s[1].id /\ s[i].id >= s[1].id
    <3> TAKE i \in 1..n
    <3>1. 1 \in 1..n /\ s[i].id \in Int /\ s[1].id \in Int
      BY <1>1, <1>2
    <3>2. ~(s[i].id < s[1].id)
      BY <1>6
    <3>3. s[i].id >= s[1].id
      BY <3>1, <3>2
    <3> QED BY <3>3
  <2> HIDE DEF way, low
  <2>2. \A i, j \in 1..n : i < j => s[i].id < s[j].id
    <3> SUFFICES ASSUME NEW i \in 1..n, NEW j \in 1..n, i < j PROVE s[i].id < s[j].id
      OBVIOUS
    <3>1. 1 \in 1..n /\ s[i].id \in Int /\ s[1].id \in Int /\ s[j].id \in Int
      BY <1>1, <1>2
    <3>2. s[i].id - s[1].id < s[j].id - s[1].id
      BY <1>4, <2>1
    <3> QED BY <3>1, <3>2
  <2>3. t = s
    <3>1. \A i \in 1..n : Number[s[i]] = s[i].id
      BY <1>2, <1>3
    <3>2. \A i, j \in DOMAIN s : i < j => Number[s[i]] < Number[s[j]]
      BY <1>1, <2>2, <3>1
    <3>3. Rising(s, Number)
      BY <3>2 DEF Rising
    <3>4. Within(s, s)
      BY DEF Within
    <3> QED BY <1>5, <3>3, <3>4
  <2> DEFINE gap(i) == s[i].id - s[i - 1].id
             wide == {i \in 2..n : /\ gap(i) > (MaxId - s[n].id) + s[1].id
                                   /\ \A j \in 2..n : gap(j) <= gap(i)}
  <2>4. \A i \in 2..n : ~(gap(i) > (MaxId - s[n].id) + s[1].id)
    <3> TAKE i \in 2..n
    <3>1. i \in 1..n /\ i - 1 \in 1..n /\ n \in 1..n /\ 1 \in 1..n
      BY <1>1
    <3> DEFINE a == s[i].id
               b == s[i - 1].id
               c == s[1].id
               l == s[n].id
    <3>2. a \in Int /\ b \in Int /\ c \in Int /\ l \in Int
      BY <1>2, <3>1
    <3>3. a <= l /\ b >= c
      <4>1. i = n \/ i < n
        BY <1>1, <3>1
      <4> QED BY <2>1, <2>2, <3>1, <3>2, <4>1
    <3>4. 2 * (l - c) < MaxId
      BY <1>4, <2>1, <3>1
    <3> HIDE DEF a, b, c, l
    <3>5. ~(a - b > (MaxId - l) + c)
      BY <1>1, <3>2, <3>3, <3>4
    <3> QED BY <3>5 DEF a, b, c, l
  <2>5. wide = {}
    <3> HIDE DEF gap
    <3> QED BY <2>4
  <2>6. WrapMsgID(s) = s
    BY <2>5 DEF WrapMsgID, n
  <2> QED BY <2>3, <2>6
\* Else it turns where the ids began again at 1.
<1>7. CASE low # {}
  <2> DEFINE k == Min(low)
  <2>1. k \in low /\ \A y \in low : k <= y
    <3>1. low \subseteq Nat
      BY <1>1
    <3> HIDE DEF low
    <3> QED BY <1>7, <3>1, SmallestOf
  <2>2. k \in 1..n /\ s[k].id < s[1].id
    BY <2>1
  <2>3. \A i \in 1..n : i < k => s[i].id >= s[1].id
    <3> TAKE i \in 1..n
    <3> HAVE i < k
    <3>1. i \notin low
      BY <1>1, <2>1, <2>2
    <3>2. 1 \in 1..n /\ s[i].id \in Int /\ s[1].id \in Int
      BY <1>1, <1>2
    <3> QED BY <3>1, <3>2
  <2> HIDE DEF k, low
  <2>4. k \in 2..n /\ 1 \in 1..n /\ n \in 1..n
    <3>1. k # 1
      <4>1. 1 \in 1..n /\ s[1].id \in Int
        BY <1>1, <1>2, <2>2
      <4> QED BY <2>2, <4>1
    <3> QED BY <1>1, <2>2, <3>1
  <2>5. \A i \in 1..n : ~(i < k) => s[i].id < s[1].id
    <3> SUFFICES ASSUME NEW i \in 1..n, k < i, s[i].id >= s[1].id PROVE FALSE
      BY <1>1, <1>2, <2>2, <2>4
    <3>1. s[i].id \in 1..MaxId /\ s[k].id \in 1..MaxId /\ s[1].id \in 1..MaxId
      BY <1>2, <2>2, <2>4
    <3>2. way(k) < way(i)
      BY <1>4, <2>2
    <3>3. way(k) = MaxId - s[1].id + s[k].id
      BY <2>2, <3>1
    <3>4. way(i) = s[i].id - s[1].id
      OBVIOUS
    <3> HIDE DEF way
    <3> QED BY <1>1, <3>1, <3>2, <3>3, <3>4
  <2>6. \A i \in 1..n : way(i) = IF i < k THEN s[i].id - s[1].id ELSE MaxId - s[1].id + s[i].id
    <3> TAKE i \in 1..n
    <3>1. s[i].id \in Int /\ s[1].id \in Int
      BY <1>2, <2>4
    <3>2. CASE i < k
      BY <2>3, <3>2
    <3>3. CASE ~(i < k)
      <4>1. ~(s[i].id >= s[1].id)
        BY <2>5, <3>1, <3>3
      <4> QED BY <3>3, <4>1
    <3> QED BY <3>2, <3>3
  <2> HIDE DEF way
  <2> DEFINE a == SubSeq(s, k, n)
             b == SubSeq(s, 1, k - 1)
             u == a \o b
             m == n - k + 1
  <2>7. m \in 1..n /\ m + 1 \in 2..n /\ m = n - (k - 1)
    BY <1>1, <2>4
  <2>8. a \in Seq(Entries) /\ Len(a) = m /\ \A i \in 1..m : a[i] = s[i + (k - 1)]
    <3>1. \A i \in k..n : s[i] \in Entries
      BY <1>1, <1>2, <2>4
    <3>2. k \in Int /\ n \in Int /\ k <= n
      BY <1>1, <2>4
    <3>3. a \in Seq(Entries) /\ Len(a) = m /\ \A i \in 1..m : a[i] = s[k + i - 1]
      BY <3>1, <3>2, SubSeqProperties
    <3>4. \A i \in 1..m : k + i - 1 = i + (k - 1)
      BY <2>7, <3>2
    <3> HIDE DEF a, m
    <3> QED BY <3>3, <3>4
  <2>9. b \in Seq(Entries) /\ Len(b) = k - 1 /\ \A i \in 1..(k - 1) : b[i] = s[i]
    <3>1. k - 1 \in Nat /\ k - 1 <= n
      BY <1>1, <2>4
    <3>2. b \in Seq(Entries) /\ Len(b) = k - 1 /\ \A i \in DOMAIN b : b[i] = s[i]
      BY <3>1, SliceFacts DEF n
    <3> QED BY <3>2, LenProperties
  <2> HIDE DEF a, b
  <2>10. /\ u \in Seq(Entries) /\ Len(u) = n /\ DOMAIN u = 1..n
         /\ \A i \in 1..n : u[i] = IF i <= m THEN s[i + (k - 1)] ELSE s[i - m]
    <3> DEFINE r == k - 1
    <3> HIDE DEF r, m, u
    <3>0. Len(a) = m /\ Len(b) = r
      BY <2>8, <2>9 DEF r
    <3>a. /\ u \in Seq(Entries) /\ DOMAIN u = 1..(Len(a) + Len(b))
          /\ \A i \in 1..(Len(a) + Len(b)) : u[i] = IF i <= Len(a) THEN a[i] ELSE b[i - Len(a)]
      BY <2>8, <2>9, CatFacts DEF u
    <3>1. /\ u \in Seq(Entries) /\ DOMAIN u = 1..(m + r)
          /\ \A i \in 1..(m + r) : u[i] = IF i <= m THEN a[i] ELSE b[i - m]
      BY <3>0, <3>a
    <3> USE DEF r, m
    <3>2. m + (k - 1) = n
      BY <1>1, <2>4
    <3>3. Len(u) = n
      <4> HIDE DEF u, m
      <4>1. DOMAIN u = 1..Len(u) /\ Len(u) \in Nat
        BY <3>1, LenProperties
      <4> QED BY <1>1, <3>1, <3>2, <4>1
    <3>4. \A i \in 1..n : (i <= m => i \in 1..m) /\ (~(i <= m) => i - m \in 1..(k - 1))
      BY <1>1, <2>4
    <3> HIDE DEF u, m
    <3> QED BY <2>8, <2>9, <3>1, <3>2, <3>3, <3>4
  <2> HIDE DEF u
  <2> DEFINE g(i) == IF i <= m THEN i + (k - 1) ELSE i - m
  <2>11. /\ \A i \in 1..n : g(i) \in 1..n /\ u[i] = s[g(i)] /\ (g(i) < k <=> i > m)
         /\ \A i \in 1..n : \E j \in 1..n : g(j) = i
    <3>1. \A i \in 1..n : g(i) \in 1..n /\ (g(i) < k <=> i > m)
      BY <1>1, <2>4
    <3>2. \A i \in 1..n : u[i] = s[g(i)]
      BY <2>10
    <3>3. \A i \in 1..n : \E j \in 1..n : g(j) = i
      <4> TAKE i \in 1..n
      <4>1. CASE i < k
        <5>1. i + m \in 1..n /\ g(i + m) = i
          BY <1>1, <2>4, <4>1
        <5> QED BY <5>1
      <4>2. CASE ~(i < k)
        <5>1. i - (k - 1) \in 1..n /\ g(i - (k - 1)) = i
          BY <1>1, <2>4, <4>2
        <5> QED BY <5>1
      <4> QED BY <4>1, <4>2
    <3> HIDE DEF g
    <3> QED BY <3>1, <3>2, <3>3
  <2>12. \A i, j \in 1..n : i < j => u[i].id < u[j].id
    <3> SUFFICES ASSUME NEW i \in 1..n, NEW j \in 1..n, i < j PROVE u[i].id < u[j].id
      OBVIOUS
    <3>1. g(i) \in 1..n /\ g(j) \in 1..n /\ u[i] = s[g(i)] /\ u[j] = s[g(j)]
      BY <2>11
    <3>2. \/ g(i) < g(j) /\ g(j) < k
          \/ g(i) < g(j) /\ ~(g(i) < k)
          \/ ~(g(i) < k) /\ g(j) < k
      BY <1>1, <2>4, <2>7
    <3> DEFINE x == g(i)
               y == g(j)
    <3> HIDE DEF g, x, y
    <3>3. x \in 1..n /\ y \in 1..n /\ u[i] = s[x] /\ u[j] = s[y]
      BY <3>1 DEF x, y
    <3>4. \/ x < y /\ y < k
          \/ x < y /\ ~(x < k)
          \/ ~(x < k) /\ y < k
      BY <3>2 DEF x, y
    <3>5. s[x].id \in Int /\ s[y].id \in Int /\ s[1].id \in Int
      BY <1>2, <2>4, <3>3
    <3>6. CASE x < y /\ y < k
      <4>1. s[x].id - s[1].id < s[y].id - s[1].id
        BY <1>1, <1>4, <2>4, <2>6, <3>3, <3>6
      <4> QED BY <3>3, <3>5, <4>1
    <3>7. CASE x < y /\ ~(x < k)
      <4>1. MaxId - s[1].id + s[x].id < MaxId - s[1].id + s[y].id
        BY <1>1, <1>4, <2>4, <2>6, <3>3, <3>7
      <4> QED BY <1>1, <3>3, <3>5, <4>1
    <3>8. CASE ~(x < k) /\ y < k
      <4>1. s[x].id < s[1].id /\ s[y].id >= s[1].id
        BY <2>3, <2>5, <3>3, <3>8
      <4> QED BY <3>3, <3>5, <4>1
    <3> QED BY <3>4, <3>6, <3>7, <3>8
  <2>13. t = u
    <3> HIDE DEF g
    <3>1. Within(s, u) /\ Within(u, s)
      BY <1>1, <2>10, <2>11 DEF Within
    <3>2. \A i \in 1..n : u[i] \in Entries
      BY <2>10, ElementOfSeq
    <3>3. DOMAIN u = 1..n /\ u \in Seq(Entries)
      BY <2>10
    <3>4. \A i \in 1..n : Number[u[i]] = u[i].id
      BY <1>3, <3>2
    <3> HIDE DEF m
    <3>5. \A i, j \in DOMAIN u : i < j => Number[u[i]] < Number[u[j]]
      BY <2>12, <3>3, <3>4
    <3>6. Rising(u, Number)
      BY <3>5 DEF Rising
    <3> QED BY <1>5, <3>1, <3>3, <3>6
  <2> DEFINE gap(i) == u[i].id - u[i - 1].id
             wide == {i \in 2..n : /\ gap(i) > (MaxId - u[n].id) + u[1].id
                                   /\ \A j \in 2..n : gap(j) <= gap(i)}
             f == m + 1
  <2>14. \A i \in 1..n : way(i) \in Int /\ 0 <= way(i) /\ 2 * way(i) < MaxId /\ MaxId \in Int
    <3> TAKE i \in 1..n
    <3>1. /\ s[i].id \in 1..MaxId /\ s[1].id \in 1..MaxId
          /\ i < k => s[i].id >= s[1].id
      BY <1>2, <2>3, <2>4
    <3>2. way(i) \in Int /\ 0 <= way(i)
      BY <1>1, <2>6, <3>1
    <3> QED BY <1>1, <1>4, <3>2
  <2>15. u[n] = s[k - 1] /\ u[1] = s[k] /\ u[f] = s[1] /\ u[m] = s[n]
    <3>1. g(n) = k - 1 /\ g(1) = k /\ g(f) = 1 /\ g(m) = n
      BY <1>1, <2>4
    <3>2. n \in 1..n /\ 1 \in 1..n /\ f \in 1..n /\ m \in 1..n
      BY <1>1, <2>4, <2>7
    <3> DEFINE r == k - 1
    <3>3. g(n) = r /\ g(1) = k /\ g(f) = 1 /\ g(m) = n
      BY <3>1
    <3> HIDE DEF g, f, m, r
    <3>4. u[n] = s[r] /\ u[1] = s[k] /\ u[f] = s[1] /\ u[m] = s[n]
      BY <2>11, <3>2, <3>3
    <3> QED BY <3>4 DEF r
  <2>16. gap(f) > (MaxId - u[n].id) + u[1].id /\ 2 * gap(f) > MaxId /\ gap(f) \in Int
    <3> DEFINE r == k - 1
               A == s[1].id
               Z == s[n].id
               K == s[k].id
               J == s[r].id
    <3>1. f - 1 = m /\ r \in 1..n /\ r < k /\ ~(n < k) /\ ~(k < k) /\ k \in 1..n
      BY <1>1, <2>4
    <3> HIDE DEF r, gap, f, m
    <3>2. A \in Int /\ Z \in Int /\ K \in Int /\ J \in Int
      BY <1>2, <2>4, <3>1
    <3>3. way(n) = MaxId - A + Z /\ way(k) = MaxId - A + K /\ way(r) = J - A
      BY <2>4, <2>6, <3>1
    <3>4. 2 * way(n) < MaxId /\ 2 * way(k) < MaxId /\ 0 <= way(r)
      BY <2>4, <2>14, <3>1
    <3>5. gap(f) = A - Z /\ u[n].id = J /\ u[1].id = K
      BY <2>15, <3>1 DEF gap, r
    <3> HIDE DEF A, Z, K, J
    <3> QED BY <1>1, <3>2, <3>3, <3>4, <3>5
  <2>17. ASSUME NEW i \in 2..n, i # f
         PROVE  2 * gap(i) < MaxId /\ gap(i) \in Int
    <3> DEFINE x == g(i)
               y == g(i - 1)
    <3>1. i \in 1..n /\ i - 1 \in 1..n
      BY <1>1
    <3>2. y = x - 1 /\ (x < k <=> y < k)
      BY <1>1, <2>4, <2>7, <2>17
    <3>3. x \in 1..n /\ y \in 1..n /\ u[i] = s[x] /\ u[i - 1] = s[y]
      BY <2>11, <3>1
    <3> HIDE DEF x, y, g, f, m
    <3> DEFINE A == s[1].id
               X == s[x].id
               Y == s[y].id
    <3>4. A \in Int /\ X \in Int /\ Y \in Int
      BY <1>2, <2>4, <3>3
    <3>5. gap(i) = X - Y
      BY <3>3
    <3>6. 0 <= way(y) /\ 2 * way(x) < MaxId
      BY <2>14, <3>3
    <3>7. \/ way(x) = X - A /\ way(y) = Y - A
          \/ way(x) = MaxId - A + X /\ way(y) = MaxId - A + Y
      BY <2>6, <3>2, <3>3
    <3> HIDE DEF A, X, Y, gap
    <3> QED BY <1>1, <3>4, <3>5, <3>6, <3>7
  <2>18. wide = {f}
    <3>1. f \in 2..n
      BY <2>7
    <3> HIDE DEF gap, f
    <3>2. \A j \in 2..n : gap(j) <= gap(f)
      <4> TAKE j \in 2..n
      <4>1. CASE j = f
        BY <2>16, <4>1
      <4>2. CASE j # f
        <5>1. 2 * gap(j) < MaxId /\ gap(j) \in Int
          BY <2>17, <4>2
        <5> QED BY <1>1, <2>16, <5>1
      <4> QED BY <4>1, <4>2
    <3>3. \A i \in 2..n : i # f => ~(gap(f) <= gap(i))
      <4> SUFFICES ASSUME NEW i \in 2..n, i # f PROVE ~(gap(f) <= gap(i))
        OBVIOUS
      <4>1. 2 * gap(i) < MaxId /\ gap(i) \in Int
        BY <2>17
      <4> QED BY <1>1, <2>16, <4>1
    <3>4. f \in wide
      BY <2>16, <3>1, <3>2
    <3>5. \A i \in wide : i = f
      BY <3>1, <3>3
    <3> HIDE DEF wide
    <3> QED BY <3>4, <3>5
  <2>19. Min(wide) = f
    <3>1. f \in Nat
      BY <2>7
    <3> HIDE DEF f, wide
    <3>2. wide \subseteq Nat /\ wide # {}
      BY <2>18, <3>1
    <3> QED BY <2>18, <3>2, SmallestOf
  <2> DEFINE c == SubSeq(u, f, n)
             d == SubSeq(u, 1, f - 1)
  <2>20. WrapMsgID(u) = c \o d
    <3>1. wide # {}
      BY <2>18
    <3>2. WrapMsgID(u) = SubSeq(u, Min(wide), n) \o SubSeq(u, 1, Min(wide) - 1)
      BY <2>10, <3>1 DEF WrapMsgID
    <3> HIDE DEF wide
    <3> QED BY <2>19, <3>2
  <2>21. c \in Seq(Entries) /\ Len(c) = k - 1 /\ \A i \in 1..(k - 1) : c[i] = s[i]
    <3>1. f \in Int /\ n \in Int /\ f <= n /\ n - f + 1 = k - 1
      BY <1>1, <2>4
    <3>2. \A i \in f..n : u[i] \in Entries
      <4>1. \A i \in f..n : i \in 1..n
        BY <1>1, <2>7
      <4> HIDE DEF f
      <4> QED BY <2>10, <4>1, ElementOfSeq
    <3>3. \A i \in 1..(k - 1) : f + i - 1 \in 1..n /\ g(f + i - 1) = i
      BY <1>1, <2>4
    <3> HIDE DEF f, g
    <3>4. c \in Seq(Entries) /\ Len(c) = n - f + 1 /\ \A i \in 1..(n - f + 1) : c[i] = u[f + i - 1]
      BY <3>1, <3>2, SubSeqProperties
    <3> HIDE DEF c
    <3>5. \A i \in 1..(k - 1) : c[i] = u[f + i - 1] /\ u[f + i - 1] = s[i]
      BY <2>11, <3>1, <3>3, <3>4
    <3> QED BY <3>1, <3>4, <3>5
  <2>22. d \in Seq(Entries) /\ Len(d) = m /\ \A i \in 1..m : d[i] = u[i]
    <3>1. f - 1 = m /\ m \in Nat /\ m <= n
      BY <1>1, <2>7
    <3> HIDE DEF f, m
    <3>2. d \in Seq(Entries) /\ Len(d) = m /\ \A i \in DOMAIN d : d[i] = u[i]
      BY <2>10, <3>1, SliceFacts
    <3> QED BY <3>2, LenProperties
  <2> HIDE DEF c, d
  <2> DEFINE v == c \o d
             r == k - 1
  <2>23. Len(v) = n /\ v \in Seq(Entries) /\ \A i \in 1..n : v[i] = IF i <= r THEN c[i] ELSE d[i - r]
    <3> HIDE DEF v, m, r
    <3>1. Len(c) = r /\ Len(d) = m
      BY <2>21, <2>22 DEF r
    <3>a. c \in Seq(Entries) /\ d \in Seq(Entries)
      BY <2>21, <2>22
    <3>2. /\ v \in Seq(Entries) /\ DOMAIN v = 1..(Len(c) + Len(d))
          /\ \A i \in 1..(Len(c) + Len(d)) : v[i] = IF i <= Len(c) THEN c[i] ELSE d[i - Len(c)]
      BY <3>a, CatFacts DEF v
    <3>3. r + m = n
      BY <1>1, <2>4 DEF r, m
    <3>4. DOMAIN v = 1..Len(v) /\ Len(v) \in Nat
      BY <3>2, LenProperties
    <3>5. DOMAIN v = 1..n
      BY <3>1, <3>2, <3>3
    <3>6. Len(v) = n
      <4>1. 1..Len(v) = 1..n
        BY <3>4, <3>5
      <4> DEFINE l == Len(v)
      <4>2. l \in Nat /\ 1..l = 1..n
        BY <3>4, <4>1
      <4> HIDE DEF l
      <4>3. l = n
        BY <1>1, <4>2
      <4> QED BY <4>3 DEF l
    <3> QED BY <3>1, <3>2, <3>3, <3>6
  <2>24. \A i \in 1..n : v[i] = s[i]
    <3> TAKE i \in 1..n
    <3>1. CASE i <= r
      <4>1. i \in 1..(k - 1)
        BY <1>1, <2>4, <3>1
      <4> QED BY <2>21, <2>23, <3>1, <4>1
    <3>2. CASE ~(i <= r)
      <4>1. i - r \in 1..m /\ i - r \in 1..n /\ g(i - r) = i
        BY <1>1, <2>4, <3>2
      <4> HIDE DEF g, m, v
      <4>2. v[i] = d[i - r] /\ d[i - r] = u[i - r] /\ u[i - r] = s[g(i - r)]
        BY <2>11, <2>22, <2>23, <3>2, <4>1
      <4> QED BY <4>1, <4>2
    <3> QED BY <3>1, <3>2
  <2>25. v = s
    <3> HIDE DEF v
    <3> QED BY <2>23, <2>24, SeqEqual DEF n
  <2> QED BY <2>13, <2>20, <2>25
<1> QED BY <1>6, <1>7
=============================================================================
