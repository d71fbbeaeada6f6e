--------------------------- MODULE DeliveryProofs ---------------------------
(***************************************************************************)
(* The proxy implements Delivery, for every number of users, requests,     *)
(* workers and failures: each of its steps is a step of Delivery, or       *)
(* leaves what Delivery speaks of unchanged.                               *)
(***************************************************************************)
EXTENDS ProxyProofs, ProxyDelivery

\* What a worker has in flight, given what each request asks for.
Sent(asks, f) == [k \in DOMAIN f |-> asks[f[k]]]

\* What the requests ask for, as a function of them.
Asks == [r \in Reqs |-> Asked(r)]

\* The values of asks on Z.
Image(asks, Z) == {asks[x] : x \in Z}

-----------------------------------------------------------------------------
(* Sequences under a function.                                              *)

LEMMA SentType ==
    ASSUME NEW Z, NEW asks, NEW f \in Seq(Z)
    PROVE  /\ DOMAIN Sent(asks, f) = 1 .. Len(f)
           /\ Sent(asks, f) \in Seq(Image(asks, Z))
           /\ Len(Sent(asks, f)) = Len(f)
<1>1. DOMAIN f = 1 .. Len(f) /\ Len(f) \in Nat
  BY LenProperties
<1>2. \A k \in 1 .. Len(f) : f[k] \in Z
  BY <1>1, ElementOfSeq
<1>3. Sent(asks, f) \in [1 .. Len(f) -> Image(asks, Z)]
  BY <1>1, <1>2 DEF Sent, Image
<1>4. Sent(asks, f) \in Seq(Image(asks, Z))
  BY <1>1, <1>3, SeqDef
<1> QED
  BY <1>1, <1>3, <1>4, LenProperties DEF Sent

\* A request put behind f is sent behind it.
LEMMA SentAppend ==
    ASSUME NEW Z, NEW asks, NEW f \in Seq(Z), NEW r \in Z
    PROVE  Sent(asks, Append(f, r)) = Append(Sent(asks, f), asks[r])
<1> DEFINE T == Image(asks, Z)
           a == Sent(asks, Append(f, r))
           b == Append(Sent(asks, f), asks[r])
<1>1. Append(f, r) \in Seq(Z) /\ Len(Append(f, r)) = Len(f) + 1 /\ Len(f) \in Nat
      /\ DOMAIN f = 1 .. Len(f)
  BY AppendProperties, LenProperties
<1>2. Sent(asks, f) \in Seq(T) /\ Len(Sent(asks, f)) = Len(f)
      /\ DOMAIN Sent(asks, f) = 1 .. Len(f)
  BY SentType
<1>3. a \in Seq(T) /\ Len(a) = Len(f) + 1
  <2> HIDE DEF T
  <2>1. PICK g \in Seq(Z) : g = Append(f, r)
    BY <1>1
  <2>2. Sent(asks, g) \in Seq(T) /\ Len(Sent(asks, g)) = Len(g)
    BY SentType DEF T
  <2> QED
    BY <1>1, <2>1, <2>2
<1>4. b \in Seq(T) /\ Len(b) = Len(f) + 1
  <2>1. asks[r] \in T
    BY DEF Image
  <2> HIDE DEF T
  <2> QED
    BY <1>1, <1>2, <2>1, AppendProperties
<1>5. ASSUME NEW k \in 1 .. Len(f) + 1
      PROVE  a[k] = b[k]
  <2>0. asks[r] \in T
    BY DEF Image
  <2> HIDE DEF T
  <2>1. a[k] = asks[Append(f, r)[k]]
    BY <1>1, LenProperties DEF Sent
  <2>2. CASE k = Len(f) + 1
    <3>1. Append(f, r)[k] = r
      BY <2>2, AppendProperties
    <3>2. b[k] = asks[r]
      BY <1>2, <2>0, <2>2, AppendProperties
    <3> QED
      BY <2>1, <3>1, <3>2
  <2>3. CASE k \in 1 .. Len(f)
    <3>1. Append(f, r)[k] = f[k]
      BY <2>3, AppendProperties
    <3>2. b[k] = Sent(asks, f)[k]
      BY <1>1, <1>2, <2>0, <2>3, AppendProperties
    <3> QED
      BY <1>1, <2>1, <2>3, <3>1, <3>2 DEF Sent
  <2>4. k = Len(f) + 1 \/ k \in 1 .. Len(f)
    BY <1>1
  <2> QED
    BY <2>2, <2>3, <2>4
<1> HIDE DEF a, b, T
<1>6. a = b
  BY <1>1, <1>3, <1>4, <1>5, SeqEqual
<1> QED
  BY <1>6 DEF a, b

\* A sequence with one element more in front.
LEMMA FrontProperties ==
    ASSUME NEW Z, NEW f \in Seq(Z), NEW r \in Z
    PROVE  /\ <<r>> \o f \in Seq(Z) /\ <<r>> \o f # <<>>
           /\ Head(<<r>> \o f) = r
           /\ Tail(<<r>> \o f) = f
<1>1. <<r>> \in Seq(Z) /\ Len(<<r>>) = 1 /\ <<r>>[1] = r /\ Len(f) \in Nat
  BY LenProperties
<1>2. PICK g \in Seq(Z) : g = <<r>> \o f
  BY <1>1, ConcatProperties
<1>3. Len(g) = Len(f) + 1 /\ g # <<>>
      /\ \A k \in 1 .. Len(f) + 1 : g[k] = IF k <= 1 THEN r ELSE f[k - 1]
  BY <1>1, <1>2, ConcatProperties
<1>4. Head(g) = r
  BY <1>1, <1>3
<1>5. Tail(g) \in Seq(Z) /\ Len(Tail(g)) = Len(f)
      /\ \A k \in 1 .. Len(f) : Tail(g)[k] = f[k]
  <2>1. Tail(g) \in Seq(Z) /\ Len(Tail(g)) = Len(f)
        /\ \A k \in 1 .. Len(f) : Tail(g)[k] = g[k + 1]
    BY <1>1, <1>3, HeadTailProperties
  <2>2. \A k \in 1 .. Len(f) : g[k + 1] = f[k]
    BY <1>1, <1>3
  <2> QED
    BY <2>1, <2>2
<1>6. Tail(g) = f
  BY <1>5, SeqEqual
<1> QED
  BY <1>2, <1>3, <1>4, <1>6

\* Something put in front stays in front of what is put behind.
LEMMA FrontAppend ==
    ASSUME NEW Z, NEW f \in Seq(Z), NEW r \in Z, NEW c \in Z
    PROVE  <<c>> \o Append(f, r) = Append(<<c>> \o f, r)
<1>1. <<c>> \in Seq(Z) /\ <<r>> \in Seq(Z)
  OBVIOUS
<1>2. <<c>> \o f \in Seq(Z)
  BY <1>1, ConcatProperties
<1>3. Append(f, r) = f \o <<r>> /\ Append(<<c>> \o f, r) = (<<c>> \o f) \o <<r>>
  BY <1>2, AppendIsConcat
<1>4. (<<c>> \o f) \o <<r>> = <<c>> \o (f \o <<r>>)
  BY <1>1, ConcatAssociative
<1> QED
  BY <1>3, <1>4

\* The first of g is sent first, and the rest after it.
LEMMA SentFront ==
    ASSUME NEW Z, NEW asks, NEW g \in Seq(Z), g # <<>>
    PROVE  /\ Sent(asks, g) # <<>>
           /\ Head(Sent(asks, g)) = asks[Head(g)]
           /\ Tail(Sent(asks, g)) = Sent(asks, Tail(g))
<1> DEFINE T == Image(asks, Z)
           f == Tail(g)
           s == Sent(asks, g)
<1>1. f \in Seq(Z) /\ Len(g) = Len(f) + 1 /\ Len(f) \in Nat /\ DOMAIN f = 1 .. Len(f)
      /\ DOMAIN g = 1 .. Len(f) + 1
      /\ \A k \in 1 .. Len(f) : g[k + 1] = f[k]
  BY HeadTailProperties, LenProperties, EmptySeq
<1> HIDE DEF f
<1>4. s \in Seq(T) /\ Len(s) = Len(f) + 1 /\ DOMAIN s = 1 .. Len(f) + 1
  BY <1>1, SentType
<1>5. s # <<>>
  BY <1>1, <1>4
<1>6. Head(s) = asks[Head(g)]
  <2>1. Head(s) = s[1] /\ Head(g) = g[1]
    BY <1>1, <1>4
  <2> QED
    BY <1>1, <2>1 DEF Sent
<1>7. Tail(s) \in Seq(T) /\ Len(Tail(s)) = Len(f)
      /\ \A k \in 1 .. Len(f) : Tail(s)[k] = s[k + 1]
  BY <1>1, <1>4, <1>5, HeadTailProperties
<1>8. Sent(asks, f) \in Seq(T) /\ Len(Sent(asks, f)) = Len(f)
  BY <1>1, SentType
<1>9. \A k \in 1 .. Len(f) : Tail(s)[k] = Sent(asks, f)[k]
  BY <1>1, <1>7 DEF Sent
<1>10. Tail(s) = Sent(asks, f)
  BY <1>7, <1>8, <1>9, SeqEqual DEF s, T
<1> QED
  BY <1>5, <1>6, <1>10 DEF f

-----------------------------------------------------------------------------
(* The refinement mapping.                                                  *)

\* A request has no ticket while its handler runs.
TicketInv == \A r \in Reqs : reply[r] = Nil => ticket[r] = 0

LEMMA InFlightType ==
    ASSUME IndInv, NEW w \in Jobs
    PROVE  /\ InFlight(w) \in Seq(Reqs)
           /\ \A k \in DOMAIN InFlight(w) :
                 InFlight(w)[k] \in Reqs /\ Accepted(InFlight(w)[k])
<1>1. queue[w] \in Seq(Reqs) /\ DOMAIN queue[w] = 1 .. Len(queue[w]) /\ Len(queue[w]) \in Nat
  BY LenProperties DEF IndInv, TypeOK
<1>2. CASE worker[w].cur = Nil
  BY <1>1, <1>2, Whereabouts DEF InFlight
<1>3. CASE worker[w].cur # Nil
  <2> DEFINE r == worker[w].cur
             f == <<r>> \o queue[w]
  <2>1. r \in Reqs /\ Accepted(r)
    BY <1>3, Whereabouts
  <2>2. InFlight(w) = f
    BY <1>3 DEF InFlight
  <2>3. <<r>> \in Seq(Reqs) /\ Len(<<r>>) = 1 /\ <<r>>[1] = r
    BY <2>1
  <2>4. f \in Seq(Reqs) /\ Len(f) = Len(queue[w]) + 1
        /\ \A k \in 1 .. Len(queue[w]) + 1 :
              f[k] = IF k <= 1 THEN r ELSE queue[w][k - 1]
    <3> HIDE DEF r
    <3> QED
      BY <1>1, <2>3, ConcatProperties
  <2>5. DOMAIN f = 1 .. Len(queue[w]) + 1
    BY <2>4, LenProperties
  <2>6. ASSUME NEW k \in DOMAIN f
        PROVE  f[k] \in Reqs /\ Accepted(f[k])
    <3>1. CASE k = 1
      BY <1>1, <2>1, <2>4, <3>1
    <3>2. CASE k # 1
      <4>1. k - 1 \in DOMAIN queue[w] /\ f[k] = queue[w][k - 1]
        BY <1>1, <2>4, <2>5, <3>2
      <4> QED
        BY <4>1, Whereabouts
    <3> QED
      BY <3>1, <3>2
  <2> QED
    BY <2>2, <2>4, <2>6
<1> QED
  BY <1>2, <1>3

\* What worker w has in flight, as the image of its requests.
LEMMA FlightIs ==
    ASSUME IndInv, NEW w \in Jobs
    PROVE  flightBar[w] = Sent(Asks, InFlight(w))
<1>1. \A k \in DOMAIN InFlight(w) : Asks[InFlight(w)[k]] = Asked(InFlight(w)[k])
  BY InFlightType DEF Asks
<1>2. flightBar[w] = [k \in DOMAIN InFlight(w) |-> Asked(InFlight(w)[k])]
  BY DEF flightBar
<1> QED
  BY <1>1, <1>2 DEF Sent

\* A worker that keeps its requests keeps what it has in flight.
LEMMA FlightKept ==
    ASSUME IndInv, NEW w \in Jobs,
           UNCHANGED <<queue[w], worker[w].cur>>,
           \A r \in Reqs : Accepted(r) => req'[r] = req[r]
    PROVE  flightBar'[w] = flightBar[w]
<1>1. InFlight(w)' = InFlight(w)
  BY DEF InFlight
<1>2. \A k \in DOMAIN InFlight(w) : Asked(InFlight(w)[k])' = Asked(InFlight(w)[k])
  BY <1>1, InFlightType DEF Asked
<1>3. /\ flightBar[w] = [k \in DOMAIN InFlight(w) |-> Asked(InFlight(w)[k])]
      /\ flightBar'[w] = [k \in DOMAIN InFlight(w) |-> Asked(InFlight(w)[k])']
  BY <1>1 DEF flightBar
<1> QED
  BY <1>2, <1>3

\* A step that keeps all requests and the ledger is a stutter.
LEMMA Stutters ==
    ASSUME IndInv, UNCHANGED <<ledger, ticket, queue>>,
           \A v \in Jobs : worker'[v].cur = worker[v].cur,
           \A r \in Reqs : Accepted(r) => req'[r] = req[r]
    PROVE  UNCHANGED D!vars
<1>1. flightBar' = flightBar
  <2>1. \A v \in Jobs : flightBar'[v] = flightBar[v]
    BY FlightKept
  <2> QED
    BY <2>1 DEF flightBar
<1>2. acceptedBar' = acceptedBar
  BY DEF acceptedBar
<1>3. deliveredBar' = deliveredBar
  BY DEF deliveredBar
<1> QED
  BY <1>1, <1>2, <1>3 DEF D!vars

-----------------------------------------------------------------------------
(* The steps.                                                               *)

\* A worker that lets go of its message sends what follows on its channel.
LEMMA FlightTail ==
    ASSUME IndInv, NEW w \in Jobs, worker[w].cur # Nil, worker'[w].cur = Nil,
           UNCHANGED <<queue, req>>,
           \A v \in Jobs \ {w} : worker'[v] = worker[v]
    PROVE  /\ flightBar[w] # <<>>
           /\ Head(flightBar[w]) = Asked(worker[w].cur)
           /\ flightBar' = [flightBar EXCEPT ![w] = Tail(@)]
<1> DEFINE r == worker[w].cur
<1>1. r \in Reqs /\ queue[w] \in Seq(Reqs)
  BY Whereabouts DEF IndInv, TypeOK
<1>2. InFlight(w) = <<r>> \o queue[w]
  BY DEF InFlight
<1>3. /\ flightBar[w] # <<>> /\ Head(flightBar[w]) = Asks[r]
      /\ Tail(flightBar[w]) = Sent(Asks, queue[w])
  <2>1. flightBar[w] = Sent(Asks, InFlight(w))
    BY FlightIs
  <2>2. /\ InFlight(w) \in Seq(Reqs) /\ InFlight(w) # <<>>
        /\ Head(InFlight(w)) = r /\ Tail(InFlight(w)) = queue[w]
    <3> HIDE DEF r
    <3>1. <<r>> \o queue[w] \in Seq(Reqs) /\ <<r>> \o queue[w] # <<>>
          /\ Head(<<r>> \o queue[w]) = r /\ Tail(<<r>> \o queue[w]) = queue[w]
      BY <1>1, FrontProperties
    <3> QED
      BY <1>2, <3>1
  <2> HIDE DEF r
  <2>3. PICK g, a : g = InFlight(w) /\ a = Asks /\ g \in Seq(Reqs)
    BY <2>2
  <2>4. /\ Sent(a, g) # <<>> /\ Head(Sent(a, g)) = a[Head(g)]
        /\ Tail(Sent(a, g)) = Sent(a, Tail(g))
    BY <2>2, <2>3, SentFront
  <2> QED
    BY <2>1, <2>2, <2>3, <2>4
<1>4. flightBar'[w] = Sent(Asks, queue[w])
  <2>1. flightBar'[w] = [k \in DOMAIN queue[w] |-> Asked(queue[w][k])]
    BY DEF flightBar, InFlight, Asked
  <2>2. \A k \in DOMAIN queue[w] : Asks[queue[w][k]] = Asked(queue[w][k])
    BY Whereabouts DEF Asks
  <2> QED
    BY <2>1, <2>2 DEF Sent
<1>5. \A v \in Jobs \ {w} : flightBar'[v] = flightBar[v]
  BY FlightKept
<1>6. flightBar' = [flightBar EXCEPT ![w] = Tail(@)]
  BY <1>3, <1>4, <1>5 DEF flightBar
<1> QED
  BY <1>1, <1>3, <1>6 DEF Asks

\* A message that is abandoned, or refused by the chain, is lost.
LEMMA Loses ==
    ASSUME IndInv, NEW w \in Jobs, worker[w].cur # Nil, worker'[w].cur = Nil,
           UNCHANGED <<queue, req, ledger, ticket>>,
           \A v \in Jobs \ {w} : worker'[v] = worker[v]
    PROVE  D!Lose(w)
  BY FlightTail DEF D!Lose, acceptedBar, deliveredBar

\* Broadcasting its transaction delivers the message, or loses it.
LEMMA CallDelivers ==
    ASSUME IndInv, NEW w \in Jobs, Call(w)
    PROVE  D!Deliver(w) \/ D!Lose(w)
<1> DEFINE r == worker[w].cur
           u == Id(w)
<1>1. /\ r \in Reqs /\ r # Nil /\ u \in Ids /\ u = req[r].id
      /\ Entry(w) \in Entries /\ Entry(w).req = r /\ Entry(w).op = req[r].kind
  <2>1. /\ r \in Reqs /\ u \in Ids /\ u = req[r].id
    BY AtStep DEF Call, Msg, Id
  <2> QED
    BY <2>1, EntryType, NilType DEF Call, Entry, Msg
<1>2. /\ worker'[w].cur = Nil /\ UNCHANGED <<queue, req, ticket>>
      /\ \A v \in Jobs \ {w} : worker'[v] = worker[v]
  BY DEF Call, Abandon, Become, IdleWorker, unchangedByJob, IndInv, TypeOK
<1>3. CASE ledger' = ledger
  BY <1>1, <1>2, <1>3, Loses
<1>4. CASE ledger' = [ledger EXCEPT ![u] = Append(@, Entry(w))]
  <2> DEFINE e     == Entry(w)
             m     == Asked(r)
             asks  == [x \in Entries |-> [req |-> x.req, id |-> u, op |-> x.op]]
  <2>1. ledger[u] \in Seq(Entries) /\ ledger'[u] = Append(ledger[u], e)
    BY <1>1, <1>4 DEF IndInv, TypeOK
  <2>2. asks[e] = m /\ m.id = u
    BY <1>1 DEF Asked
  <2>3. /\ deliveredBar[u] = Sent(asks, ledger[u])
        /\ deliveredBar'[u] = Sent(asks, Append(ledger[u], e))
    <3>1. ASSUME NEW f \in Seq(Entries)
          PROVE  Sent(asks, f) = [k \in DOMAIN f |->
                                    [req |-> f[k].req, id |-> u, op |-> f[k].op]]
      <4>1. \A k \in DOMAIN f : f[k] \in Entries
        BY LenProperties, ElementOfSeq
      <4> QED
        BY <4>1 DEF Sent
    <3>2. Append(ledger[u], e) \in Seq(Entries)
      BY <1>1, <2>1, AppendProperties
    <3>3. /\ deliveredBar[u] = [k \in DOMAIN ledger[u] |->
                [req |-> ledger[u][k].req, id |-> u, op |-> ledger[u][k].op]]
          /\ deliveredBar'[u] = [k \in DOMAIN ledger'[u] |->
                [req |-> ledger'[u][k].req, id |-> u, op |-> ledger'[u][k].op]]
      BY <1>1 DEF deliveredBar
    <3> QED
      BY <2>1, <3>1, <3>2, <3>3
  <2>4. deliveredBar'[u] = Append(deliveredBar[u], m)
    <3>1. e \in Entries
      BY <1>1
    <3> HIDE DEF e, m, u, asks
    <3> QED
      BY <2>1, <2>2, <2>3, <3>1, SentAppend
  <2>5. \A i \in Ids \ {u} : deliveredBar'[i] = deliveredBar[i]
    <3>1. \A i \in Ids \ {u} : ledger'[i] = ledger[i]
      BY <1>1, <1>4 DEF IndInv, TypeOK
    <3> QED
      BY <3>1 DEF deliveredBar
  <2>6. deliveredBar' = [deliveredBar EXCEPT ![u] = Append(@, m)]
    BY <2>4, <2>5 DEF deliveredBar
  <2>7. /\ flightBar[w] # <<>> /\ Head(flightBar[w]) = m
        /\ flightBar' = [flightBar EXCEPT ![w] = Tail(@)]
    BY <1>1, <1>2, FlightTail
  <2> QED
    BY <1>2, <2>2, <2>6, <2>7 DEF D!Deliver, acceptedBar
<1> QED
  BY <1>3, <1>4 DEF Call

\* Taking a message from the channel keeps it first in flight.
LEMMA TakeStutters ==
    ASSUME IndInv, NEW w \in Jobs, Take(w)
    PROVE  UNCHANGED D!vars
<1> DEFINE r == Head(queue[w])
<1>1. /\ queue[w] \in Seq(Reqs) /\ queue[w] # <<>> /\ worker[w].cur = Nil
      /\ UNCHANGED <<ledger, ticket, req>>
      /\ \A v \in Jobs \ {w} : worker'[v] = worker[v] /\ queue'[v] = queue[v]
      /\ worker'[w].cur = r /\ queue'[w] = Tail(queue[w])
  BY DEF Take, Become, IdleWorker, unchangedByJob, chainVars, IndInv, TypeOK
<1>2. r \in Reqs /\ r # Nil /\ <<r>> \o Tail(queue[w]) = queue[w]
  <2>1. r \in Reqs /\ Tail(queue[w]) \in Seq(Reqs)
        /\ Len(queue[w]) \in Nat \ {0} /\ Len(Tail(queue[w])) = Len(queue[w]) - 1
        /\ \A k \in 1 .. Len(Tail(queue[w])) : Tail(queue[w])[k] = queue[w][k + 1]
        /\ r = queue[w][1]
    BY <1>1, HeadTailProperties, EmptySeq
  <2>2. <<r>> \in Seq(Reqs) /\ Len(<<r>>) = 1 /\ <<r>>[1] = r
    BY <2>1
  <2>3. /\ <<r>> \o Tail(queue[w]) \in Seq(Reqs)
        /\ Len(<<r>> \o Tail(queue[w])) = Len(queue[w])
        /\ \A k \in 1 .. Len(queue[w]) :
              (<<r>> \o Tail(queue[w]))[k] = IF k <= 1 THEN r ELSE Tail(queue[w])[k - 1]
    <3> HIDE DEF r
    <3> QED
      BY <2>1, <2>2, ConcatProperties
  <2>4. ASSUME NEW k \in 1 .. Len(queue[w])
        PROVE  (<<r>> \o Tail(queue[w]))[k] = queue[w][k]
    <3>1. k = 1 \/ (k - 1 \in 1 .. Len(Tail(queue[w])) /\ ~(k <= 1) /\ (k - 1) + 1 = k)
      BY <2>1
    <3> QED
      BY <2>1, <2>3, <3>1
  <2>5. <<r>> \o Tail(queue[w]) = queue[w]
    BY <1>1, <2>3, <2>4, SeqEqual
  <2> QED
    BY <2>1, <2>5, NilType
<1>3. InFlight(w)' = InFlight(w)
  BY <1>1, <1>2 DEF InFlight
<1>4. flightBar'[w] = flightBar[w]
  BY <1>1, <1>3 DEF flightBar, Asked
<1>5. \A v \in Jobs \ {w} : flightBar'[v] = flightBar[v]
  BY <1>1, FlightKept
<1>6. flightBar' = flightBar
  BY <1>4, <1>5 DEF flightBar
<1> QED
  BY <1>1, <1>6 DEF D!vars, acceptedBar, deliveredBar

\* Putting a message on the channel accepts the request, on its user's lane.
LEMMA PutAccepts ==
    ASSUME IndInv, TicketInv, NEW r \in Reqs, Put(r)
    PROVE  D!Accept(r)
<1> DEFINE u == req[r].id
           m == Asked(r)
<1>0. PICK w \in Jobs : w = JobOf(u)
  <2>1. req[r] \in Messages
    BY DEF Put, IndInv, TypeOK
  <2> QED
    BY <2>1, MessageFields, JobOfType
<1>1. /\ u \in Ids /\ req[r].kind \in AllKinds \cup FakeKinds
      /\ queue[w] \in Seq(Reqs) /\ r # Nil /\ clock \in Nat
  <2>1. req[r] \in Messages
    BY DEF Put, IndInv, TypeOK
  <2> QED
    BY <2>1, MessageFields, NilType DEF IndInv, TypeOK
<1>2. /\ UNCHANGED <<ledger, worker, req>>
      /\ ticket' = [ticket EXCEPT ![r] = clock + 1]
      /\ \A v \in Jobs \ {w} : queue'[v] = queue[v]
      /\ queue'[w] = Append(queue[w], r)
  BY <1>0 DEF Put, unchangedByServer, IndInv, TypeOK
<1>3. r \notin acceptedBar /\ acceptedBar' = acceptedBar \cup {r}
  <2>1. ticket[r] = 0 /\ ticket'[r] # 0
    BY <1>1, <1>2 DEF Put, TicketInv, IndInv, TypeOK
  <2>2. \A q \in Reqs \ {r} : ticket'[q] = ticket[q]
    BY <1>2 DEF IndInv, TypeOK
  <2> QED
    BY <2>1, <2>2 DEF acceptedBar
<1>4. InFlight(w)' = Append(InFlight(w), r)
  <2>1. CASE worker[w].cur = Nil
    BY <1>2, <2>1 DEF InFlight
  <2>2. CASE worker[w].cur # Nil
    <3> DEFINE c == worker[w].cur
    <3>1. c \in Reqs
      BY <2>2, Whereabouts
    <3> HIDE DEF c
    <3>2. <<c>> \o Append(queue[w], r) = Append(<<c>> \o queue[w], r)
      BY <1>1, <3>1, FrontAppend
    <3> QED
      BY <1>2, <2>2, <3>2 DEF InFlight, c
  <2> QED
    BY <2>1, <2>2
<1>5. flightBar'[w] = Append(flightBar[w], m)
  <2>1. flightBar'[w] = Sent(Asks, InFlight(w)')
    <3>1. InFlight(w)' \in Seq(Reqs)
      BY <1>1, <1>4, InFlightType, AppendProperties
    <3>2. \A k \in DOMAIN InFlight(w)' : InFlight(w)'[k] \in Reqs
      BY <3>1, LenProperties, ElementOfSeq
    <3>3. flightBar'[w] = [k \in DOMAIN InFlight(w)' |-> Asked(InFlight(w)'[k])]
      BY <1>2 DEF flightBar, Asked
    <3> QED
      BY <3>2, <3>3 DEF Sent, Asks
  <2>2. PICK f, a : f = InFlight(w) /\ a = Asks /\ f \in Seq(Reqs)
    BY InFlightType
  <2>3. Sent(a, Append(f, r)) = Append(Sent(a, f), a[r])
    BY <1>1, <2>2, SentAppend
  <2>4. a[r] = m
    BY <2>2 DEF Asks
  <2> QED
    BY <1>4, <2>1, <2>2, <2>3, <2>4, FlightIs
<1>6. \A v \in Jobs \ {w} : flightBar'[v] = flightBar[v]
  BY <1>2, FlightKept
<1>7. flightBar' = [flightBar EXCEPT ![[i \in Ids |-> i % JobCount][u]] = Append(@, m)]
  <2>1. [i \in Ids |-> i % JobCount][u] = w
    BY <1>0, <1>1 DEF JobOf
  <2>2. flightBar' = [flightBar EXCEPT ![w] = Append(@, m)]
    BY <1>5, <1>6 DEF flightBar
  <2> QED
    BY <2>1, <2>2
<1> QED
  BY <1>1, <1>2, <1>3, <1>7 DEF D!Accept, deliveredBar, Asked

\* A crash loses everything in flight.
LEMMA CrashRestarts ==
    ASSUME IndInv, Crash
    PROVE  D!Restart
<1>1. \A w \in Jobs : queue'[w] = <<>> /\ worker'[w].cur = Nil
  BY DEF Crash, IdleWorker
<1>2. flightBar' = [w \in Jobs |-> <<>>]
  BY <1>1 DEF flightBar, InFlight
<1> QED
  BY <1>2 DEF Crash, D!Restart, acceptedBar, deliveredBar, chainVars

-----------------------------------------------------------------------------
(* The theorem.                                                             *)

LEMMA TicketStep == IndInv /\ TicketInv /\ [Next]_vars => TicketInv'
<1> SUFFICES ASSUME IndInv, TicketInv, [Next]_vars PROVE TicketInv'
  OBVIOUS
<1>1. CASE \E r \in Reqs : Put(r)
  <2>1. PICK r \in Reqs : Put(r)
    BY <1>1
  <2>2. reply'[r] \in Replies
    BY <2>1 DEF Put, IndInv, TypeOK, Replies
  <2>3. \A q \in Reqs \ {r} : ticket'[q] = ticket[q] /\ reply'[q] = reply[q]
    BY <2>1 DEF Put, IndInv, TypeOK
  <2> QED
    BY <2>2, <2>3, NilType DEF TicketInv
<1>2. CASE ~\E r \in Reqs : Put(r)
  <2>1. UNCHANGED ticket
    BY <1>2 DEF Next, Handle, Arrive, CheckPasses, CheckRefuses, TurnsFake, CheckFails,
                Crash, vars, Take, Work, ReadName, ReadKey, ReadOwner, ReadUuid,
                WriteRedis, RedisFails, QueryChain, QueryFails, CreateOnChain, Fund,
                Call, BroadcastFails, unchangedByJob
  <2>2. \A r \in Reqs : reply[r] # Nil => reply'[r] # Nil
    <3>1. CASE UNCHANGED reply
      BY <3>1
    <3>2. CASE \E r \in Reqs : CheckRefuses(r) \/ CheckFails(r)
      BY <3>2 DEF CheckRefuses, CheckFails, Checking, IndInv, TypeOK
    <3>3. CASE Crash
      BY <3>3 DEF Crash, IndInv, TypeOK
    <3> QED
      BY <1>2, <3>1, <3>2, <3>3
         DEF Next, Handle, Arrive, CheckPasses, TurnsFake, vars, Take, Work,
             ReadName, ReadKey, ReadOwner, ReadUuid, WriteRedis, RedisFails,
             QueryChain, QueryFails, CreateOnChain, Fund, Call, BroadcastFails,
             unchangedByJob
  <2> QED
    BY <2>1, <2>2 DEF TicketInv
<1> QED
  BY <1>1, <1>2

\* Every other step of a worker keeps its message, or lets it go.
LEMMA WorkMaps ==
    ASSUME IndInv, NEW w \in Jobs, Work(w)
    PROVE  [D!Next]_D!vars
<1>1. CASE Call(w)
  BY <1>1, CallDelivers DEF D!Next
<1>2. CASE ~Call(w)
  <2>1. /\ UNCHANGED <<ledger, queue, req, ticket>>
        /\ \A v \in Jobs : worker'[v].cur \in {worker[v].cur, Nil}
    BY <1>2, LedgerKept, WorkOK, CurKept DEF unchangedByJob
  <2>2. \A v \in Jobs \ {w} : worker'[v] = worker[v]
    <3>1. \E st : worker' = [worker EXCEPT ![w] = st]
      BY <1>2 DEF Work, ReadName, ReadKey, ReadOwner, ReadUuid, WriteRedis, RedisFails,
                  QueryChain, QueryFails, CreateOnChain, Fund, BroadcastFails,
                  GoOn, Abandon, Become
    <3> QED
      BY <3>1 DEF IndInv, TypeOK
  <2>3. CASE worker'[w].cur = worker[w].cur
    BY <2>1, <2>2, <2>3, Stutters
  <2>4. CASE worker'[w].cur # worker[w].cur
    <3>1. D!Lose(w)
      BY <2>1, <2>2, <2>4, Loses
    <3> QED
      BY <3>1 DEF D!Next
  <2> QED
    BY <2>3, <2>4
<1> QED
  BY <1>1, <1>2

LEMMA InitMaps == Init => D!Init
<1> SUFFICES ASSUME Init PROVE D!Init
  OBVIOUS
<1>1. \A w \in Jobs : queue[w] = <<>> /\ worker[w].cur = Nil
  BY DEF Init, IdleWorker
<1>2. flightBar = [w \in Jobs |-> <<>>]
  BY <1>1 DEF flightBar, InFlight
<1>3. acceptedBar = {}
  BY DEF Init, acceptedBar
<1>4. deliveredBar = [i \in Ids |-> <<>>]
  BY DEF Init, deliveredBar
<1> QED
  BY <1>2, <1>3, <1>4 DEF D!Init

LEMMA StepMaps == IndInv /\ TicketInv /\ [Next]_vars => [D!Next]_D!vars
<1> SUFFICES ASSUME IndInv, TicketInv, [Next]_vars PROVE [D!Next]_D!vars
  OBVIOUS
<1>1. ASSUME NEW r \in Reqs, NEW b \in Requests(r), Arrive(r, b)
      PROVE  UNCHANGED D!vars
  <2>1. \A q \in Reqs : Accepted(q) => req'[q] = req[q]
    BY <1>1 DEF Arrive, Accepted, IndInv, TypeOK
  <2> QED
    BY <1>1, <2>1, Stutters DEF Arrive, unchangedByServer
<1>2. ASSUME NEW r \in Reqs, Handle(r)
      PROVE  [D!Next]_D!vars
  <2>1. CASE Put(r)
    BY <2>1, PutAccepts DEF D!Next
  <2>2. CASE ~Put(r)
    <3>1. CheckPasses(r) \/ CheckRefuses(r) \/ TurnsFake(r) \/ CheckFails(r)
      BY <1>2, <2>2 DEF Handle
    <3>2. \A q \in Reqs : Accepted(q) => req'[q] = req[q]
      BY <3>1 DEF CheckPasses, CheckRefuses, TurnsFake, CheckFails, Checking,
                  Accepted, IndInv, TypeOK
    <3>3. UNCHANGED <<ledger, worker, queue, ticket>>
      BY <3>1 DEF CheckPasses, CheckRefuses, TurnsFake, CheckFails, unchangedByServer
    <3> QED
      BY <3>2, <3>3, Stutters
  <2> QED
    BY <2>1, <2>2
<1>3. ASSUME NEW w \in Jobs, Take(w)
      PROVE  UNCHANGED D!vars
  BY <1>3, TakeStutters
<1>4. ASSUME NEW w \in Jobs, Work(w)
      PROVE  [D!Next]_D!vars
  BY <1>4, WorkMaps
<1>5. CASE Crash
  BY <1>5, CrashRestarts DEF D!Next
<1>6. CASE UNCHANGED vars
  BY <1>6, Stutters DEF vars
<1> QED
  BY <1>1, <1>2, <1>3, <1>4, <1>5, <1>6 DEF Next

\* The proxy implements Delivery with any number of users, workers and
\* requests, whatever overlaps, fails or crashes: what an accepted request asks
\* for reaches the chain at most once, as asked and in the order of acceptance.
THEOREM Implements == Spec => Delivers
<1>1. Init => TicketInv
  BY DEF Init, TicketInv
<1>2. Spec => D!Spec
  BY <1>1, InitOK, StepOK, TicketStep, InitMaps, StepMaps, PTL DEF Spec, D!Spec
<1> QED
  BY <1>2 DEF Delivers

=============================================================================
