--------------------------- MODULE IpcChannelProofs ---------------------------
(***************************************************************************)
(* Endpoints and channels keep every open side reachable and every message *)
(* with its peer, for every number of processes, of endpoints and of       *)
(* channels, and whatever the queues hold.                                 *)
(***************************************************************************)
EXTENDS IpcChannel, FiniteSetTheorems, WellFoundedInduction, TLAPS

\* The position of i among the positions kept.
Rank(kept, i) == Cardinality({j \in kept : j <= i})

\* The positions kept are numbered from 1 without a gap.
LEMMA RankNumbers ==
  ASSUME NEW n \in Nat, NEW kept \in SUBSET (1..n)
  PROVE  /\ IsFiniteSet(kept) /\ Cardinality(kept) \in Nat /\ Cardinality(kept) <= n
         /\ \A i \in kept : Rank(kept, i) \in 1..Cardinality(kept)
         /\ \A i, j \in kept : Rank(kept, i) = Rank(kept, j) => i = j
         /\ \A k \in 1..Cardinality(kept) : \E i \in kept : Rank(kept, i) = k
<1> DEFINE m == Cardinality(kept)
           Upto(i) == {j \in kept : j <= i}
           f == [i \in kept |-> Rank(kept, i)]
<1>1. IsFiniteSet(1..n) /\ Cardinality(1..n) = n
  BY FS_Interval
<1>2. IsFiniteSet(kept) /\ m \in Nat /\ m <= n
  BY <1>1, FS_Subset, FS_CardinalityType, Zenon
<1>3. ASSUME NEW i \in kept
      PROVE  IsFiniteSet(Upto(i)) /\ Cardinality(Upto(i)) \in Nat /\ Cardinality(Upto(i)) <= m /\ Cardinality(Upto(i)) # 0
  <2>1. Upto(i) \in SUBSET kept /\ i \in Upto(i)
    OBVIOUS
  <2>2. IsFiniteSet(Upto(i)) /\ Cardinality(Upto(i)) <= m
    BY <1>2, <2>1, FS_Subset, Zenon
  <2>3. Cardinality(Upto(i)) \in Nat /\ Cardinality(Upto(i)) # 0
    BY <2>1, <2>2, FS_CardinalityType, FS_EmptySet, Zenon
  <2> QED BY <2>2, <2>3
<1>4. \A i \in kept : Rank(kept, i) \in 1..m
  BY <1>2, <1>3 DEF Rank
<1>5. ASSUME NEW i \in kept, NEW j \in kept, i < j PROVE Rank(kept, i) # Rank(kept, j)
  <2>0. (\A l \in kept : l <= i => l <= j) /\ j <= j /\ ~(j <= i)
    BY <1>5
  <2>1. Upto(i) \in SUBSET Upto(j) /\ j \in Upto(j) /\ j \notin Upto(i)
    BY <2>0, Zenon
  <2>2. IsFiniteSet(Upto(j)) /\ Upto(i) # Upto(j)
    BY <1>3, <2>1
  <2>3. Cardinality(Upto(j)) # Cardinality(Upto(i))
    <3> HIDE DEF Upto
    <3> QED BY <2>1, <2>2, FS_Subset, Zenon
  <2> QED BY <2>3 DEF Rank
<1>6. \A i, j \in kept : Rank(kept, i) = Rank(kept, j) => i = j
  <2> SUFFICES ASSUME NEW i \in kept, NEW j \in kept, i # j PROVE Rank(kept, i) # Rank(kept, j)
    OBVIOUS
  <2>1. i \in Int /\ j \in Int
    OBVIOUS
  <2>2. i < j \/ j < i
    BY <2>1
  <2> QED BY <1>5, <2>2
<1>7. f \in Injection(kept, 1..m)
  BY <1>4, <1>6 DEF Injection, IsInjective
<1>8. IsFiniteSet(1..m) /\ Cardinality(1..m) = m
  BY <1>2, FS_Interval
<1>9. f \in Surjection(kept, 1..m)
  <2> HIDE DEF f
  <2> QED BY <1>7, <1>8, FS_Injection, Zenon
<1>10. \A k \in 1..m : \E i \in kept : Rank(kept, i) = k
  BY <1>9, Zenon DEF Surjection
<1> QED BY <1>2, <1>4, <1>6, <1>10

\* compact_pending() keeps the entries at the given positions and no others,
\* each as often as before.
LEMMA RetainedKeeps ==
  ASSUME NEW T, NEW s \in Seq(T), NEW kept \in SUBSET (1..Len(s)), IsInjective(s)
  PROVE  /\ Retained(s, kept) \in Seq(T) /\ Len(Retained(s, kept)) <= Len(s)
         /\ IsInjective(Retained(s, kept))
         /\ \A c : c \in Range(Retained(s, kept)) <=> \E i \in kept : s[i] = c
<1> DEFINE m == Cardinality(kept)
           nth == [k \in 1..m |-> CHOOSE i \in kept : Rank(kept, i) = k]
           r == Retained(s, kept)
<1>1. PICK n : n = Len(s)
  BY Zenon
<1>2. n \in Nat /\ DOMAIN s = 1..n /\ (\A i \in 1..n : s[i] \in T) /\ kept \in SUBSET (1..n)
      /\ \A i, j \in 1..n : s[i] = s[j] => i = j
  BY <1>1 DEF IsInjective
<1>3. /\ m \in Nat /\ m <= n
      /\ \A i \in kept : Rank(kept, i) \in 1..m
      /\ \A k \in 1..m : \E i \in kept : Rank(kept, i) = k
      /\ \A i, j \in kept : Rank(kept, i) = Rank(kept, j) => i = j
  <2> HIDE DEF m
  <2> QED BY <1>2, RankNumbers, Zenon DEF m
<1>4. \A k \in 1..m : nth[k] \in kept /\ Rank(kept, nth[k]) = k
  <2> HIDE DEF m
  <2> QED BY <1>3, Zenon
<1>5. \A i \in kept : nth[Rank(kept, i)] = i
  <2> SUFFICES ASSUME NEW i \in kept PROVE nth[Rank(kept, i)] = i
    OBVIOUS
  <2>1. PICK k : k = Rank(kept, i)
    BY Zenon
  <2>2. k \in 1..m
    BY <1>3, <2>1, Zenon
  <2>3. nth[k] \in kept /\ Rank(kept, nth[k]) = k
    BY <1>4, <2>2
  <2> HIDE DEF nth, m
  <2> QED BY <1>3, <2>1, <2>3, Zenon
<1>6. r = [k \in 1..m |-> s[nth[k]]]
  BY DEF Retained, Rank
<1> HIDE DEF r, nth, m
<1>7. r \in [1..m -> T] /\ DOMAIN r = 1..m
  BY <1>2, <1>4, <1>6, Zenon
<1>8. r \in Seq(T) /\ Len(r) = m
  BY <1>3, <1>7
<1>9. IsInjective(r)
  <2> SUFFICES ASSUME NEW k \in 1..m, NEW l \in 1..m, r[k] = r[l] PROVE k = l
    BY <1>7 DEF IsInjective
  <2>1. nth[k] = nth[l]
    <3>1. s[nth[k]] = s[nth[l]] /\ nth[k] \in 1..n /\ nth[l] \in 1..n
      BY <1>2, <1>4, <1>6, Zenon
    <3> QED BY <1>2, <3>1
  <2>2. Rank(kept, nth[k]) = k /\ Rank(kept, nth[l]) = l
    BY <1>4
  <2> QED BY <2>1, <2>2, Zenon
<1>10. ASSUME NEW c, c \in Range(r) PROVE \E i \in kept : s[i] = c
  <2>1. PICK k \in 1..m : c = r[k]
    BY <1>7, <1>10 DEF Range
  <2> QED BY <1>4, <1>6, <2>1, Zenon
<1>11. ASSUME NEW i \in kept PROVE s[i] \in Range(r)
  <2>1. PICK k \in 1..m : nth[k] = i
    BY <1>3, <1>5, Zenon
  <2>2. r[k] = s[i]
    BY <1>6, <2>1
  <2> QED BY <1>7, <2>2 DEF Range
<1> QED BY <1>1, <1>3, <1>8, <1>9, <1>10, <1>11 DEF r

-------------------------------------------------------------------------------
\* The inductive invariant: the records of the slots; a queue holds no channel
\* twice; a channel is active while a side is open, and a channel waits to be
\* accepted only while its client side is open and it is queued at an endpoint
\* of its service and its server.
Messages == [sender : Pids \cup {NoPid}, generation : 0..MaxConnects]
EndpointRecords ==
  [active : BOOLEAN, generation : Nat, owner : Pids \cup {NoPid}, name : Names \cup {""},
   pending : Seq(Channels), metadata : Metadata]
ChannelRecords ==
  [active : BOOLEAN, generation : 0..MaxConnects, client : Pids \cup {NoPid}, server : Pids \cup {NoPid},
   client_open : BOOLEAN, server_open : BOOLEAN, accepted : BOOLEAN,
   to_server : Seq(Messages), to_client : Seq(Messages), service : Names \cup {""},
   taken : Names \cup {""}]

EndpointOK(ep, gone) ==
  /\ ep \in EndpointRecords /\ Len(ep.pending) <= MaxPending /\ IsInjective(ep.pending)
  /\ ep.active => ep.owner \notin gone

\* The messages of q were sent by p on the incarnation g.
SentBy(q, p, g) == Len(q) <= MaxMessages /\ \A i \in 1..Len(q) : q[i] = [sender |-> p, generation |-> g]

SidesOK(ch, gone) ==
  /\ ch \in ChannelRecords
  /\ SentBy(ch.to_server, ch.client, ch.generation) /\ SentBy(ch.to_client, ch.server, ch.generation)
  /\ ch.client_open => ch.client \notin gone
  /\ ch.server_open => ch.server \notin gone
  /\ ch.server_open /\ ~ch.accepted => ch.client_open
ChannelOK(ch, gone) ==
  SidesOK(ch, gone) /\ (ch.active <=> ch.client_open \/ ch.server_open)

Waits(ch) == ch.server_open /\ ~ch.accepted
QueuedAt(ep, c, ch) ==
  ep.active /\ ep.name = ch.service /\ ep.owner = ch.server /\ c \in Range(ep.pending)
HandleOK(E, C, h) ==
  \/ h.kind = "endpoint" /\ h.index \in Endpoints /\ h.generation \in Nat
     /\ h.generation <= E[h.index].generation
  \/ h.kind = "channel" /\ h.index \in Channels /\ h.server \in BOOLEAN /\ h.generation \in Nat
     /\ h.generation <= C[h.index].generation

ChannelsInv ==
  /\ endpoints = [e \in Endpoints |-> endpoints[e]] /\ channels = [c \in Channels |-> channels[c]]
  /\ exited \subseteq Pids
  /\ \A e \in Endpoints : EndpointOK(endpoints[e], exited)
  /\ \A c \in Channels : ChannelOK(channels[c], exited)
  /\ \A c \in Channels : Waits(channels[c]) => \E e \in Endpoints : QueuedAt(endpoints[e], c, channels[c])
  /\ \A h \in issued : HandleOK(endpoints, channels, h)

\* A sequence has a length.
LEMMA LenType ==
  ASSUME NEW T, NEW s \in Seq(T)
  PROVE  Len(s) \in Nat
OBVIOUS

\* What stands in a queue after its head is taken or an entry is added.
LEMMA TailKeeps ==
  ASSUME NEW T, NEW s \in Seq(T), s # <<>>, IsInjective(s)
  PROVE  /\ Head(s) \in T /\ Head(s) \in Range(s)
         /\ Tail(s) \in Seq(T) /\ Len(Tail(s)) <= Len(s) /\ IsInjective(Tail(s))
         /\ \A c : c \in Range(Tail(s)) <=> c \in Range(s) /\ c # Head(s)
<1>1. /\ Len(s) \in Nat /\ Len(s) # 0 /\ DOMAIN s = 1..Len(s) /\ Head(s) = s[1]
      /\ Tail(s) \in Seq(T) /\ Len(Tail(s)) = Len(s) - 1 /\ DOMAIN Tail(s) = 1..(Len(s) - 1)
      /\ \A i \in 1..(Len(s) - 1) : Tail(s)[i] = s[i + 1]
      /\ \A i, j \in 1..Len(s) : s[i] = s[j] => i = j
      /\ \A i \in 1..Len(s) : s[i] \in T
  BY DEF IsInjective
<1>2. PICK r : r = Tail(s)
  BY Zenon
<1>3. PICK n : n = Len(s) - 1
  BY Zenon
<1>4. /\ n \in Nat /\ Len(s) = n + 1 /\ DOMAIN s = 1..(n + 1) /\ DOMAIN r = 1..n
      /\ \A i \in 1..n : r[i] = s[i + 1]
      /\ \A i, j \in 1..(n + 1) : s[i] = s[j] => i = j
  BY <1>1, <1>2, <1>3
<1>5. IsInjective(r)
  BY <1>4 DEF IsInjective
<1>6. ASSUME NEW c, c \in Range(r) PROVE c \in Range(s) /\ c # s[1]
  <2>1. PICK i \in 1..n : c = r[i]
    BY <1>4, <1>6 DEF Range
  <2>2. i + 1 \in 1..(n + 1) /\ 1 \in 1..(n + 1) /\ i + 1 # 1 /\ c = s[i + 1]
    BY <1>4, <2>1
  <2> QED BY <1>4, <2>2 DEF Range
<1>7. ASSUME NEW c, c \in Range(s), c # s[1] PROVE c \in Range(r)
  <2>1. PICK i \in 1..(n + 1) : c = s[i]
    BY <1>4, <1>7 DEF Range
  <2>2. i - 1 \in 1..n /\ i - 1 + 1 = i
    BY <1>4, <1>7, <2>1
  <2>3. c = r[i - 1]
    BY <1>4, <2>1, <2>2
  <2> QED BY <1>4, <2>2, <2>3 DEF Range
<1>8. Head(s) \in T /\ Head(s) \in Range(s)
  BY <1>1 DEF Range
<1> QED BY <1>1, <1>2, <1>5, <1>6, <1>7, <1>8

\* The same for the entry that connect() adds.
LEMMA AppendKeeps ==
  ASSUME NEW T, NEW s \in Seq(T), NEW d \in T, d \notin Range(s), IsInjective(s)
  PROVE  /\ Append(s, d) \in Seq(T) /\ Len(Append(s, d)) = Len(s) + 1 /\ IsInjective(Append(s, d))
         /\ \A c : c \in Range(Append(s, d)) <=> c \in Range(s) \/ c = d
<1>1. PICK r : r = Append(s, d)
  BY Zenon
<1>2. PICK n : n = Len(s)
  BY Zenon
<1>3. /\ n \in Nat /\ DOMAIN s = 1..n /\ r \in Seq(T) /\ Len(r) = n + 1 /\ DOMAIN r = 1..(n + 1)
      /\ r[n + 1] = d /\ \A i \in 1..n : r[i] = s[i]
  BY <1>1, <1>2
<1>4. \A i \in 1..n : s[i] # d
  BY <1>3 DEF Range
<1>5. IsInjective(r)
  <2> SUFFICES ASSUME NEW i \in 1..(n + 1), NEW j \in 1..(n + 1), r[i] = r[j], i # j PROVE FALSE
    BY <1>3 DEF IsInjective
  <2>1. CASE i \in 1..n /\ j \in 1..n
    BY <1>3, <2>1 DEF IsInjective
  <2>2. CASE i = n + 1 /\ j \in 1..n
    BY <1>3, <1>4, <2>2
  <2>3. CASE i \in 1..n /\ j = n + 1
    BY <1>3, <1>4, <2>3
  <2> QED BY <1>3, <2>1, <2>2, <2>3
<1>6. ASSUME NEW c, c \in Range(r) PROVE c \in Range(s) \/ c = d
  <2>1. PICK i \in 1..(n + 1) : c = r[i]
    BY <1>3, <1>6 DEF Range
  <2>2. i \in 1..n \/ i = n + 1
    BY <1>3
  <2> QED BY <1>3, <2>1, <2>2 DEF Range
<1>7. ASSUME NEW c, c \in Range(s) PROVE c \in Range(r)
  <2>1. PICK i \in 1..n : c = s[i]
    BY <1>3, <1>7 DEF Range
  <2>2. i \in 1..(n + 1)
    BY <1>3
  <2> QED BY <1>3, <2>1, <2>2 DEF Range
<1>8. d \in Range(r)
  <2>1. n + 1 \in 1..(n + 1)
    BY <1>3
  <2> QED BY <1>3, <2>1 DEF Range
<1> QED BY <1>1, <1>2, <1>3, <1>5, <1>6, <1>7, <1>8

\* Queued messages stay those of the peer when one is added or taken.
LEMMA MessagesKept ==
  ASSUME NEW p \in Pids \cup {NoPid}, NEW g \in 0..MaxConnects, NEW q \in Seq(Messages), SentBy(q, p, g)
  PROVE  /\ q # <<>> => Tail(q) \in Seq(Messages) /\ SentBy(Tail(q), p, g)
         /\ Len(q) < MaxMessages =>
              /\ Append(q, [sender |-> p, generation |-> g]) \in Seq(Messages)
              /\ SentBy(Append(q, [sender |-> p, generation |-> g]), p, g)
<1>1. PICK m : m = [sender |-> p, generation |-> g]
  BY Zenon
<1>2. m \in Messages
  BY <1>1 DEF Messages
<1>3. ASSUME q # <<>> PROVE Tail(q) \in Seq(Messages) /\ SentBy(Tail(q), p, g)
  <2>1. /\ Tail(q) \in Seq(Messages) /\ Len(q) \in Nat /\ Len(Tail(q)) = Len(q) - 1 /\ Len(q) <= MaxMessages
        /\ \A i \in 1..Len(Tail(q)) : Tail(q)[i] = q[i + 1] /\ i + 1 \in 1..Len(q)
    BY <1>3 DEF SentBy
  <2> QED BY <2>1, Capacities DEF SentBy
<1>4. ASSUME Len(q) < MaxMessages PROVE Append(q, m) \in Seq(Messages) /\ SentBy(Append(q, m), p, g)
  <2>1. /\ Append(q, m) \in Seq(Messages) /\ Len(q) \in Nat /\ Len(Append(q, m)) = Len(q) + 1
        /\ \A i \in 1..Len(q) : Append(q, m)[i] = q[i]
        /\ Append(q, m)[Len(q) + 1] = m
    BY <1>2
  <2>2. \A i \in 1..(Len(q) + 1) : i \in 1..Len(q) \/ i = Len(q) + 1
    BY <2>1
  <2> QED BY <1>1, <1>4, <2>1, <2>2, Capacities DEF SentBy
<1> QED BY <1>1, <1>3, <1>4

\* An empty queue holds no message of anyone else.
LEMMA NoneSent == \A p, g : SentBy(<<>>, p, g)
<1>1. Len(<<>>) = 0 /\ 0 <= MaxMessages
  BY Capacities
<1> QED BY <1>1 DEF SentBy

\* maybe_free_channel() leaves a slot that is active exactly while a side is open.
LEMMA MaybeFreeOK ==
  ASSUME NEW ch, NEW gone, SidesOK(ch, gone), ch.active
  PROVE  /\ ChannelOK(MaybeFree(ch), gone) /\ MaybeFree(ch).generation = ch.generation
         /\ Waits(MaybeFree(ch)) => MaybeFree(ch) = ch
<1>1. CASE ~ch.client_open /\ ~ch.server_open
  <2>1. MaybeFree(ch) = FreeChannel(ch.generation)
    BY <1>1 DEF MaybeFree
  <2>0. <<>> \in Seq(Messages) /\ Len(<<>>) = 0
    OBVIOUS
  <2>2. ch.generation \in 0..MaxConnects
    BY DEF SidesOK, ChannelRecords
  <2>3. FreeChannel(ch.generation) \in ChannelRecords
    BY <2>0, <2>2 DEF FreeChannel, ChannelRecords
  <2>5. ChannelOK(FreeChannel(ch.generation), gone)
    BY <2>3, NoneSent DEF ChannelOK, SidesOK, FreeChannel
  <2>6. /\ FreeChannel(ch.generation).generation = ch.generation
        /\ FreeChannel(ch.generation).server_open = FALSE
    BY DEF FreeChannel
  <2>7. ~Waits(FreeChannel(ch.generation))
    BY <2>6 DEF Waits
  <2> QED BY <2>1, <2>5, <2>6, <2>7
<1>2. CASE ch.client_open \/ ch.server_open
  <2>1. MaybeFree(ch) = ch
    BY <1>2 DEF MaybeFree
  <2> QED BY <1>2, <2>1 DEF ChannelOK
<1> QED BY <1>1, <1>2

\* The server side of a channel may close at any time.
LEMMA ServerCloses ==
  ASSUME NEW ch, NEW gone, ChannelOK(ch, gone), ch.active
  PROVE  LET r == MaybeFree([ch EXCEPT !.server_open = FALSE])
         IN  ChannelOK(r, gone) /\ r.generation = ch.generation /\ ~Waits(r)
<1>1. PICK s : s = [ch EXCEPT !.server_open = FALSE]
  BY Zenon
<1>2. /\ s \in ChannelRecords /\ s.active = ch.active /\ s.generation = ch.generation
      /\ s.client = ch.client /\ s.server = ch.server /\ s.client_open = ch.client_open
      /\ s.server_open = FALSE /\ s.to_server = ch.to_server /\ s.to_client = ch.to_client
  BY <1>1 DEF ChannelOK, SidesOK, ChannelRecords
<1>3. SidesOK(s, gone) /\ s.active
  BY <1>2 DEF ChannelOK, SidesOK
<1>4. ~Waits(s)
  BY <1>2 DEF Waits
<1> QED BY <1>1, <1>2, <1>3, <1>4, MaybeFreeOK, Zenon

\* The client side may close at any time, and takes an unaccepted server side
\* with it.
LEMMA ClientCloses ==
  ASSUME NEW ch, NEW gone, ChannelOK(ch, gone), ch.active
  PROVE  /\ SidesOK(CloseClient(ch), gone) /\ CloseClient(ch).active
         /\ CloseClient(ch).generation = ch.generation /\ ~Waits(CloseClient(ch))
         /\ CloseClient(ch).server = ch.server
         /\ CloseClient(ch).client_open = FALSE
<1>1. PICK s : s = CloseClient(ch)
  BY Zenon
<1>2. /\ s \in ChannelRecords /\ s.active = ch.active /\ s.generation = ch.generation
      /\ s.client = ch.client /\ s.server = ch.server /\ s.client_open = FALSE
      /\ s.accepted = ch.accepted
      /\ s.server_open = (ch.server_open /\ ch.accepted)
      /\ s.to_server = ch.to_server /\ s.to_client = ch.to_client
  BY <1>1 DEF CloseClient, ChannelOK, SidesOK, ChannelRecords
<1>3. SidesOK(s, gone) /\ s.active
  BY <1>2, Zenon DEF ChannelOK, SidesOK
<1>4. ~Waits(s)
  BY <1>2, Zenon DEF Waits
<1> QED BY <1>1, <1>2, <1>3, <1>4

\* release_process() of p leaves a channel on which p has no open side.
LEMMA ReleaseSideOK ==
  ASSUME NEW ch, NEW gone, ChannelOK(ch, gone), NEW p
  PROVE  /\ ChannelOK(ReleaseSide(ch, p), gone \cup {p})
         /\ ReleaseSide(ch, p).generation = ch.generation
         /\ Waits(ReleaseSide(ch, p)) => ReleaseSide(ch, p) = ch /\ ch.server # p
<1>1. CASE ~ch.active
  <2>1. ReleaseSide(ch, p) = ch /\ ~ch.client_open /\ ~ch.server_open
    BY <1>1 DEF ReleaseSide, ChannelOK
  <2> QED BY <2>1 DEF ChannelOK, SidesOK, Waits
<1>2. CASE ch.active
  <2>1. PICK a : a = IF ch.client = p THEN CloseClient(ch) ELSE ch
    BY Zenon
  <2>2. PICK b : b = IF ch.server = p THEN [a EXCEPT !.server_open = FALSE] ELSE a
    BY Zenon
  <2>3. ReleaseSide(ch, p) = MaybeFree(b)
    BY <1>2, <2>1, <2>2 DEF ReleaseSide
  <2>4. /\ SidesOK(a, gone) /\ a.active /\ a.generation = ch.generation /\ a.server = ch.server
        /\ a.client_open => a.client # p
        /\ Waits(a) => a = ch
    <3>1. CASE ch.client = p
      BY <1>2, <2>1, <3>1, ClientCloses, Zenon
    <3>2. CASE ch.client # p
      BY <1>2, <2>1, <3>2 DEF ChannelOK
    <3> QED BY <3>1, <3>2
  <2>5. /\ SidesOK(b, gone \cup {p}) /\ b.active /\ b.generation = ch.generation
        /\ Waits(b) => b = ch /\ ch.server # p
    <3>1. CASE ch.server = p
      <4>1. /\ b \in ChannelRecords /\ b.active = a.active /\ b.generation = a.generation
            /\ b.client = a.client /\ b.server = a.server /\ b.client_open = a.client_open
            /\ b.server_open = FALSE /\ b.to_server = a.to_server /\ b.to_client = a.to_client
        BY <2>2, <2>4, <3>1 DEF SidesOK, ChannelRecords
      <4>2. SidesOK(b, gone \cup {p})
        BY <2>4, <4>1 DEF SidesOK
      <4>3. ~Waits(b)
        BY <4>1 DEF Waits
      <4> QED BY <2>4, <4>1, <4>2, <4>3
    <3>2. CASE ch.server # p
      BY <2>2, <2>4, <3>2 DEF SidesOK
    <3> QED BY <3>1, <3>2
  <2>6. /\ ChannelOK(MaybeFree(b), gone \cup {p}) /\ MaybeFree(b).generation = b.generation
        /\ Waits(MaybeFree(b)) => MaybeFree(b) = b
    BY <2>5, MaybeFreeOK
  <2>7. Waits(MaybeFree(b)) => Waits(b)
    BY <2>6
  <2> QED BY <2>3, <2>5, <2>6, <2>7
<1>3. ch.active \in BOOLEAN
  BY DEF ChannelOK, SidesOK, ChannelRecords
<1> QED BY <1>1, <1>2, <1>3

-------------------------------------------------------------------------------
\* A table with a free slot has a first one.
LEMMA FirstFreeOK ==
  ASSUME NEW n \in Nat, NEW slots, DOMAIN slots = 1..n, HasFree(slots)
  PROVE  FirstFree(slots) \in 1..n /\ ~slots[FirstFree(slots)].active
<1> DEFINE Less == {ss \in Nat \X Nat : ss[1] < ss[2]}
           S == {i \in 1..n : ~slots[i].active}
<1>1. IsWellFoundedOn(Less, Nat)
  BY NatLessThanWellFounded DEF OpToRel
<1>2. \A a, b \in Nat : a < b => <<a, b>> \in Less
  OBVIOUS
<1>3. S \in SUBSET Nat /\ S # {}
  BY DEF HasFree
<1>4. PICK x \in S : \A y \in S : ~(<<y, x>> \in Less)
  <2> HIDE DEF Less, S
  <2> QED BY <1>1, <1>3, WFMin, Zenon
<1>5. ASSUME NEW y \in S PROVE x <= y
  <2>1. x \in Nat /\ y \in Nat /\ ~(y < x)
    <3> HIDE DEF Less, S
    <3> QED BY <1>2, <1>3, <1>4, <1>5, Zenon
  <2> QED BY <2>1
<1>6. \E i \in DOMAIN slots : ~slots[i].active /\ \A j \in DOMAIN slots : ~slots[j].active => i <= j
  BY <1>4, <1>5
<1> QED BY <1>6, Zenon DEF FirstFree

\* compact_pending() drops the entries that are not pending any more and nothing
\* else.
LEMMA CompactOK ==
  ASSUME NEW ep, NEW gone, EndpointOK(ep, gone)
  PROVE  /\ EndpointOK(Compact(ep), gone)
         /\ Compact(ep).active = ep.active /\ Compact(ep).owner = ep.owner
         /\ Compact(ep).name = ep.name /\ Compact(ep).generation = ep.generation
         /\ Compact(ep).metadata = ep.metadata
         /\ \A c : c \in Range(Compact(ep).pending) <=>
                     c \in Range(ep.pending) /\ PendingLive(channels, ep.owner, c)
<1>1. PICK s : s = ep.pending
  BY Zenon
<1>2. PICK kept : kept = {i \in 1..Len(s) : PendingLive(channels, ep.owner, s[i])}
  BY Zenon
<1>3. PICK r : r = Retained(s, kept)
  BY Zenon
<1>4. Compact(ep) = [ep EXCEPT !.pending = r]
  BY <1>1, <1>2, <1>3 DEF Compact, EndpointOK, EndpointRecords
<1>5. s \in Seq(Channels) /\ IsInjective(s) /\ Len(s) <= MaxPending /\ kept \in SUBSET (1..Len(s))
      /\ Len(s) \in Nat /\ DOMAIN s = 1..Len(s)
  <2>1. s \in Seq(Channels) /\ IsInjective(s) /\ Len(s) <= MaxPending
    BY <1>1 DEF EndpointOK, EndpointRecords
  <2>2. kept \in SUBSET (1..Len(s))
    BY <1>2, Zenon
  <2>3. Len(s) \in Nat /\ DOMAIN s = 1..Len(s)
    BY <2>1
  <2> QED BY <2>1, <2>2, <2>3
<1>6. /\ r \in Seq(Channels) /\ Len(r) <= Len(s) /\ IsInjective(r)
      /\ \A c : c \in Range(r) <=> \E i \in kept : s[i] = c
  BY <1>3, <1>5, RetainedKeeps, Zenon
<1>7. \A c : c \in Range(r) <=> c \in Range(s) /\ PendingLive(channels, ep.owner, c)
  BY <1>2, <1>5, <1>6, Zenon DEF Range
<1>8. Len(r) \in Nat /\ Len(r) <= MaxPending
  BY <1>5, <1>6, Capacities
<1>9. PICK q : q = [ep EXCEPT !.pending = r]
  BY Zenon
<1>10. /\ q \in EndpointRecords /\ q.pending = r /\ q.active = ep.active /\ q.owner = ep.owner
       /\ q.name = ep.name /\ q.generation = ep.generation /\ q.metadata = ep.metadata
  BY <1>6, <1>9 DEF EndpointOK, EndpointRecords
<1>11. EndpointOK(q, gone)
  BY <1>6, <1>8, <1>10 DEF EndpointOK
<1> QED BY <1>1, <1>4, <1>7, <1>9, <1>10, <1>11

\* A waiting channel stays in the queue of its endpoint when that is compacted.
LEMMA WaitingStays ==
  ASSUME NEW ep, NEW gone, EndpointOK(ep, gone), NEW c \in Channels, ChannelOK(channels[c], gone),
         Waits(channels[c]), QueuedAt(ep, c, channels[c])
  PROVE  QueuedAt(Compact(ep), c, channels[c])
<1>1. /\ channels[c].server_open /\ ~channels[c].accepted /\ channels[c].server = ep.owner
      /\ channels[c].client_open /\ channels[c].active
  BY DEF Waits, QueuedAt, ChannelOK, SidesOK
<1>2. PendingLive(channels, ep.owner, c)
  BY <1>1 DEF PendingLive
<1> QED BY <1>2, CompactOK DEF QueuedAt

\* A step that replaces one channel keeps the invariant if it leaves the slot in
\* order and makes nothing wait.
LEMMA ChannelReplaced ==
  ASSUME ChannelsInv, NEW c \in Channels, NEW r, ChannelOK(r, exited),
         r.generation = channels[c].generation,
         Waits(r) => /\ Waits(channels[c]) /\ r.service = channels[c].service
                     /\ r.server = channels[c].server,
         channels' = [channels EXCEPT ![c] = r], UNCHANGED <<endpoints, exited, issued>>
  PROVE  ChannelsInv'
<1>1. channels' = [d \in Channels |-> channels'[d]]
      /\ \A d \in Channels : channels'[d] = IF d = c THEN r ELSE channels[d]
  BY DEF ChannelsInv
<1>2. \A d \in Channels : channels'[d].generation = channels[d].generation
  BY <1>1
<1>3. \A d \in Channels : ChannelOK(channels'[d], exited')
  BY <1>1 DEF ChannelsInv
<1>4. ASSUME NEW d \in Channels, Waits(channels'[d])
      PROVE  \E e \in Endpoints : QueuedAt(endpoints'[e], d, channels'[d])
  <2>1. Waits(channels[d]) /\ channels'[d].service = channels[d].service
        /\ channels'[d].server = channels[d].server
    BY <1>1, <1>4
  <2> QED BY <2>1 DEF ChannelsInv, QueuedAt
<1>5. \A h \in issued' : HandleOK(endpoints', channels', h)
  BY <1>2 DEF ChannelsInv, HandleOK
<1> QED BY <1>1, <1>3, <1>4, <1>5 DEF ChannelsInv

-------------------------------------------------------------------------------
\* bind() takes a free endpoint slot, so no waiting channel loses its endpoint.
LEMMA BindOK ==
  ASSUME ChannelsInv, NEW p \in Live, NEW n \in Names, NEW m \in Metadata, Bind(p, n, m)
  PROVE  ChannelsInv'
<1>1. PICK e : e = FirstFree(endpoints)
  BY Zenon
<1>2. DOMAIN endpoints = 1..NEndpoints /\ NEndpoints \in Nat
  BY Capacities DEF ChannelsInv, Endpoints
<1>3. e \in Endpoints /\ ~endpoints[e].active
  BY <1>1, <1>2, FirstFreeOK DEF Bind, Endpoints
<1>4. PICK g : g = endpoints[e].generation + 1
  BY Zenon
<1>5. PICK r : r = [FreeEndpoint(g) EXCEPT !.active = TRUE, !.owner = p, !.name = n, !.metadata = m]
  BY Zenon
<1>6. /\ endpoints' = [endpoints EXCEPT ![e] = r] /\ issued' = issued \cup {EndpointHandle(e, g)}
      /\ UNCHANGED <<channels, exited>>
  BY <1>1, <1>4, <1>5 DEF Bind
<1>7. /\ r.active = TRUE /\ r.generation = g /\ r.owner = p /\ r.name = n /\ r.metadata = m /\ r.pending = <<>>
      /\ r = [active |-> TRUE, generation |-> g, owner |-> p, name |-> n, pending |-> <<>>, metadata |-> m]
  BY <1>5, Zenon DEF FreeEndpoint
<1>8. endpoints[e].generation \in Nat /\ g \in Nat
  <2>1. endpoints[e] \in EndpointRecords
    BY <1>3 DEF ChannelsInv, EndpointOK
  <2>2. endpoints[e].generation \in Nat
    BY <2>1 DEF EndpointRecords
  <2> QED BY <1>4, <2>2
<1>9. <<>> \in Seq(Channels) /\ Len(<<>>) = 0 /\ IsInjective(<<>>)
  <2>1. <<>> \in Seq(Channels) /\ Len(<<>>) = 0
    OBVIOUS
  <2>2. IsInjective(<<>>)
    BY DEF IsInjective
  <2> QED BY <2>1, <2>2
<1>10. EndpointOK(r, exited)
  <2>1. r \in EndpointRecords
    BY <1>7, <1>8, <1>9 DEF EndpointRecords, Live
  <2> QED BY <1>7, <1>9, <2>1, Capacities DEF EndpointOK, Live
<1>11. /\ endpoints' = [f \in Endpoints |-> endpoints'[f]]
       /\ \A f \in Endpoints : endpoints'[f] = IF f = e THEN r ELSE endpoints[f]
  BY <1>3, <1>6 DEF ChannelsInv
<1>12. \A f \in Endpoints : EndpointOK(endpoints'[f], exited')
  BY <1>6, <1>10, <1>11 DEF ChannelsInv
<1>13. ASSUME NEW c \in Channels, Waits(channels'[c])
       PROVE  \E f \in Endpoints : QueuedAt(endpoints'[f], c, channels'[c])
  <2>1. PICK f \in Endpoints : QueuedAt(endpoints[f], c, channels[c])
    BY <1>6, <1>13 DEF ChannelsInv
  <2>2. f # e
    BY <1>3, <2>1 DEF QueuedAt
  <2> QED BY <1>6, <1>11, <2>1, <2>2
<1>14. ASSUME NEW h \in issued' PROVE HandleOK(endpoints', channels', h)
  <2>1. CASE h \in issued
    <3>0. \A f \in Endpoints : endpoints[f].generation \in Nat
      BY DEF ChannelsInv, EndpointOK, EndpointRecords
    <3>1. \A f \in Endpoints : endpoints[f].generation \in Nat /\ endpoints'[f].generation \in Nat
                               /\ endpoints[f].generation <= endpoints'[f].generation
      BY <1>4, <1>7, <1>8, <1>11, <3>0
    <3> QED BY <1>6, <2>1, <3>1 DEF ChannelsInv, HandleOK
  <2>2. CASE h = EndpointHandle(e, g)
    BY <1>3, <1>7, <1>8, <1>11, <2>2 DEF EndpointHandle, HandleOK
  <2> QED BY <1>6, <2>1, <2>2
<1> QED BY <1>6, <1>11, <1>12, <1>13, <1>14 DEF ChannelsInv

\* What replaces one endpoint by another of the same owner and service, that keeps
\* its waiting channels, and leaves the channels alone.
LEMMA Compacted ==
  ASSUME ChannelsInv, NEW e \in Endpoints, endpoints' = [endpoints EXCEPT ![e] = Compact(endpoints[e])],
         UNCHANGED <<channels, exited, issued>>
  PROVE  ChannelsInv'
<1>1. PICK r : r = Compact(endpoints[e])
  BY Zenon
<1>2. EndpointOK(r, exited) /\ r.generation = endpoints[e].generation
  BY <1>1, CompactOK DEF ChannelsInv
<1>3. /\ endpoints' = [f \in Endpoints |-> endpoints'[f]]
      /\ \A f \in Endpoints : endpoints'[f] = IF f = e THEN r ELSE endpoints[f]
  BY <1>1 DEF ChannelsInv
<1>4. \A f \in Endpoints : EndpointOK(endpoints'[f], exited')
  BY <1>2, <1>3 DEF ChannelsInv
<1>5. ASSUME NEW c \in Channels, Waits(channels'[c])
      PROVE  \E f \in Endpoints : QueuedAt(endpoints'[f], c, channels'[c])
  <2>1. PICK f \in Endpoints : QueuedAt(endpoints[f], c, channels[c])
    BY <1>5 DEF ChannelsInv
  <2>2. CASE f = e
    BY <1>1, <1>3, <1>5, <2>1, <2>2, WaitingStays DEF ChannelsInv
  <2>3. CASE f # e
    BY <1>3, <2>1, <2>3
  <2> QED BY <2>2, <2>3
<1>6. \A h \in issued' : HandleOK(endpoints', channels', h)
  BY <1>2, <1>3 DEF ChannelsInv, HandleOK
<1> QED BY <1>3, <1>4, <1>5, <1>6, SMTT(30) DEF ChannelsInv

\* connect() queues the new channel at the endpoint it was connected to.
LEMMA ConnectOK ==
  ASSUME ChannelsInv, NEW p \in Live, NEW n \in Names, NEW range, Connect(p, n, range)
  PROVE  ChannelsInv'
<1>1. PICK e \in Bound(n) :
        LET ep == Compact(endpoints[e]) IN
        /\ IF Len(ep.pending) < MaxPending /\ HasFree(channels)
           THEN LET c == FirstFree(channels)
                    g == channels[c].generation + 1
                IN  /\ g <= MaxConnects
                    /\ channels' = [channels EXCEPT ![c] = Occupy(g, p, ep)]
                    /\ endpoints' = [endpoints EXCEPT ![e] = [ep EXCEPT !.pending = Append(@, c)]]
                    /\ issued' = issued \cup {ChannelHandle(c, g, FALSE)}
           ELSE endpoints' = [endpoints EXCEPT ![e] = ep] /\ UNCHANGED <<channels, issued>>
        /\ UNCHANGED exited
  BY Zenon DEF Connect
<1>2. e \in Endpoints /\ endpoints[e].active
  BY DEF Bound
<1>3. PICK ep : ep = Compact(endpoints[e])
  BY Zenon
<1>4. CASE Len(ep.pending) < MaxPending /\ HasFree(channels)
  <2>1. PICK c : c = FirstFree(channels)
    BY Zenon
  <2>2. PICK g : g = channels[c].generation + 1
    BY Zenon
  <2>3. PICK r : r = [ep EXCEPT !.pending = Append(@, c)]
    BY Zenon
  <2>4. PICK ch : ch = Occupy(g, p, ep)
    BY Zenon
  <2>5. /\ g <= MaxConnects /\ channels' = [channels EXCEPT ![c] = ch]
        /\ endpoints' = [endpoints EXCEPT ![e] = r]
        /\ issued' = issued \cup {ChannelHandle(c, g, FALSE)} /\ exited' = exited
    BY <1>1, <1>3, <1>4, <2>1, <2>2, <2>3, <2>4, Zenon
  <2>6. c \in Channels /\ ~channels[c].active
    <3>1. DOMAIN channels = 1..NChannels /\ NChannels \in Nat
      BY Capacities DEF ChannelsInv, Channels
    <3> QED BY <1>4, <2>1, <3>1, FirstFreeOK DEF Channels
  <2>7. channels[c].generation \in 0..MaxConnects /\ g \in 0..MaxConnects
    <3>1. channels[c] \in ChannelRecords
      BY <2>6 DEF ChannelsInv, ChannelOK, SidesOK
    <3>2. channels[c].generation \in 0..MaxConnects
      BY <3>1 DEF ChannelRecords
    <3> QED BY <2>2, <2>5, <3>2, Capacities
  <2>8. /\ EndpointOK(ep, exited) /\ ep.active /\ ep.owner = endpoints[e].owner
        /\ ep.name = endpoints[e].name /\ ep.generation = endpoints[e].generation
        /\ c \notin Range(ep.pending)
    <3>1. ~PendingLive(channels, endpoints[e].owner, c)
      BY <2>6 DEF PendingLive
    <3> QED BY <1>2, <1>3, <3>1, CompactOK DEF ChannelsInv
  <2>9. /\ ep \in EndpointRecords /\ ep.pending \in Seq(Channels) /\ IsInjective(ep.pending)
        /\ ep.owner \in Pids \cup {NoPid} /\ ep.owner \notin exited /\ ep.name \in Names \cup {""}
    BY <2>8 DEF EndpointOK, EndpointRecords
  <2>10. PICK q : q = Append(ep.pending, c)
    BY Zenon
  <2>11. /\ q \in Seq(Channels) /\ Len(q) = Len(ep.pending) + 1 /\ IsInjective(q)
         /\ \A d : d \in Range(q) <=> d \in Range(ep.pending) \/ d = c
    <3>1. PICK s : s = ep.pending
      BY Zenon
    <3>2. s \in Seq(Channels) /\ IsInjective(s) /\ c \notin Range(s) /\ q = Append(s, c)
      BY <2>8, <2>9, <2>10, <3>1, Zenon
    <3>3. /\ Append(s, c) \in Seq(Channels) /\ Len(Append(s, c)) = Len(s) + 1 /\ IsInjective(Append(s, c))
          /\ \A d : d \in Range(Append(s, c)) <=> d \in Range(s) \/ d = c
      BY <2>6, <3>2, AppendKeeps, Zenon
    <3> QED BY <3>1, <3>2, <3>3, Zenon
  <2>12. Len(q) <= MaxPending
    <3>0. MaxPending \in Nat
      BY Capacities
    <3>1. Len(ep.pending) \in Nat
      BY <2>9, LenType, Zenon
    <3> QED BY <1>4, <2>11, <3>0, <3>1
  <2>13. /\ r \in EndpointRecords /\ r.pending = q /\ r.active = ep.active /\ r.owner = ep.owner
         /\ r.name = ep.name /\ r.generation = ep.generation
    <3>1. r = [ep EXCEPT !.pending = q]
      BY <2>3, <2>9, <2>10 DEF EndpointRecords
    <3> QED BY <2>9, <2>11, <3>1 DEF EndpointRecords
  <2>14. EndpointOK(r, exited)
    BY <2>9, <2>11, <2>12, <2>13 DEF EndpointOK
  <2>15. ch = [active |-> TRUE, generation |-> g, client |-> p, server |-> ep.owner,
               client_open |-> TRUE, server_open |-> TRUE, accepted |-> FALSE,
               to_server |-> <<>>, to_client |-> <<>>, service |-> ep.name, taken |-> ""]
    BY <2>4 DEF Occupy, FreeChannel
  <2>16. ChannelOK(ch, exited) /\ ch.service = ep.name /\ ch.server = ep.owner /\ ch.generation = g
    <3>1. <<>> \in Seq(Messages) /\ Len(<<>>) = 0
      OBVIOUS
    <3>2. ch \in ChannelRecords
      BY <2>7, <2>9, <2>15, <3>1 DEF ChannelRecords, Live
    <3>3. SentBy(ch.to_server, ch.client, ch.generation) /\ SentBy(ch.to_client, ch.server, ch.generation)
      BY <2>15, NoneSent
    <3> QED BY <2>9, <2>15, <3>2, <3>3 DEF ChannelOK, SidesOK, Live
  <2>17. /\ endpoints' = [f \in Endpoints |-> endpoints'[f]]
         /\ \A f \in Endpoints : endpoints'[f] = IF f = e THEN r ELSE endpoints[f]
    BY <1>2, <2>5 DEF ChannelsInv
  <2>18. /\ channels' = [d \in Channels |-> channels'[d]]
         /\ \A d \in Channels : channels'[d] = IF d = c THEN ch ELSE channels[d]
    BY <2>5, <2>6 DEF ChannelsInv
  <2>19. \A f \in Endpoints : EndpointOK(endpoints'[f], exited')
    BY <2>5, <2>14, <2>17 DEF ChannelsInv
  <2>20. \A d \in Channels : ChannelOK(channels'[d], exited')
    BY <2>5, <2>16, <2>18 DEF ChannelsInv
  <2>21. ASSUME NEW d \in Channels, Waits(channels'[d])
         PROVE  \E f \in Endpoints : QueuedAt(endpoints'[f], d, channels'[d])
    <3>1. CASE d = c
      <4>1. QueuedAt(r, c, ch)
        BY <2>8, <2>11, <2>13, <2>16 DEF QueuedAt
      <4> QED BY <1>2, <2>17, <2>18, <3>1, <4>1
    <3>2. CASE d # c
      <4>1. channels'[d] = channels[d] /\ Waits(channels[d])
        BY <2>18, <2>21, <3>2
      <4>2. PICK f \in Endpoints : QueuedAt(endpoints[f], d, channels[d])
        BY <4>1 DEF ChannelsInv
      <4>3. CASE f = e
        <5>1. QueuedAt(ep, d, channels[d])
          BY <1>2, <1>3, <4>1, <4>2, <4>3, WaitingStays DEF ChannelsInv
        <5>2. QueuedAt(r, d, channels[d])
          BY <2>11, <2>13, <5>1 DEF QueuedAt
        <5> QED BY <1>2, <2>17, <4>1, <5>2
      <4>4. CASE f # e
        BY <2>17, <4>1, <4>2, <4>4
      <4> QED BY <4>3, <4>4
    <3> QED BY <3>1, <3>2
  <2>22. ASSUME NEW h \in issued' PROVE HandleOK(endpoints', channels', h)
    <3>1. CASE h \in issued
      <4>1. \A f \in Endpoints : endpoints'[f].generation = endpoints[f].generation
        BY <2>8, <2>13, <2>17
      <4>2. \A d \in Channels : channels[d].generation \in Nat
        <5>1. \A d \in Channels : channels[d] \in ChannelRecords
          BY DEF ChannelsInv, ChannelOK, SidesOK
        <5>2. \A d \in Channels : channels[d].generation \in 0..MaxConnects
          BY <5>1 DEF ChannelRecords
        <5> QED BY <5>2, Capacities
      <4>3. \A d \in Channels : channels'[d].generation \in Nat /\ channels[d].generation <= channels'[d].generation
        BY <2>2, <2>7, <2>16, <2>18, <4>2
      <4> QED BY <3>1, <4>1, <4>2, <4>3 DEF ChannelsInv, HandleOK
    <3>2. CASE h = ChannelHandle(c, g, FALSE)
      BY <2>6, <2>7, <2>16, <2>18, <3>2 DEF ChannelHandle, HandleOK
    <3> QED BY <2>5, <3>1, <3>2, Zenon
  <2> QED BY <2>5, <2>17, <2>18, <2>19, <2>20, <2>21, <2>22, Zenon DEF ChannelsInv
<1>5. CASE ~(Len(ep.pending) < MaxPending /\ HasFree(channels))
  <2>1. /\ endpoints' = [endpoints EXCEPT ![e] = Compact(endpoints[e])]
        /\ UNCHANGED <<channels, exited, issued>>
    BY <1>1, <1>3, <1>5, Zenon
  <2> QED BY <1>2, <2>1, Compacted, Zenon
<1> QED BY <1>4, <1>5

\* accept() takes the head of the compacted queue; the others stay queued.
LEMMA AcceptOK ==
  ASSUME ChannelsInv, NEW p \in Live, NEW h \in issued, Accept(p, h)
  PROVE  ChannelsInv'
<1>1. PICK e : e = h.index
  BY Zenon
<1>2. e \in Endpoints /\ endpoints[e].active
  BY <1>1, Zenon DEF Accept, DecodesEndpoint, ChannelsInv, HandleOK
<1>3. PICK ep : ep = Compact(endpoints[e])
  BY Zenon
<1>4. /\ EndpointOK(ep, exited) /\ ep.active /\ ep.owner = endpoints[e].owner
      /\ ep.name = endpoints[e].name /\ ep.generation = endpoints[e].generation
      /\ \A c : c \in Range(ep.pending) =>
                  c \in Range(endpoints[e].pending) /\ PendingLive(channels, endpoints[e].owner, c)
  BY <1>2, <1>3, CompactOK DEF ChannelsInv
<1>5. CASE ep.pending # <<>>
  <2>1. PICK s : s = ep.pending
    BY Zenon
  <2>2. PICK c : c = Head(s)
    BY Zenon
  <2>3. PICK r : r = [ep EXCEPT !.pending = Tail(@)]
    BY Zenon
  <2>4. PICK ch : ch = [channels[c] EXCEPT !.accepted = TRUE, !.taken = ep.name]
    BY Zenon
  <2>5. s \in Seq(Channels) /\ s # <<>> /\ IsInjective(s) /\ Len(s) <= MaxPending
        /\ ep \in EndpointRecords /\ ep.name \in Names \cup {""}
    BY <1>4, <1>5, <2>1 DEF EndpointOK, EndpointRecords
  <2>6. /\ c \in Channels /\ c \in Range(s)
        /\ Tail(s) \in Seq(Channels) /\ Len(Tail(s)) <= Len(s) /\ IsInjective(Tail(s))
        /\ \A d : d \in Range(Tail(s)) <=> d \in Range(s) /\ d # c
    BY <2>2, <2>5, TailKeeps, Zenon
  <2>7. /\ channels' = [channels EXCEPT ![c] = ch] /\ endpoints' = [endpoints EXCEPT ![e] = r]
        /\ issued' = issued \cup {ChannelHandle(c, channels[c].generation, TRUE)} /\ exited' = exited
    BY <1>1, <1>3, <1>5, <2>1, <2>2, <2>3, <2>4, <2>6, Zenon DEF Accept, ChannelsInv
  <2>8. /\ r \in EndpointRecords /\ r.pending = Tail(s) /\ r.active = ep.active /\ r.owner = ep.owner
        /\ r.name = ep.name /\ r.generation = ep.generation
    <3>1. r = [ep EXCEPT !.pending = Tail(s)]
      BY <2>1, <2>3, <2>5 DEF EndpointRecords
    <3> QED BY <2>5, <2>6, <3>1 DEF EndpointRecords
  <2>9. EndpointOK(r, exited)
    <3>1. Len(s) \in Nat /\ Len(Tail(s)) \in Nat
      BY <2>5, <2>6, LenType, Zenon
    <3>2. Len(Tail(s)) <= MaxPending
      <4>1. Len(Tail(s)) <= Len(s) /\ Len(s) <= MaxPending
        BY <2>5, <2>6, Zenon
      <4> QED BY <3>1, <4>1, Capacities
    <3> QED BY <1>4, <2>6, <2>8, <3>2 DEF EndpointOK
  <2>10. ChannelOK(channels[c], exited) /\ channels[c] \in ChannelRecords
    BY <2>6 DEF ChannelsInv, ChannelOK, SidesOK
  <2>11. /\ ch \in ChannelRecords /\ ch.active = channels[c].active
         /\ ch.generation = channels[c].generation /\ ch.client = channels[c].client
         /\ ch.server = channels[c].server /\ ch.client_open = channels[c].client_open
         /\ ch.server_open = channels[c].server_open /\ ch.accepted = TRUE
         /\ ch.to_server = channels[c].to_server /\ ch.to_client = channels[c].to_client
    BY <2>4, <2>5, <2>10 DEF ChannelRecords
  <2>12. ChannelOK(ch, exited) /\ ~Waits(ch)
    BY <2>10, <2>11 DEF ChannelOK, SidesOK, Waits
  <2>13. /\ endpoints' = [f \in Endpoints |-> endpoints'[f]]
         /\ \A f \in Endpoints : endpoints'[f] = IF f = e THEN r ELSE endpoints[f]
    BY <1>2, <2>7 DEF ChannelsInv
  <2>14. /\ channels' = [d \in Channels |-> channels'[d]]
         /\ \A d \in Channels : channels'[d] = IF d = c THEN ch ELSE channels[d]
    BY <2>6, <2>7 DEF ChannelsInv
  <2>15. \A f \in Endpoints : EndpointOK(endpoints'[f], exited')
    BY <2>7, <2>9, <2>13 DEF ChannelsInv
  <2>16. \A d \in Channels : ChannelOK(channels'[d], exited')
    BY <2>7, <2>12, <2>14 DEF ChannelsInv
  <2>17. ASSUME NEW d \in Channels, Waits(channels'[d])
         PROVE  \E f \in Endpoints : QueuedAt(endpoints'[f], d, channels'[d])
    <3>1. d # c /\ channels'[d] = channels[d] /\ Waits(channels[d])
      BY <2>12, <2>14, <2>17
    <3>2. PICK f \in Endpoints : QueuedAt(endpoints[f], d, channels[d])
      BY <3>1 DEF ChannelsInv
    <3>3. CASE f = e
      <4>1. QueuedAt(ep, d, channels[d])
        BY <1>2, <1>3, <3>1, <3>2, <3>3, WaitingStays DEF ChannelsInv
      <4>2. QueuedAt(r, d, channels[d])
        BY <2>1, <2>6, <2>8, <3>1, <4>1 DEF QueuedAt
      <4> QED BY <1>2, <2>13, <3>1, <4>2
    <3>4. CASE f # e
      BY <2>13, <3>1, <3>2, <3>4
    <3> QED BY <3>3, <3>4
  <2>18. ASSUME NEW k \in issued' PROVE HandleOK(endpoints', channels', k)
    <3>1. CASE k \in issued
      <4>1. \A f \in Endpoints : endpoints'[f].generation = endpoints[f].generation
        BY <1>4, <2>8, <2>13
      <4>2. \A d \in Channels : channels'[d].generation = channels[d].generation
        BY <2>11, <2>14
      <4> QED BY <3>1, <4>1, <4>2 DEF ChannelsInv, HandleOK
    <3>2. CASE k = ChannelHandle(c, channels[c].generation, TRUE)
      <4>1. channels[c].generation \in 0..MaxConnects
        BY <2>10 DEF ChannelRecords
      <4>2. channels'[c].generation = channels[c].generation
        BY <2>6, <2>11, <2>14
      <4> QED BY <2>6, <3>2, <4>1, <4>2, Capacities DEF ChannelHandle, HandleOK
    <3> QED BY <2>7, <3>1, <3>2, Zenon
  <2> QED BY <2>7, <2>13, <2>14, <2>15, <2>16, <2>17, <2>18, Zenon DEF ChannelsInv
<1>6. CASE ep.pending = <<>>
  <2>1. /\ endpoints' = [endpoints EXCEPT ![e] = Compact(endpoints[e])]
        /\ UNCHANGED <<channels, exited, issued>>
    BY <1>1, <1>3, <1>6 DEF Accept
  <2> QED BY <1>2, <2>1, Compacted, Zenon
<1> QED BY <1>5, <1>6

\* send() and receive() move messages of the open sides only.
LEMMA SendOK ==
  ASSUME ChannelsInv, NEW p \in Live, NEW h \in issued, Send(p, h)
  PROVE  ChannelsInv'
<1>1. PICK c : c = h.index
  BY Zenon
<1>2. c \in Channels /\ h.server \in BOOLEAN
  BY <1>1 DEF Send, DecodesChannel, ChannelsInv, HandleOK
<1>3. PICK ch : ch = channels[c]
  BY Zenon
<1>4. PICK m : m = [sender |-> p, generation |-> ch.generation]
  BY Zenon
<1>5. ChannelOK(ch, exited) /\ ch \in ChannelRecords /\ Side(ch, h.server) = p
  BY <1>1, <1>2, <1>3 DEF Send, DecodesChannel, ChannelsInv, ChannelOK, SidesOK
<1>6. /\ ch.client \in Pids \cup {NoPid} /\ ch.server \in Pids \cup {NoPid}
      /\ ch.generation \in 0..MaxConnects /\ ch.to_server \in Seq(Messages) /\ ch.to_client \in Seq(Messages)
      /\ SentBy(ch.to_server, ch.client, ch.generation) /\ SentBy(ch.to_client, ch.server, ch.generation)
  BY <1>5 DEF ChannelRecords, ChannelOK, SidesOK
<1>7. CASE h.server
  <2>1. PICK q : q = Append(ch.to_client, m)
    BY Zenon
  <2>2. PICK r : r = [ch EXCEPT !.to_client = q]
    BY Zenon
  <2>3. q \in Seq(Messages) /\ SentBy(q, ch.server, ch.generation)
    BY <1>1, <1>3, <1>4, <1>5, <1>6, <1>7, <2>1, MessagesKept, Zenon DEF Send, Side
  <2>4. channels' = [channels EXCEPT ![c] = r] /\ UNCHANGED <<endpoints, exited, issued>>
    BY <1>1, <1>2, <1>3, <1>4, <1>7, <2>1, <2>2 DEF Send, ChannelsInv
  <2>5. /\ r \in ChannelRecords /\ r.to_client = q /\ r.to_server = ch.to_server /\ r.active = ch.active
        /\ r.client = ch.client /\ r.server = ch.server /\ r.generation = ch.generation
        /\ r.client_open = ch.client_open /\ r.server_open = ch.server_open
        /\ r.accepted = ch.accepted /\ r.service = ch.service
    BY <1>5, <2>2, <2>3 DEF ChannelRecords
  <2>6. ChannelOK(r, exited)
    BY <1>5, <2>3, <2>5 DEF ChannelOK, SidesOK
  <2> QED BY <1>2, <1>3, <2>4, <2>5, <2>6, ChannelReplaced, Zenon DEF Waits
<1>8. CASE ~h.server
  <2>1. PICK q : q = Append(ch.to_server, m)
    BY Zenon
  <2>2. PICK r : r = [ch EXCEPT !.to_server = q]
    BY Zenon
  <2>3. q \in Seq(Messages) /\ SentBy(q, ch.client, ch.generation)
    BY <1>1, <1>3, <1>4, <1>5, <1>6, <1>8, <2>1, MessagesKept, Zenon DEF Send, Side
  <2>4. channels' = [channels EXCEPT ![c] = r] /\ UNCHANGED <<endpoints, exited, issued>>
    BY <1>1, <1>2, <1>3, <1>4, <1>8, <2>1, <2>2 DEF Send, ChannelsInv
  <2>5. /\ r \in ChannelRecords /\ r.to_client = ch.to_client /\ r.to_server = q /\ r.active = ch.active
        /\ r.client = ch.client /\ r.server = ch.server /\ r.generation = ch.generation
        /\ r.client_open = ch.client_open /\ r.server_open = ch.server_open
        /\ r.accepted = ch.accepted /\ r.service = ch.service
    BY <1>5, <2>2, <2>3 DEF ChannelRecords
  <2>6. ChannelOK(r, exited)
    BY <1>5, <2>3, <2>5 DEF ChannelOK, SidesOK
  <2> QED BY <1>2, <1>3, <2>4, <2>5, <2>6, ChannelReplaced, Zenon DEF Waits
<1> QED BY <1>2, <1>7, <1>8

\* receive() takes a message from a queue of its own side.
LEMMA ReceiveOK ==
  ASSUME ChannelsInv, NEW p \in Live, NEW h \in issued, Receive(p, h)
  PROVE  ChannelsInv'
<1>1. PICK c : c = h.index
  BY Zenon
<1>2. c \in Channels /\ h.server \in BOOLEAN
  BY <1>1 DEF Receive, DecodesChannel, ChannelsInv, HandleOK
<1>3. PICK ch : ch = channels[c]
  BY Zenon
<1>4. ChannelOK(ch, exited) /\ ch \in ChannelRecords
  BY <1>2, <1>3 DEF ChannelsInv, ChannelOK, SidesOK
<1>5. /\ ch.client \in Pids \cup {NoPid} /\ ch.server \in Pids \cup {NoPid}
      /\ ch.generation \in 0..MaxConnects /\ ch.to_server \in Seq(Messages) /\ ch.to_client \in Seq(Messages)
      /\ SentBy(ch.to_server, ch.client, ch.generation) /\ SentBy(ch.to_client, ch.server, ch.generation)
  BY <1>4 DEF ChannelRecords, ChannelOK, SidesOK
<1>6. CASE h.server
  <2>1. PICK q : q = Tail(ch.to_server)
    BY Zenon
  <2>2. PICK r : r = [ch EXCEPT !.to_server = q]
    BY Zenon
  <2>3. q \in Seq(Messages) /\ SentBy(q, ch.client, ch.generation)
    BY <1>1, <1>3, <1>5, <1>6, <2>1, MessagesKept, Zenon DEF Receive
  <2>4. channels' = [channels EXCEPT ![c] = r] /\ UNCHANGED <<endpoints, exited, issued>>
    BY <1>1, <1>2, <1>3, <1>6, <2>1, <2>2 DEF Receive, ChannelsInv
  <2>5. /\ r \in ChannelRecords /\ r.to_client = ch.to_client /\ r.to_server = q /\ r.active = ch.active
        /\ r.client = ch.client /\ r.server = ch.server /\ r.generation = ch.generation
        /\ r.client_open = ch.client_open /\ r.server_open = ch.server_open
        /\ r.accepted = ch.accepted /\ r.service = ch.service
    BY <1>4, <2>2, <2>3 DEF ChannelRecords
  <2>6. ChannelOK(r, exited)
    BY <1>4, <2>3, <2>5 DEF ChannelOK, SidesOK
  <2> QED BY <1>2, <1>3, <2>4, <2>5, <2>6, ChannelReplaced, Zenon DEF Waits
<1>7. CASE ~h.server
  <2>1. PICK q : q = Tail(ch.to_client)
    BY Zenon
  <2>2. PICK r : r = [ch EXCEPT !.to_client = q]
    BY Zenon
  <2>3. q \in Seq(Messages) /\ SentBy(q, ch.server, ch.generation)
    BY <1>1, <1>3, <1>5, <1>7, <2>1, MessagesKept, Zenon DEF Receive
  <2>4. channels' = [channels EXCEPT ![c] = r] /\ UNCHANGED <<endpoints, exited, issued>>
    BY <1>1, <1>2, <1>3, <1>7, <2>1, <2>2 DEF Receive, ChannelsInv
  <2>5. /\ r \in ChannelRecords /\ r.to_client = q /\ r.to_server = ch.to_server /\ r.active = ch.active
        /\ r.client = ch.client /\ r.server = ch.server /\ r.generation = ch.generation
        /\ r.client_open = ch.client_open /\ r.server_open = ch.server_open
        /\ r.accepted = ch.accepted /\ r.service = ch.service
    BY <1>4, <2>2, <2>3 DEF ChannelRecords
  <2>6. ChannelOK(r, exited)
    BY <1>4, <2>3, <2>5 DEF ChannelOK, SidesOK
  <2> QED BY <1>2, <1>3, <2>4, <2>5, <2>6, ChannelReplaced, Zenon DEF Waits
<1> QED BY <1>2, <1>6, <1>7

\* close() of a channel frees it or leaves the other side open.
LEMMA CloseChannelOK ==
  ASSUME ChannelsInv, NEW p \in Live, NEW h \in issued, CloseChannel(p, h)
  PROVE  ChannelsInv'
<1>1. PICK c : c = h.index
  BY Zenon
<1>2. c \in Channels /\ h.server \in BOOLEAN /\ channels[c].active
  BY <1>1 DEF CloseChannel, DecodesChannel, ChannelsInv, HandleOK
<1>3. PICK ch : ch = channels[c]
  BY Zenon
<1>4. ChannelOK(ch, exited) /\ ch.active
  BY <1>2, <1>3 DEF ChannelsInv
<1>5. PICK r : r = MaybeFree(IF h.server THEN [ch EXCEPT !.server_open = FALSE] ELSE CloseClient(ch))
  BY Zenon
<1>6. channels' = [channels EXCEPT ![c] = r] /\ UNCHANGED <<endpoints, exited, issued>>
  BY <1>1, <1>3, <1>5 DEF CloseChannel
<1>7. ChannelOK(r, exited) /\ r.generation = ch.generation /\ ~Waits(r)
  <2>1. CASE h.server
    BY <1>4, <1>5, <2>1, ServerCloses
  <2>2. CASE ~h.server
    <3>1. r = MaybeFree(CloseClient(ch))
      BY <1>5, <2>2
    <3>2. /\ SidesOK(CloseClient(ch), exited) /\ CloseClient(ch).active
          /\ CloseClient(ch).generation = ch.generation /\ ~Waits(CloseClient(ch))
      BY <1>4, ClientCloses, Zenon
    <3> QED BY <3>1, <3>2, MaybeFreeOK
  <2> QED BY <1>2, <2>1, <2>2
<1> QED BY <1>2, <1>3, <1>6, <1>7, ChannelReplaced, Zenon

\* cancel_pending() leaves every channel in order, and those that still wait as
\* they were and out of the queues it went through.
LEMMA CancelOK ==
  ASSUME ChannelsInv, NEW S \in SUBSET Endpoints, NEW c \in Channels
  PROVE  /\ ChannelOK(CancelPending(S)[c], exited)
         /\ CancelPending(S)[c].generation = channels[c].generation
         /\ Waits(CancelPending(S)[c]) =>
              /\ CancelPending(S)[c] = channels[c]
              /\ \A e \in S : ~QueuedAt(endpoints[e], c, channels[c])
<1>1. PICK r : r = CancelPending(S)[c]
  BY Zenon
<1>2. ChannelOK(channels[c], exited)
  BY DEF ChannelsInv
<1>3. CASE \E e \in S : c \in Range(endpoints[e].pending) /\ PendingLive(channels, endpoints[e].owner, c)
  <2>1. r = MaybeFree([channels[c] EXCEPT !.server_open = FALSE]) /\ channels[c].active
    BY <1>1, <1>3, Zenon DEF CancelPending, PendingLive
  <2> QED BY <1>1, <1>2, <2>1, ServerCloses
<1>4. CASE ~\E e \in S : c \in Range(endpoints[e].pending) /\ PendingLive(channels, endpoints[e].owner, c)
  <2>1. r = channels[c]
    BY <1>1, <1>4, Zenon DEF CancelPending
  <2>2. ASSUME NEW e \in S, Waits(channels[c]), QueuedAt(endpoints[e], c, channels[c]) PROVE FALSE
    <3>1. /\ channels[c].server_open /\ ~channels[c].accepted /\ channels[c].server = endpoints[e].owner
          /\ channels[c].client_open /\ channels[c].active /\ c \in Range(endpoints[e].pending)
      BY <1>2, <2>2 DEF Waits, QueuedAt, ChannelOK, SidesOK
    <3> QED BY <1>4, <3>1, Zenon DEF PendingLive
  <2> QED BY <1>1, <1>2, <2>1, <2>2
<1> QED BY <1>3, <1>4

\* A free endpoint slot keeps its generation.
LEMMA FreeEndpointOK ==
  ASSUME NEW ep, NEW gone, EndpointOK(ep, gone), NEW more
  PROVE  /\ EndpointOK(FreeEndpoint(ep.generation), more)
         /\ FreeEndpoint(ep.generation).generation = ep.generation
<1>1. PICK g : g = ep.generation
  BY Zenon
<1>2. g \in Nat
  BY <1>1 DEF EndpointOK, EndpointRecords
<1>3. <<>> \in Seq(Channels) /\ Len(<<>>) = 0
  OBVIOUS
<1>4. IsInjective(<<>>)
  BY DEF IsInjective
<1>5. Unversioned \in Metadata
  BY DEF Metadata
<1>6. FreeEndpoint(g) \in EndpointRecords
  BY <1>2, <1>3, <1>5 DEF FreeEndpoint, EndpointRecords
<1>7. FreeEndpoint(g).active = FALSE /\ FreeEndpoint(g).pending = <<>> /\ FreeEndpoint(g).generation = g
  BY DEF FreeEndpoint
<1>8. Len(<<>>) <= MaxPending
  BY <1>3, Capacities
<1> QED BY <1>1, <1>4, <1>6, <1>7, <1>8 DEF EndpointOK

\* close() of an endpoint cancels what waits there, so nothing waits at an
\* endpoint that is gone.
LEMMA CloseEndpointOK ==
  ASSUME ChannelsInv, NEW p \in Live, NEW h \in issued, CloseEndpoint(p, h)
  PROVE  ChannelsInv'
<1>1. PICK e : e = h.index
  BY Zenon
<1>2. e \in Endpoints
  BY <1>1 DEF CloseEndpoint, DecodesEndpoint, ChannelsInv, HandleOK
<1>3. PICK r : r = FreeEndpoint(endpoints[e].generation)
  BY Zenon
<1>4. /\ channels' = CancelPending({e}) /\ endpoints' = [endpoints EXCEPT ![e] = r]
      /\ UNCHANGED <<exited, issued>>
  BY <1>1, <1>2, <1>3 DEF CloseEndpoint, ChannelsInv
<1>5. EndpointOK(r, exited) /\ r.generation = endpoints[e].generation
  BY <1>2, <1>3, FreeEndpointOK DEF ChannelsInv
<1>6. /\ endpoints' = [f \in Endpoints |-> endpoints'[f]]
      /\ \A f \in Endpoints : endpoints'[f] = IF f = e THEN r ELSE endpoints[f]
  BY <1>2, <1>4 DEF ChannelsInv
<1>7. channels' = [c \in Channels |-> channels'[c]]
  BY <1>4 DEF CancelPending
<1>8. ASSUME NEW c \in Channels
      PROVE  /\ ChannelOK(channels'[c], exited) /\ channels'[c].generation = channels[c].generation
             /\ Waits(channels'[c]) =>
                  channels'[c] = channels[c] /\ ~QueuedAt(endpoints[e], c, channels[c])
  BY <1>2, <1>4, CancelOK
<1>9. \A f \in Endpoints : EndpointOK(endpoints'[f], exited')
  BY <1>4, <1>5, <1>6 DEF ChannelsInv
<1>10. \A c \in Channels : ChannelOK(channels'[c], exited')
  BY <1>4, <1>8
<1>11. ASSUME NEW c \in Channels, Waits(channels'[c])
       PROVE  \E f \in Endpoints : QueuedAt(endpoints'[f], c, channels'[c])
  <2>1. channels'[c] = channels[c] /\ Waits(channels[c]) /\ ~QueuedAt(endpoints[e], c, channels[c])
    BY <1>8, <1>11
  <2>2. PICK f \in Endpoints : QueuedAt(endpoints[f], c, channels[c])
    BY <2>1 DEF ChannelsInv
  <2> QED BY <1>6, <2>1, <2>2
<1>12. \A k \in issued' : HandleOK(endpoints', channels', k)
  <2>1. \A f \in Endpoints : endpoints'[f].generation = endpoints[f].generation
    BY <1>5, <1>6
  <2>2. \A c \in Channels : channels'[c].generation = channels[c].generation
    BY <1>8
  <2> QED BY <1>4, <2>1, <2>2, Zenon DEF ChannelsInv, HandleOK
<1> QED BY <1>4, <1>6, <1>7, <1>9, <1>10, <1>11, <1>12, Zenon DEF ChannelsInv

\* release_process() leaves no endpoint and no open side of the process, and
\* nothing that waits for it.
LEMMA ReleaseChannelsOK ==
  ASSUME ChannelsInv, NEW p \in Live, ReleaseChannels(p)
  PROVE  ChannelsInv'
<1>1. PICK C : C = CancelPending(Owned(p))
  BY Zenon
<1>2. /\ exited' = exited \cup {p} /\ issued' = issued
      /\ channels' = [c \in Channels |-> ReleaseSide(C[c], p)]
      /\ endpoints' = [e \in Endpoints |->
           IF e \in Owned(p) THEN FreeEndpoint(endpoints[e].generation) ELSE endpoints[e]]
  BY <1>1 DEF ReleaseChannels
<1>3. Owned(p) \in SUBSET Endpoints
  BY DEF Owned
<1>4. ASSUME NEW c \in Channels
      PROVE  /\ ChannelOK(channels'[c], exited') /\ channels'[c].generation = channels[c].generation
             /\ Waits(channels'[c]) => channels'[c] = channels[c] /\ channels[c].server # p
  <2>1. /\ ChannelOK(C[c], exited) /\ C[c].generation = channels[c].generation
        /\ Waits(C[c]) => C[c] = channels[c]
    BY <1>1, <1>3, CancelOK
  <2>2. channels'[c] = ReleaseSide(C[c], p)
    BY <1>2
  <2>3. /\ ChannelOK(channels'[c], exited') /\ channels'[c].generation = C[c].generation
        /\ Waits(channels'[c]) => channels'[c] = C[c] /\ C[c].server # p
    BY <1>2, <2>1, <2>2, ReleaseSideOK
  <2>4. Waits(channels'[c]) => Waits(C[c])
    BY <2>3
  <2> QED BY <2>1, <2>3, <2>4
<1>5. ASSUME NEW e \in Endpoints
      PROVE  EndpointOK(endpoints'[e], exited') /\ endpoints'[e].generation = endpoints[e].generation
  <2>1. EndpointOK(endpoints[e], exited)
    BY DEF ChannelsInv
  <2>2. CASE e \in Owned(p)
    BY <1>2, <2>1, <2>2, FreeEndpointOK
  <2>3. CASE e \notin Owned(p)
    <3>1. endpoints'[e] = endpoints[e]
      BY <1>2, <2>3
    <3>2. endpoints[e].active => endpoints[e].owner # p
      BY <2>3 DEF Owned
    <3> QED BY <1>2, <2>1, <3>1, <3>2 DEF EndpointOK
  <2> QED BY <2>2, <2>3
<1>6. ASSUME NEW c \in Channels, Waits(channels'[c])
      PROVE  \E f \in Endpoints : QueuedAt(endpoints'[f], c, channels'[c])
  <2>1. channels'[c] = channels[c] /\ channels[c].server # p /\ Waits(channels[c])
    BY <1>4, <1>6
  <2>2. PICK f \in Endpoints : QueuedAt(endpoints[f], c, channels[c])
    BY <2>1 DEF ChannelsInv
  <2>3. f \notin Owned(p)
    BY <2>1, <2>2 DEF Owned, QueuedAt
  <2>4. endpoints'[f] = endpoints[f]
    BY <1>2, <2>3
  <2> QED BY <2>1, <2>2, <2>4
<1>7. \A k \in issued' : HandleOK(endpoints', channels', k)
  BY <1>2, <1>4, <1>5 DEF ChannelsInv, HandleOK
<1>8. exited' \subseteq Pids
  BY <1>2 DEF ChannelsInv, Live
<1>9. /\ endpoints' = [e \in Endpoints |-> endpoints'[e]]
      /\ channels' = [c \in Channels |-> channels'[c]]
  BY <1>2
<1> QED BY <1>4, <1>5, <1>6, <1>7, <1>8, <1>9 DEF ChannelsInv

-------------------------------------------------------------------------------
\* connect() selects the newest version that both sides speak.
LEMMA NegotiateOK ==
  ASSUME NEW m \in Metadata, m # Unversioned, NEW lo \in Versions, NEW hi \in Versions, lo <= hi
  PROVE  LET common == {v \in lo..hi : m.minimum <= v /\ v <= m.service}
         IN  Negotiate(m, lo, hi) = IF common = {} THEN 0 ELSE Max(common)
<1> DEFINE common == {v \in lo..hi : m.minimum <= v /\ v <= m.service}
           lower == IF lo > m.minimum THEN lo ELSE m.minimum
           upper == IF hi < m.service THEN hi ELSE m.service
<1>1. m.minimum \in Nat /\ m.service \in Nat /\ lo \in Nat /\ hi \in Nat /\ m.minimum <= m.service
  <2>1. m \in {x \in [service : Versions, minimum : Versions] : x.minimum <= x.service}
    BY DEF Metadata
  <2>2. m.minimum \in Versions /\ m.service \in Versions /\ m.minimum <= m.service
    BY <2>1
  <2> QED BY <2>2, Capacities, Zenon
<1>2. \A v : v \in common <=> v \in Nat /\ lower <= v /\ v <= upper
  BY <1>1
<1>3. lower \in Nat /\ upper \in Nat
  BY <1>1
<1>4. Negotiate(m, lo, hi) = IF lower > upper THEN 0 ELSE upper
  BY DEF Negotiate
<1> HIDE DEF common, lower, upper
<1>5. CASE lower > upper
  <2>1. common = {}
    BY <1>2, <1>3, <1>5
  <2> QED BY <1>4, <1>5, <2>1 DEF common
<1>6. CASE ~(lower > upper)
  <2>1. upper \in common /\ \A v \in common : v \in Nat /\ upper >= v
    BY <1>2, <1>3, <1>6
  <2>2. Max(common) \in common /\ \A v \in common : Max(common) >= v
    BY <2>1, Zenon DEF Max
  <2>3. Max(common) \in Nat /\ Max(common) >= upper /\ upper >= Max(common)
    BY <2>1, <2>2, Zenon
  <2>4. Max(common) = upper
    BY <1>3, <2>3
  <2>5. common # {}
    BY <2>1, Zenon
  <2> QED BY <1>4, <1>6, <2>4, <2>5 DEF common
<1> QED BY <1>5, <1>6

\* The tables start free.
LEMMA ChannelsInvInit == Init => ChannelsInv
<1> SUFFICES ASSUME Init PROVE ChannelsInv
  OBVIOUS
<1>1. <<>> \in Seq(Channels) /\ <<>> \in Seq(Messages) /\ Len(<<>>) = 0
  OBVIOUS
<1>2. IsInjective(<<>>)
  BY DEF IsInjective
<1>3. Unversioned \in Metadata
  BY DEF Metadata
<1>4. FreeEndpoint(0) \in EndpointRecords
  BY <1>1, <1>3 DEF FreeEndpoint, EndpointRecords
<1>5. FreeEndpoint(0).active = FALSE /\ FreeEndpoint(0).pending = <<>>
  BY DEF FreeEndpoint
<1>6. Len(<<>>) <= MaxPending /\ 0 \in 0..MaxConnects
  BY <1>1, Capacities
<1>7. EndpointOK(FreeEndpoint(0), {})
  BY <1>2, <1>4, <1>5, <1>6 DEF EndpointOK
<1>8. FreeChannel(0) \in ChannelRecords
  BY <1>1, <1>6 DEF FreeChannel, ChannelRecords
<1>9. ChannelOK(FreeChannel(0), {}) /\ ~Waits(FreeChannel(0))
  BY <1>8, NoneSent DEF ChannelOK, SidesOK, FreeChannel, Waits
<1> QED BY <1>7, <1>9 DEF Init, ChannelsInv

\* Every call keeps the invariant.
LEMMA ChannelsInvNext == ChannelsInv /\ [Next]_vars => ChannelsInv'
<1> SUFFICES ASSUME ChannelsInv, [Next]_vars PROVE ChannelsInv'
  OBVIOUS
<1>1. CASE UNCHANGED vars
  BY <1>1 DEF vars, ChannelsInv, HandleOK
<1>2. CASE Next
  <2>1. PICK p \in Live :
          \/ \E n \in Names, m \in Metadata : Bind(p, n, m)
          \/ \E n \in Names, r \in Ranges : Connect(p, n, r)
          \/ \E h \in issued : Accept(p, h)
          \/ \E h \in issued : Send(p, h)
          \/ \E h \in issued : Receive(p, h)
          \/ \E h \in issued : CloseEndpoint(p, h)
          \/ \E h \in issued : CloseChannel(p, h)
          \/ ReleaseChannels(p)
    BY <1>2, Zenon DEF Next
  <2>2. ASSUME NEW n \in Names, NEW m \in Metadata, Bind(p, n, m) PROVE ChannelsInv'
    BY <2>2, BindOK
  <2>3. ASSUME NEW n \in Names, NEW r \in Ranges, Connect(p, n, r) PROVE ChannelsInv'
    BY <2>3, ConnectOK
  <2>4. ASSUME NEW h \in issued, Accept(p, h) PROVE ChannelsInv'
    BY <2>4, AcceptOK
  <2>5. ASSUME NEW h \in issued, Send(p, h) PROVE ChannelsInv'
    BY <2>5, SendOK
  <2>6. ASSUME NEW h \in issued, Receive(p, h) PROVE ChannelsInv'
    BY <2>6, ReceiveOK
  <2>7. ASSUME NEW h \in issued, CloseEndpoint(p, h) PROVE ChannelsInv'
    BY <2>7, CloseEndpointOK
  <2>8. ASSUME NEW h \in issued, CloseChannel(p, h) PROVE ChannelsInv'
    BY <2>8, CloseChannelOK
  <2>9. ASSUME ReleaseChannels(p) PROVE ChannelsInv'
    BY <2>9, ReleaseChannelsOK
  <2> QED BY <2>1, <2>2, <2>3, <2>4, <2>5, <2>6, <2>7, <2>8, <2>9, Zenon
<1> QED BY <1>1, <1>2

\* The invariant says what the processes rely on.
LEMMA InvGivesChannels == ChannelsInv => ChannelsExact
<1> SUFFICES ASSUME ChannelsInv PROVE ChannelsExact
  OBVIOUS
<1>1. ASSUME NEW e \in Endpoints
      PROVE  /\ endpoints[e].generation \in Nat /\ endpoints[e].owner \in Pids \cup {NoPid}
             /\ endpoints[e].pending \in Seq(Channels) /\ Len(endpoints[e].pending) <= MaxPending
             /\ endpoints[e].metadata \in Metadata /\ IsInjective(endpoints[e].pending)
             /\ endpoints[e].active => endpoints[e].owner \notin exited
  <2>1. EndpointOK(endpoints[e], exited)
    BY DEF ChannelsInv
  <2> QED BY <2>1 DEF EndpointOK, EndpointRecords
<1>2. ASSUME NEW c \in Channels
      PROVE  /\ channels[c].generation \in 0..MaxConnects
             /\ {channels[c].client, channels[c].server} \subseteq Pids \cup {NoPid}
             /\ channels[c].to_server \in Seq(Messages) /\ channels[c].to_client \in Seq(Messages)
             /\ Len(channels[c].to_server) <= MaxMessages /\ Len(channels[c].to_client) <= MaxMessages
  <2>1. ChannelOK(channels[c], exited)
    BY DEF ChannelsInv
  <2> QED BY <2>1 DEF ChannelOK, SidesOK, ChannelRecords, SentBy
<1>3. TypeOK
  BY <1>1, <1>2 DEF TypeOK, ChannelsInv
<1>4. ASSUME NEW c \in Channels, channels[c].active
      PROVE  /\ channels[c].client_open \/ channels[c].server_open
             /\ channels[c].client_open => channels[c].client \notin exited
             /\ channels[c].server_open => channels[c].server \notin exited
             /\ channels[c].server_open /\ ~channels[c].accepted => channels[c].client_open
  <2>1. ChannelOK(channels[c], exited)
    BY DEF ChannelsInv
  <2> QED BY <1>4, <2>1 DEF ChannelOK, SidesOK
<1>5. ASSUME NEW c \in Channels, channels[c].server_open, ~channels[c].accepted
      PROVE  \E e \in Bound(channels[c].service) :
               /\ endpoints[e].owner = channels[c].server
               /\ Cardinality({i \in 1..Len(endpoints[e].pending) : endpoints[e].pending[i] = c}) = 1
  <2>1. PICK e \in Endpoints : QueuedAt(endpoints[e], c, channels[c])
    BY <1>5 DEF ChannelsInv, Waits
  <2>2. PICK s : s = endpoints[e].pending
    BY Zenon
  <2>3. s \in Seq(Channels) /\ IsInjective(s) /\ c \in Range(s)
    BY <1>1, <2>1, <2>2 DEF QueuedAt
  <2>4. DOMAIN s = 1..Len(s)
    BY <2>3
  <2>5. PICK i \in 1..Len(s) : s[i] = c
    BY <2>3, <2>4, Zenon DEF Range
  <2>6. {j \in 1..Len(s) : s[j] = c} = {i}
    BY <2>3, <2>4, <2>5, Zenon DEF IsInjective
  <2>7. Cardinality({j \in 1..Len(s) : s[j] = c}) = 1
    BY <2>6, FS_Singleton, Zenon
  <2> QED BY <2>1, <2>2, <2>7, Zenon DEF QueuedAt, Bound
<1>6. EveryOpenSideReachable
  BY <1>1, <1>3, <1>4, <1>5 DEF EveryOpenSideReachable
<1>7. ASSUME NEW c \in Channels
      PROVE  /\ Range(channels[c].to_server) \subseteq
                  {[sender |-> channels[c].client, generation |-> channels[c].generation]}
             /\ Range(channels[c].to_client) \subseteq
                  {[sender |-> channels[c].server, generation |-> channels[c].generation]}
  <2>1. /\ SentBy(channels[c].to_server, channels[c].client, channels[c].generation)
        /\ SentBy(channels[c].to_client, channels[c].server, channels[c].generation)
    BY DEF ChannelsInv, ChannelOK, SidesOK
  <2>2. /\ DOMAIN channels[c].to_server = 1..Len(channels[c].to_server)
        /\ DOMAIN channels[c].to_client = 1..Len(channels[c].to_client)
    BY <1>2
  <2> QED BY <2>1, <2>2, Zenon DEF SentBy, Range
<1>8. MessagesFromPeer
  BY <1>7 DEF MessagesFromPeer, ChannelsInv, HandleOK
<1>9. NegotiationIsNewestCommon
  BY <1>1, NegotiateOK, Zenon DEF NegotiationIsNewestCommon
<1> QED BY <1>6, <1>8, <1>9 DEF ChannelsExact

\* In whatever order processes bind, connect, accept, send, close and exit, every
\* open side can be reached, every message is the peer's, and the version spoken
\* is the newest common one.
THEOREM ChannelsStayExact == Spec => []ChannelsExact
<1>1. Spec => []ChannelsInv
  BY ChannelsInvInit, ChannelsInvNext, PTL DEF Spec
<1> QED BY <1>1, InvGivesChannels, PTL

\* Closing an endpoint changes no channel that was accepted: of the calls only
\* close() of an endpoint makes one inactive without an exit, and what it cancels
\* was not accepted.
THEOREM AcceptedChannelsSurvive == Spec => AcceptedSurviveEndpointClose
<1> DEFINE Survive ==
      (\E e \in Endpoints : endpoints[e].active /\ ~endpoints'[e].active) /\ exited' = exited =>
         \A c \in Channels : channels[c].accepted => channels'[c] = channels[c]
<1>1. ASSUME ChannelsInv, [Next]_vars PROVE [Survive]_vars
  <2> SUFFICES ASSUME Next, NEW e \in Endpoints, endpoints[e].active, ~endpoints'[e].active,
                      exited' = exited, NEW c \in Channels, channels[c].accepted
               PROVE  channels'[c] = channels[c]
    BY <1>1 DEF vars
  <2>1. PICK p \in Live :
          \/ \E n \in Names, m \in Metadata : Bind(p, n, m)
          \/ \E n \in Names, r \in Ranges : Connect(p, n, r)
          \/ \E h \in issued : Accept(p, h)
          \/ \E h \in issued : Send(p, h)
          \/ \E h \in issued : Receive(p, h)
          \/ \E h \in issued : CloseEndpoint(p, h)
          \/ \E h \in issued : CloseChannel(p, h)
          \/ ReleaseChannels(p)
    BY Zenon DEF Next
  <2>2. EndpointOK(endpoints[e], exited) /\ DOMAIN endpoints = Endpoints
    BY <1>1 DEF ChannelsInv
  <2>3. ASSUME NEW n \in Names, NEW m \in Metadata, Bind(p, n, m) PROVE FALSE
    <3>1. PICK f, g : endpoints' = [endpoints EXCEPT ![f] =
            [FreeEndpoint(g) EXCEPT !.active = TRUE, !.owner = p, !.name = n, !.metadata = m]]
      BY <2>3, Zenon DEF Bind
    <3>2. PICK r : r = [FreeEndpoint(g) EXCEPT !.active = TRUE, !.owner = p, !.name = n, !.metadata = m]
      BY Zenon
    <3>3. r.active
      BY <3>2 DEF FreeEndpoint
    <3>4. endpoints' = [endpoints EXCEPT ![f] = r]
      BY <3>1, <3>2
    <3> QED BY <2>2, <3>3, <3>4
  <2>4. ASSUME NEW f,
               \/ endpoints' = [endpoints EXCEPT ![f] = Compact(endpoints[f])]
               \/ \E x : endpoints' = [endpoints EXCEPT ![f] = [Compact(endpoints[f]) EXCEPT !.pending = x]]
        PROVE  FALSE
    <3>1. PICK k : k = Compact(endpoints[e])
      BY Zenon
    <3>2. k \in EndpointRecords /\ k.active
      BY <2>2, <3>1, CompactOK, Zenon DEF EndpointOK
    <3>3. \A x : [k EXCEPT !.pending = x].active
      BY <3>2 DEF EndpointRecords
    <3>4. f = e
      BY <2>2, <2>4
    <3>5. endpoints'[e] = k \/ \E x : endpoints'[e] = [k EXCEPT !.pending = x]
      BY <2>2, <2>4, <3>1, <3>4, Zenon
    <3> QED BY <3>2, <3>3, <3>5, Zenon
  <2>5. ASSUME NEW n \in Names, NEW r \in Ranges, Connect(p, n, r) PROVE FALSE
    <3>1. PICK f \in Endpoints :
            \/ endpoints' = [endpoints EXCEPT ![f] = Compact(endpoints[f])]
            \/ endpoints' = [endpoints EXCEPT ![f] =
                 [Compact(endpoints[f]) EXCEPT !.pending = Append(@, FirstFree(channels))]]
      BY <2>5, Zenon DEF Connect, Bound
    <3> QED BY <2>4, <3>1, Zenon
  <2>6. ASSUME NEW h \in issued, Accept(p, h) PROVE FALSE
    <3>1. PICK f :
            \/ endpoints' = [endpoints EXCEPT ![f] = Compact(endpoints[f])]
            \/ endpoints' = [endpoints EXCEPT ![f] = [Compact(endpoints[f]) EXCEPT !.pending = Tail(@)]]
      BY <2>6, Zenon DEF Accept
    <3> QED BY <2>4, <3>1
  <2>7. ASSUME NEW h \in issued, Send(p, h) \/ Receive(p, h) \/ CloseChannel(p, h) PROVE FALSE
    BY <2>7 DEF Send, Receive, CloseChannel
  <2>8. ASSUME NEW h \in issued, CloseEndpoint(p, h) PROVE channels'[c] = channels[c]
    BY <2>8 DEF CloseEndpoint, CancelPending, PendingLive
  <2>9. ASSUME ReleaseChannels(p) PROVE FALSE
    BY <2>9 DEF ReleaseChannels, Live
  <2> QED BY <2>1, <2>3, <2>5, <2>6, <2>7, <2>8, <2>9, Zenon
<1>2. Spec => []ChannelsInv
  BY ChannelsInvInit, ChannelsInvNext, PTL DEF Spec
<1>3. AcceptedSurviveEndpointClose <=> [][Survive]_vars
  BY DEF AcceptedSurviveEndpointClose
<1> HIDE DEF Survive
<1> QED BY <1>1, <1>2, <1>3, PTL DEF Spec
===============================================================================
