------------------------ MODULE MdnsDiscovery_proofs ------------------------
(***************************************************************************)
(* Theorems about discovery, for any cameras, interfaces, shapes of the    *)
(* answers and bounds.                                                     *)
(***************************************************************************)
EXTENDS MdnsDiscovery, FiniteSetTheorems, WellFoundedInduction, TLAPS

------------------------------------------------------------------------------
(* The inductive invariant.                                                *)

Datagram == [cam : Cameras, shape : Shapes, id : Nat]

\* What is kept for each socket.
PerSocket(S) == UNION {[D -> S] : D \in SUBSET DOMAIN Interfaces}

Queries ==
  [at : {"none", "loop", "select", "parse", "insert", "done"},
   sockets : PerSocket({IPv4, IPv6}), id : PerSocket(1..MaxQueries),
   inbox : PerSocket(Seq(Datagram)), answered : SUBSET (Cameras \X DOMAIN Interfaces),
   ready : SUBSET DOMAIN Interfaces, from : {IPv4, IPv6}, work : Seq(RecordType),
   msg : Datagram \cup {None}, cur : MdnsRecord, curId : 0..MaxQueries,
   nextId : 1..(MaxQueries + 1)]

Mains ==
  [at : {"unloaded", "ready", "iter", "formatted", "cleared", "joining", "stopped"},
   iter : SUBSET Cameras, now : 0..MaxTime, cursor : Cameras \cup {None},
   listed : SUBSET [name : Cameras, addr : Address]]

Typed ==
  /\ q \in Queries /\ main \in Mains
  /\ running \in BOOLEAN
  /\ records \in [Cameras -> MdnsRecord \cup {None}]
  /\ addrbuf \in Address \cup {None}
  /\ clock \in 0..MaxTime
  /\ heard \in [Cameras -> Nat \cup {None}]
  /\ raced \subseteq Cameras

\* Every query has an id of its own, later than that of the current record.
Numbered ==
  /\ DOMAIN q.id = DOMAIN q.sockets /\ DOMAIN q.inbox = DOMAIN q.sockets
  /\ q.ready \subseteq DOMAIN q.sockets /\ \A n \in q.ready : q.inbox[n] # <<>>
  /\ q.at \in {"none", "loop", "done"} => q.ready = {}
  /\ \A n, m \in DOMAIN q.sockets : q.id[n] = q.id[m] => n = m
  /\ \A n \in DOMAIN q.sockets : q.id[n] < q.nextId
  /\ q.curId < q.nextId

\* The addresses of the current record are of the family of the socket whose
\* query it answers, so a record has those of one family.
OneFamily ==
  \A n \in DOMAIN q.sockets : q.id[n] = q.curId =>
    /\ q.cur.has_a => q.sockets[n] = IPv4
    /\ q.cur.has_aaaa => q.sockets[n] = IPv6

\* The datagram that is parsed answers a query of this round, and past its PTR
\* the current record is about its camera.
Own(r, c) ==
  /\ r.has_a \/ r.has_aaaa
  /\ r.has_a => r.a \in Address /\ r.a.cam = c
  /\ r.has_aaaa => r.aaaa \in Address /\ r.aaaa.cam = c

OfMessage == q.curId = q.msg.id /\ q.cur.has_ptr /\ q.cur.ptr = q.msg.cam

Parsing ==
  /\ q.at \in {"parse", "insert"} =>
       /\ q.msg \in Datagram
       /\ \E n \in DOMAIN q.sockets : q.id[n] = q.msg.id /\ q.sockets[n] = q.from
  /\ q.at = "parse" => q.work # <<>> /\ (Head(q.work) = "PTR" \/ OfMessage)
  /\ q.at = "insert" => OfMessage /\ Own(q.cur, q.msg.cam) /\ q.cur.last >= Ttl

\* The table, and what was heard of the cameras in it until it is cleared.
Table == \A c \in Cameras : records[c] # None => Own(records[c], c)

Heard ==
  /\ main.at = "unloaded" => q.at = "none" /\ \A c \in Cameras : heard[c] = None
  /\ main.at \in {"ready", "iter", "formatted"} =>
       \A c \in Cameras :
         /\ heard[c] = None <=> records[c] = None
         /\ records[c] # None => records[c].last = heard[c] + Ttl

\* The iterator has listed the cameras that it has passed and that have not
\* expired; the camera it is at has an address.
Current(c) == records[c] # None /\ records[c].last >= main.now

Iterating ==
  /\ main.at \in {"iter", "formatted"} =>
       /\ \A c \in main.iter : records[c] # None
       /\ \A c \in Cameras :
            (\E i \in main.listed : i.name = c) <=> c \notin main.iter /\ Current(c)
  /\ main.at = "formatted" =>
       /\ main.cursor \in main.iter /\ Current(main.cursor)
       /\ addrbuf \in Address
       /\ addrbuf.cam = main.cursor \/ main.cursor \in raced
  /\ main.at \notin {"iter", "formatted"} => main.listed = {}
  /\ \A i \in main.listed : i.addr.cam = i.name \/ i.name \in raced

Inv == Typed /\ Numbered /\ OneFamily /\ Parsing /\ Table /\ Heard /\ Iterating

------------------------------------------------------------------------------
(* Sockets and records.                                                    *)

LEMMA Bounds ==
  /\ MaxSockets \in Nat /\ Ttl \in Nat /\ MaxTime \in Nat /\ MaxQueries \in Nat
  /\ IPv4 # IPv6
BY MdnsAssumption DEF IPv4, IPv6

LEMMA Least ==
  ASSUME NEW S \in SUBSET Nat, S # {}
  PROVE  \E k \in S : \A j \in S : k <= j
<1> DEFINE R == OpToRel(<, Nat)
<1>1. IsWellFoundedOn(R, Nat)
  BY NatLessThanWellFounded
<1>2. \A x, y \in Nat : x < y => <<x, y>> \in R
  BY DEF OpToRel
<1> HIDE DEF R
<1>3. PICK k \in S : \A j \in S : ~(<<j, k>> \in R)
  BY <1>1, WFMin
<1>4. \A j \in S : ~(j < k) /\ j \in Nat /\ k \in Nat
  BY <1>2, <1>3
<1>5. \A j \in S : k <= j
  BY <1>4
<1> QED
  BY <1>5

LEMMA PerSocketIs ==
  ASSUME NEW S, NEW f
  PROVE  f \in PerSocket(S) <=>
           /\ DOMAIN f \subseteq DOMAIN Interfaces
           /\ f \in [DOMAIN f -> S]
<1>1. ASSUME f \in PerSocket(S)
      PROVE  DOMAIN f \subseteq DOMAIN Interfaces /\ f \in [DOMAIN f -> S]
  <2>1. PICK D \in SUBSET DOMAIN Interfaces : f \in [D -> S]
    BY <1>1 DEF PerSocket
  <2>2. DOMAIN f = D
    BY <2>1
  <2> QED
    BY <2>1, <2>2
<1>2. ASSUME DOMAIN f \subseteq DOMAIN Interfaces, f \in [DOMAIN f -> S]
      PROVE  f \in PerSocket(S)
  <2> DEFINE D == DOMAIN f
  <2>1. D \in SUBSET DOMAIN Interfaces /\ f \in [D -> S]
    BY <1>2
  <2> HIDE DEF D
  <2> QED
    BY <2>1 DEF PerSocket
<1> QED
  BY <1>1, <1>2

LEMMA NoSockets == ASSUME NEW S PROVE <<>> \in PerSocket(S) /\ DOMAIN <<>> = {}
<1>1. DOMAIN <<>> = {} /\ <<>> \in [DOMAIN <<>> -> S]
  OBVIOUS
<1> QED
  BY <1>1, PerSocketIs

\* Positions number the members of a set.
LEMMA Positions ==
  ASSUME NEW D \in SUBSET DOMAIN Interfaces
  PROVE  /\ Cardinality(D) \in Nat
         /\ \A n \in D : Position(n, D) \in 1..Cardinality(D)
         /\ \A n, m \in D : Position(n, D) = Position(m, D) => n = m
<1> DEFINE Upto(n) == {m \in D : m <= n}
<1>1. DOMAIN Interfaces = 1..Len(Interfaces) /\ Len(Interfaces) \in Nat
  BY MdnsAssumption
<1>2. IsFiniteSet(D) /\ D \subseteq Nat
  <2>1. IsFiniteSet(1..Len(Interfaces))
    BY <1>1, FS_Interval
  <2> QED
    BY <1>1, <2>1, FS_Subset
<1>3. Cardinality(D) \in Nat
  BY <1>2, FS_CardinalityType
<1>4. \A n \in D : /\ Upto(n) \subseteq D /\ n \in Upto(n)
                   /\ IsFiniteSet(Upto(n)) /\ Cardinality(Upto(n)) \in Nat
                   /\ Cardinality(Upto(n)) <= Cardinality(D)
                   /\ Position(n, D) = Cardinality(Upto(n))
  <2> SUFFICES ASSUME NEW n \in D
               PROVE  /\ Upto(n) \subseteq D /\ n \in Upto(n)
                      /\ IsFiniteSet(Upto(n)) /\ Cardinality(Upto(n)) \in Nat
                      /\ Cardinality(Upto(n)) <= Cardinality(D)
                      /\ Position(n, D) = Cardinality(Upto(n))
    OBVIOUS
  <2>1. Upto(n) \subseteq D /\ n \in Upto(n) /\ Position(n, D) = Cardinality(Upto(n))
    BY <1>2 DEF Position
  <2>2. IsFiniteSet(Upto(n)) /\ Cardinality(Upto(n)) <= Cardinality(D)
    BY <1>2, <2>1, FS_Subset
  <2> QED
    BY <2>1, <2>2, FS_CardinalityType
<1>5. \A n \in D : Position(n, D) \in 1..Cardinality(D)
  <2> SUFFICES ASSUME NEW n \in D PROVE Position(n, D) \in 1..Cardinality(D)
    OBVIOUS
  <2>1. Cardinality(Upto(n)) # 0
    <3>1. Upto(n) # {} /\ IsFiniteSet(Upto(n))
      BY <1>4
    <3> HIDE DEF Upto
    <3> QED
      BY <3>1, FS_EmptySet
  <2> QED
    BY <1>3, <1>4, <2>1
<1>6. ASSUME NEW n \in D, NEW m \in D, n < m PROVE Position(n, D) # Position(m, D)
  <2>1. Upto(n) \subseteq Upto(m) /\ m \notin Upto(n) /\ m \in Upto(m)
    BY <1>2, <1>6
  <2>2. IsFiniteSet(Upto(m)) /\ Upto(n) # Upto(m)
    BY <1>4, <2>1
  <2>3. Position(n, D) = Cardinality(Upto(n)) /\ Position(m, D) = Cardinality(Upto(m))
    BY <1>4
  <2> HIDE DEF Upto
  <2> QED
    BY <2>1, <2>2, <2>3, FS_Subset
<1>7. \A n, m \in D : Position(n, D) = Position(m, D) => n = m
  BY <1>2, <1>6
<1> QED
  BY <1>3, <1>5, <1>7

LEMMA Opened ==
  ASSUME NEW failing
  PROVE  open_client_sockets(failing) \in PerSocket({IPv4, IPv6})
<1> DEFINE open == {n \in DOMAIN Interfaces :
                      LET i == Interfaces[n]
                      IN  /\ IF Windows THEN UsableWindows(i) ELSE UsablePosix(i)
                          /\ \/ mdns_socket_open_ipv4(i, failing)
                             \/ mdns_socket_open_ipv6(i, failing)}
           D == {k \in open : Position(k, open) <= MaxSockets}
           f == [n \in D |-> Interfaces[n].fam]
<1>1. open_client_sockets(failing) = f
  BY DEF open_client_sockets
<1>2. \A n \in open : n \in DOMAIN Interfaces /\ Interfaces[n].fam \in {IPv4, IPv6}
  BY DEF mdns_socket_open_ipv4, mdns_socket_open_ipv6
<1> HIDE DEF open
<1>3. D \subseteq DOMAIN Interfaces /\ \A n \in D : Interfaces[n].fam \in {IPv4, IPv6}
  BY <1>2
<1> HIDE DEF D
<1>4. DOMAIN f = D /\ f \in [D -> {IPv4, IPv6}]
  BY <1>3
<1> HIDE DEF f
<1> QED
  BY <1>1, <1>3, <1>4, PerSocketIs

LEMMA Addresses ==
  ASSUME NEW d \in Datagram
  PROVE  /\ d.cam \in Cameras /\ mdns_record_parse_ptr(d) = d.cam
         /\ mdns_record_parse_a(d) \in Address /\ mdns_record_parse_a(d).cam = d.cam
         /\ mdns_record_parse_aaaa(d) \in Address /\ mdns_record_parse_aaaa(d).cam = d.cam
BY DEF Datagram, Address, mdns_record_parse_ptr, mdns_record_parse_a, mdns_record_parse_aaaa

LEMMA Renewed ==
  ASSUME NEW r \in MdnsRecord, NEW same \in BOOLEAN
  PROVE  LET n == NewTransaction(r, same)
         IN  /\ n \in MdnsRecord
             /\ same => n = r
             /\ ~same => ~n.has_ptr /\ ~n.has_a /\ ~n.has_aaaa
BY DEF NewTransaction, MdnsRecord

\* The current record after a PTR, an address of the socket's family, and anything
\* else, when n is what it starts from.
Outcome(x, n, t, d, from) ==
  /\ x.cur \in MdnsRecord /\ x.store \in BOOLEAN
  /\ t = "PTR" => /\ ~x.store /\ x.cur.has_ptr /\ x.cur.ptr = d.cam
                  /\ x.cur.has_a = n.has_a /\ x.cur.has_aaaa = n.has_aaaa
  /\ x.store => /\ t # "PTR" /\ x.cur.has_ptr /\ x.cur.ptr = n.ptr
                /\ x.cur.last >= Ttl
                /\ from = IPv4 => /\ x.cur.has_a /\ x.cur.a \in Address
                                  /\ x.cur.a.cam = d.cam
                                  /\ x.cur.has_aaaa = n.has_aaaa
                /\ from = IPv6 => /\ x.cur.has_aaaa /\ x.cur.aaaa \in Address
                                  /\ x.cur.aaaa.cam = d.cam
                                  /\ x.cur.has_a = n.has_a
  /\ t # "PTR" /\ ~x.store => x.cur = n

LEMMA ParsedIs ==
  ASSUME clock \in 0..MaxTime, NEW t \in RecordType, NEW d \in Datagram,
         NEW from \in {IPv4, IPv6}, NEW r \in MdnsRecord, NEW same \in BOOLEAN
  PROVE  Outcome(Parsed(t, d, from, r, same), NewTransaction(r, same), t, d, from)
<1> DEFINE x == Parsed(t, d, from, r, same)
           n == NewTransaction(r, same)
           last == clock + Ttl
           pt == mdns_record_parse_ptr(d)
           a4 == mdns_record_parse_a(d)
           a6 == mdns_record_parse_aaaa(d)
<1>1. n \in MdnsRecord
  BY Renewed
<1>2. last \in Nat /\ last >= Ttl
  BY Bounds
<1>3. /\ pt \in Cameras /\ pt = d.cam /\ a4 \in Address /\ a4.cam = d.cam
      /\ a6 \in Address /\ a6.cam = d.cam
  BY Addresses
<1>4. x = CASE t = "PTR" ->
                 [store |-> FALSE,
                  cur |-> [n EXCEPT !.ptr = pt, !.last = last, !.has_ptr = TRUE]]
            [] t = "A" /\ n.has_ptr /\ from = IPv4 ->
                 [store |-> TRUE, cur |-> [n EXCEPT !.a = a4, !.has_a = TRUE, !.last = last]]
            [] t = "AAAA" /\ n.has_ptr /\ from = IPv6 ->
                 [store |-> TRUE,
                  cur |-> [n EXCEPT !.aaaa = a6, !.has_aaaa = TRUE, !.last = last]]
            [] OTHER -> [store |-> FALSE, cur |-> n]
  BY DEF Parsed
<1> HIDE DEF x, n, last, pt, a4, a6
<1>5. CASE t = "PTR"
  <2> DEFINE c == [n EXCEPT !.ptr = pt, !.last = last, !.has_ptr = TRUE]
  <2>1. x = [store |-> FALSE, cur |-> c]
    BY <1>4, <1>5
  <2>2. c \in MdnsRecord /\ c.has_ptr /\ c.ptr = pt /\ c.has_a = n.has_a /\ c.has_aaaa = n.has_aaaa
    BY <1>1, <1>2, <1>3 DEF MdnsRecord
  <2> HIDE DEF c
  <2>3. x.cur = c /\ ~x.store /\ x.store \in BOOLEAN
    BY <2>1
  <2> QED
    BY <1>3, <1>5, <2>2, <2>3 DEF x, n, Outcome
<1>6. CASE t = "A" /\ n.has_ptr /\ from = IPv4
  <2> DEFINE c == [n EXCEPT !.a = a4, !.has_a = TRUE, !.last = last]
  <2>1. x = [store |-> TRUE, cur |-> c]
    BY <1>4, <1>6
  <2>2. /\ c \in MdnsRecord /\ c.has_ptr = n.has_ptr /\ c.ptr = n.ptr /\ c.has_a
        /\ c.a = a4 /\ c.has_aaaa = n.has_aaaa /\ c.last = last
    BY <1>1, <1>2, <1>3 DEF MdnsRecord
  <2> HIDE DEF c
  <2>3. x.cur = c /\ x.store /\ x.store \in BOOLEAN
    BY <2>1
  <2> QED
    BY <1>2, <1>3, <1>6, <2>2, <2>3, Bounds DEF x, n, Outcome
<1>7. CASE t = "AAAA" /\ n.has_ptr /\ from = IPv6
  <2> DEFINE c == [n EXCEPT !.aaaa = a6, !.has_aaaa = TRUE, !.last = last]
  <2>1. x = [store |-> TRUE, cur |-> c]
    BY <1>4, <1>7
  <2>2. /\ c \in MdnsRecord /\ c.has_ptr = n.has_ptr /\ c.ptr = n.ptr /\ c.has_aaaa
        /\ c.aaaa = a6 /\ c.has_a = n.has_a /\ c.last = last
    BY <1>1, <1>2, <1>3 DEF MdnsRecord
  <2> HIDE DEF c
  <2>3. x.cur = c /\ x.store /\ x.store \in BOOLEAN
    BY <2>1
  <2> QED
    BY <1>2, <1>3, <1>7, <2>2, <2>3, Bounds DEF x, n, Outcome
<1>8. CASE /\ t # "PTR" /\ ~(t = "A" /\ n.has_ptr /\ from = IPv4)
           /\ ~(t = "AAAA" /\ n.has_ptr /\ from = IPv6)
  <2>1. x = [store |-> FALSE, cur |-> n]
    BY <1>4, <1>8
  <2>2. x.cur = n /\ ~x.store /\ x.store \in BOOLEAN
    BY <2>1
  <2> QED
    BY <1>1, <1>8, <2>2 DEF x, n, Outcome
<1> QED
  BY <1>5, <1>6, <1>7, <1>8

------------------------------------------------------------------------------
(* The query thread.                                                       *)

LEMMA QueryOnly ==
  ASSUME Inv, q' \in Queries, Numbered', OneFamily', Parsing',
         q'.at = "none" \/ q.at # "none",
         UNCHANGED <<running, records, addrbuf, clock, main, heard, raced>>
  PROVE  Inv'
<1>1. Typed'
  BY DEF Inv, Typed
<1>2. Table' /\ Heard'
  BY DEF Inv, Table, Heard
<1>3. Iterating'
  BY DEF Inv, Iterating, Current
<1> QED
  BY <1>1, <1>2, <1>3 DEF Inv

LEMMA SendKeeps ==
  ASSUME Inv, send_mdns_query
  PROVE  Inv'
<1> USE DEF Inv, Typed
<1>1. /\ q.at = "loop"
      /\ UNCHANGED <<running, records, addrbuf, clock, main, heard, raced>>
  BY DEF send_mdns_query
<1>2. PICK failing \in SUBSET {Interfaces[n] : n \in DOMAIN Interfaces} :
        LET s == open_client_sockets(failing)
            num == Cardinality(DOMAIN s)
        IN  /\ num # 0 /\ q.nextId + num - 1 <= MaxQueries
            /\ q' = [q EXCEPT
                  !.at = "select", !.sockets = s,
                  !.id = [n \in DOMAIN s |-> q.nextId + Position(n, DOMAIN s) - 1],
                  !.inbox = [n \in DOMAIN s |-> <<>>],
                  !.nextId = @ + num]
  BY DEF send_mdns_query
<1> DEFINE s == open_client_sockets(failing)
           D == DOMAIN s
           num == Cardinality(D)
           id == [n \in D |-> q.nextId + Position(n, D) - 1]
           box == [n \in D |-> <<>>]
           next1 == q.nextId + num
<1>3. /\ q.nextId + num - 1 <= MaxQueries
      /\ q' = [q EXCEPT !.at = "select", !.sockets = s, !.id = id, !.inbox = box,
                        !.nextId = next1]
  BY <1>2
<1>4. s \in PerSocket({IPv4, IPv6})
  BY Opened
<1> HIDE DEF s
<1>5. D \subseteq DOMAIN Interfaces
  BY <1>4, PerSocketIs
<1> HIDE DEF D
<1>6. /\ num \in Nat /\ \A n \in D : Position(n, D) \in 1..num
      /\ \A n, m \in D : Position(n, D) = Position(m, D) => n = m
  BY <1>5, Positions
<1> HIDE DEF num
<1>7. q.nextId \in 1..(MaxQueries + 1) /\ q.curId < q.nextId /\ q.curId \in 0..MaxQueries
  BY DEF Queries, Numbered
<1>8. /\ DOMAIN id = D /\ id \in [D -> 1..MaxQueries]
      /\ \A n \in D : q.nextId <= id[n] /\ id[n] < next1
      /\ \A n, m \in D : id[n] = id[m] => n = m
      /\ next1 \in 1..(MaxQueries + 1) /\ q.curId < next1
  <2>1. \A n \in D : id[n] = q.nextId + Position(n, D) - 1 /\ Position(n, D) \in 1..num
    BY <1>6
  <2> HIDE DEF id
  <2>2. \A n \in D : id[n] \in 1..MaxQueries /\ q.nextId <= id[n] /\ id[n] < next1
    BY <1>3, <1>6, <1>7, <2>1, Bounds
  <2>3. \A n, m \in D : id[n] = id[m] => n = m
    BY <1>6, <1>7, <2>1
  <2>4. next1 \in 1..(MaxQueries + 1) /\ q.curId < next1
    BY <1>3, <1>6, <1>7, Bounds
  <2> QED
    BY <2>2, <2>3, <2>4 DEF id
<1> HIDE DEF id, next1
<1>9. id \in PerSocket(1..MaxQueries)
  BY <1>5, <1>8, PerSocketIs
<1>10. DOMAIN box = D /\ box \in [D -> Seq(Datagram)]
  OBVIOUS
<1> HIDE DEF box
<1>11. box \in PerSocket(Seq(Datagram))
  BY <1>5, <1>10, PerSocketIs
<1>12. /\ q' \in Queries /\ q'.at = "select" /\ q'.sockets = s /\ q'.id = id /\ q'.inbox = box
       /\ q'.nextId = next1 /\ q'.curId = q.curId /\ q'.cur = q.cur /\ q'.ready = q.ready
  BY <1>3, <1>4, <1>8, <1>9, <1>11 DEF Queries
<1>13. q.ready = {}
  BY <1>1 DEF Numbered
<1>14. Numbered'
  BY <1>8, <1>10, <1>12, <1>13 DEF Numbered, D
<1>15. OneFamily'
  <2>1. \A n \in D : id[n] # q.curId
    BY <1>7, <1>8
  <2> QED
    BY <1>12, <2>1 DEF OneFamily, D
<1>16. Parsing'
  BY <1>12 DEF Parsing
<1> QED
  BY <1>1, <1>12, <1>14, <1>15, <1>16, QueryOnly

LEMMA AnswerKeeps ==
  ASSUME Inv, NEW c \in Cameras, NEW n \in DOMAIN q.sockets, NEW shape \in Shapes,
         NEW id \in {0, q.id[n]}, Answer(c, n, shape, id)
  PROVE  Inv'
<1> USE DEF Inv, Typed
<1> DEFINE d == [cam |-> c, shape |-> shape, id |-> id]
           old == q.inbox[n]
           row == Append(old, d)
           box == [q.inbox EXCEPT ![n] = row]
           ans == q.answered \cup {<<c, n>>}
<1>1. /\ q' = [q EXCEPT !.answered = ans, !.inbox = box]
      /\ UNCHANGED <<running, records, addrbuf, clock, main, heard, raced>>
  BY DEF Answer
<1>2. /\ q.inbox \in PerSocket(Seq(Datagram)) /\ q.id \in PerSocket(1..MaxQueries)
      /\ q.sockets \in PerSocket({IPv4, IPv6}) /\ DOMAIN q.inbox = DOMAIN q.sockets
      /\ DOMAIN q.id = DOMAIN q.sockets
  BY DEF Queries, Numbered
<1>3. /\ DOMAIN q.inbox \subseteq DOMAIN Interfaces /\ q.inbox \in [DOMAIN q.inbox -> Seq(Datagram)]
      /\ q.id \in [DOMAIN q.id -> 1..MaxQueries]
  BY <1>2, PerSocketIs
<1>4. d \in Datagram
  BY <1>2, <1>3, Bounds DEF Datagram
<1> HIDE DEF d
<1>5. row \in Seq(Datagram) /\ row # <<>>
  <2>1. old \in Seq(Datagram)
    BY <1>2, <1>3
  <2> QED
    BY <1>4, <2>1
<1> HIDE DEF row
<1>6. DOMAIN box = DOMAIN q.inbox /\ box \in [DOMAIN q.inbox -> Seq(Datagram)]
  BY <1>2, <1>3, <1>5
<1> HIDE DEF box
<1>7. box \in PerSocket(Seq(Datagram))
  BY <1>3, <1>6, PerSocketIs
<1>8. ans \in SUBSET (Cameras \X DOMAIN Interfaces)
  BY <1>2, <1>3 DEF Queries
<1> HIDE DEF ans
<1>9. /\ q' \in Queries /\ q'.inbox = box /\ q'.at = q.at /\ q'.sockets = q.sockets
      /\ q'.id = q.id /\ q'.ready = q.ready /\ q'.nextId = q.nextId /\ q'.curId = q.curId
      /\ q'.cur = q.cur /\ q'.msg = q.msg /\ q'.work = q.work /\ q'.from = q.from
  BY <1>1, <1>7, <1>8 DEF Queries
<1>10. OneFamily' /\ Parsing'
  BY <1>9 DEF OneFamily, Parsing, OfMessage
<1>11. \A m \in q.ready : box[m] # <<>>
  BY <1>2, <1>5 DEF Numbered, box
<1>12. Numbered'
  BY <1>2, <1>6, <1>9, <1>11 DEF Numbered
<1> QED
  BY <1>1, <1>9, <1>10, <1>12, QueryOnly

LEMMA TimeoutKeeps ==
  ASSUME Inv, SelectTimeout
  PROVE  Inv'
<1> USE DEF Inv, Typed
<1> DEFINE no == <<>>
<1>1. /\ q.at = "select" /\ q.ready = {}
      /\ q' = [q EXCEPT !.at = "loop", !.sockets = no, !.id = no, !.inbox = no, !.answered = {}]
      /\ UNCHANGED <<running, records, addrbuf, clock, main, heard, raced>>
  BY DEF SelectTimeout
<1>2. /\ no \in PerSocket({IPv4, IPv6}) /\ no \in PerSocket(1..MaxQueries)
      /\ no \in PerSocket(Seq(Datagram)) /\ DOMAIN no = {}
  BY NoSockets
<1> HIDE DEF no
<1>3. /\ q' \in Queries /\ q'.at = "loop" /\ q'.sockets = no /\ q'.id = no /\ q'.inbox = no
      /\ q'.ready = {} /\ q'.nextId = q.nextId /\ q'.curId = q.curId
  BY <1>1, <1>2 DEF Queries
<1>4. Numbered' /\ OneFamily' /\ Parsing'
  BY <1>2, <1>3 DEF Numbered, OneFamily, Parsing
<1> QED
  BY <1>1, <1>3, <1>4, QueryOnly

LEMMA ReceiveKeeps ==
  ASSUME Inv, mdns_query_recv
  PROVE  Inv'
<1> DEFINE ready == IF q.ready = {} THEN Readable ELSE q.ready
           n == CHOOSE k \in ready : \A j \in ready : k <= j
           old == q.inbox[n]
           d == Head(old)
           row == Tail(old)
           box == [q.inbox EXCEPT ![n] = row]
           rest == ready \ {n}
<1>1. /\ q.at = "select" /\ ready # {}
      /\ UNCHANGED <<running, records, addrbuf, clock, main, heard, raced>>
      /\ q' = IF d.id # q.id[n] THEN [q EXCEPT !.ready = rest, !.inbox = box]
              ELSE [q EXCEPT !.ready = rest, !.inbox = box, !.at = "parse",
                             !.from = q.sockets[n], !.msg = d, !.work = d.shape]
  <2>1. /\ q.at = "select" /\ ready # {}
        /\ UNCHANGED <<running, records, addrbuf, clock, main, heard, raced>>
    BY DEF mdns_query_recv
  <2>2. CASE d.id # q.id[n]
    <3>1. q' = [q EXCEPT !.ready = rest, !.inbox[n] = Tail(@)]
      BY <2>2, Zenon DEF mdns_query_recv
    <3> QED BY <2>1, <2>2, <3>1
  <2>3. CASE d.id = q.id[n]
    <3>1. q' = [q EXCEPT !.ready = rest, !.inbox[n] = Tail(@), !.at = "parse",
                         !.from = q.sockets[n], !.msg = d, !.work = d.shape]
      BY <2>3, Zenon DEF mdns_query_recv
    <3>2. q' = [q EXCEPT !.ready = rest, !.inbox = box, !.at = "parse",
                         !.from = q.sockets[n], !.msg = d, !.work = d.shape]
      BY <3>1
    <3> HIDE DEF ready, n, d, box, rest
    <3> QED BY <2>1, <2>3, <3>2
  <2> QED BY <2>2, <2>3
<1> USE DEF Inv, Typed
<1>2. /\ q.inbox \in PerSocket(Seq(Datagram)) /\ q.id \in PerSocket(1..MaxQueries)
      /\ q.sockets \in PerSocket({IPv4, IPv6}) /\ DOMAIN q.inbox = DOMAIN q.sockets
      /\ DOMAIN q.id = DOMAIN q.sockets
  BY DEF Queries, Numbered
<1>3. /\ DOMAIN q.inbox \subseteq DOMAIN Interfaces /\ q.inbox \in [DOMAIN q.inbox -> Seq(Datagram)]
      /\ q.sockets \in [DOMAIN q.sockets -> {IPv4, IPv6}]
  BY <1>2, PerSocketIs
<1>4. DOMAIN Interfaces \subseteq Nat
  BY MdnsAssumption
<1>5. ready \subseteq DOMAIN q.sockets /\ \A k \in ready : q.inbox[k] # <<>>
  BY DEF Readable, Numbered
<1> HIDE DEF ready
<1>6. n \in ready
  <2>1. ready \in SUBSET Nat
    BY <1>2, <1>3, <1>4, <1>5
  <2>2. \E k \in ready : \A j \in ready : k <= j
    BY <1>1, <2>1, Least
  <2> QED
    BY <2>2
<1> HIDE DEF n
<1>7. old \in Seq(Datagram) /\ old # <<>>
  BY <1>2, <1>3, <1>5, <1>6
<1> HIDE DEF old
<1>8. d \in Datagram /\ row \in Seq(Datagram)
  BY <1>7
<1> HIDE DEF d, row
<1>9. /\ DOMAIN box = DOMAIN q.inbox /\ box \in [DOMAIN q.inbox -> Seq(Datagram)]
      /\ \A k \in rest : box[k] # <<>>
      /\ rest \subseteq DOMAIN q.sockets
  BY <1>2, <1>3, <1>5, <1>6, <1>8
<1> HIDE DEF box, rest
<1>10. box \in PerSocket(Seq(Datagram)) /\ rest \in SUBSET DOMAIN Interfaces
  BY <1>2, <1>3, <1>9, PerSocketIs
<1>11. CASE d.id # q.id[n]
  <2>1. q' = [q EXCEPT !.ready = rest, !.inbox = box]
    BY <1>1, <1>11
  <2>2. /\ q' \in Queries /\ q'.inbox = box /\ q'.at = q.at /\ q'.sockets = q.sockets
        /\ q'.id = q.id /\ q'.ready = rest /\ q'.nextId = q.nextId /\ q'.curId = q.curId
        /\ q'.cur = q.cur
    BY <1>10, <2>1 DEF Queries
  <2>3. Numbered' /\ OneFamily' /\ Parsing'
    BY <1>1, <1>2, <1>9, <2>2 DEF Numbered, OneFamily, Parsing
  <2> QED
    BY <1>1, <2>2, <2>3, QueryOnly
<1>12. CASE d.id = q.id[n]
  <2> DEFINE fam == q.sockets[n]
             sh == d.shape
  <2>1. q' = [q EXCEPT !.ready = rest, !.inbox = box, !.at = "parse",
                       !.from = fam, !.msg = d, !.work = sh]
    BY <1>1, <1>12
  <2>2. fam \in {IPv4, IPv6} /\ n \in DOMAIN q.sockets
    BY <1>3, <1>5, <1>6
  <2>3. sh \in Seq(RecordType) /\ sh # <<>> /\ Head(sh) = "PTR"
    <3>1. sh \in Shapes
      BY <1>8 DEF Datagram
    <3>2. sh \in Seq(RecordType) /\ sh # <<>> /\ sh[1] = "PTR"
      BY <3>1, MdnsAssumption
    <3> QED
      BY <3>2
  <2> HIDE DEF fam, sh
  <2>4. /\ q' \in Queries /\ q'.inbox = box /\ q'.at = "parse" /\ q'.sockets = q.sockets
        /\ q'.id = q.id /\ q'.ready = rest /\ q'.nextId = q.nextId /\ q'.curId = q.curId
        /\ q'.cur = q.cur /\ q'.from = fam /\ q'.msg = d /\ q'.work = sh
    BY <1>8, <1>10, <2>1, <2>2, <2>3 DEF Queries
  <2>5. Numbered' /\ OneFamily'
    BY <1>1, <1>2, <1>9, <2>4 DEF Numbered, OneFamily
  <2>6. Parsing'
    BY <1>8, <1>12, <2>2, <2>3, <2>4 DEF Parsing, fam
  <2> QED
    BY <1>1, <2>4, <2>5, <2>6, QueryOnly
<1> QED
  BY <1>11, <1>12

LEMMA CallbackKeeps ==
  ASSUME Inv, query_callback
  PROVE  Inv'
<1> USE DEF Inv, Typed
<1> DEFINE t == Head(q.work)
           rest == Tail(q.work)
           same == q.msg.id = q.curId
           x == Parsed(t, q.msg, q.from, q.cur, same)
           n == NewTransaction(q.cur, same)
           cur == x.cur
           id == q.msg.id
           at == IF x.store THEN "insert" ELSE After(rest)
           race == x.store /\ main.at = "formatted"
<1>1. /\ q.at = "parse" /\ UNCHANGED <<running, records, clock, main, heard>>
      /\ q' = [q EXCEPT !.work = rest, !.cur = cur, !.curId = id, !.at = at]
      /\ addrbuf' = IF ~race THEN addrbuf ELSE IF q.from = IPv4 THEN cur.a ELSE cur.aaaa
      /\ raced' = IF race THEN raced \cup {main.cursor} ELSE raced
  BY DEF query_callback
<1>2. /\ q.msg \in Datagram /\ q.work # <<>> /\ q.work \in Seq(RecordType)
      /\ q.from \in {IPv4, IPv6} /\ q.cur \in MdnsRecord
      /\ t = "PTR" \/ OfMessage
  BY <1>1 DEF Parsing, Queries
<1>3. t \in RecordType /\ rest \in Seq(RecordType) /\ same \in BOOLEAN
  BY <1>2
<1>4. PICK m \in DOMAIN q.sockets : q.id[m] = id /\ q.sockets[m] = q.from
  BY <1>1 DEF Parsing
<1>5. id < q.nextId /\ id \in 0..MaxQueries
  <2>1. q.id \in [DOMAIN q.sockets -> 1..MaxQueries]
    BY PerSocketIs DEF Queries, Numbered
  <2> QED
    BY <1>4, <2>1 DEF Numbered
<1> HIDE DEF t, rest
<1>6. /\ n \in MdnsRecord /\ (same => n = q.cur)
      /\ ~same => ~n.has_ptr /\ ~n.has_a /\ ~n.has_aaaa
  <2> HIDE DEF same
  <2> QED
    BY <1>2, <1>3, Renewed
<1>7. Outcome(x, n, t, q.msg, q.from)
  <2> HIDE DEF same
  <2> QED
    BY <1>2, <1>3, ParsedIs
<1>8. at \in {"insert", "select", "parse"}
  BY DEF After
<1> HIDE DEF x, n, cur, id
<1>9. /\ (n.has_a => q.from = IPv4) /\ (n.has_aaaa => q.from = IPv6)
  BY <1>4, <1>6 DEF OneFamily, id
<1>10. OfMessage => same
  BY DEF OfMessage
<1>11. t # "PTR" => same /\ n = q.cur /\ n.has_ptr /\ n.ptr = q.msg.cam
  BY <1>2, <1>6, <1>10 DEF OfMessage
<1>12. cur.has_ptr /\ cur.ptr = q.msg.cam
  BY <1>7, <1>11 DEF Outcome, cur
<1>13. x.store => Own(cur, q.msg.cam)
  BY <1>2, <1>7, <1>9, Bounds DEF Own, Outcome, cur
<1>14. (cur.has_a => q.from = IPv4) /\ (cur.has_aaaa => q.from = IPv6)
  BY <1>2, <1>7, <1>9, Bounds DEF Outcome, cur
<1> HIDE DEF same, at
<1>15. /\ q' \in Queries /\ q'.work = rest /\ q'.cur = cur /\ q'.curId = id /\ q'.at = at
       /\ q'.sockets = q.sockets /\ q'.id = q.id /\ q'.inbox = q.inbox /\ q'.ready = q.ready
       /\ q'.nextId = q.nextId /\ q'.msg = q.msg /\ q'.from = q.from
  BY <1>1, <1>3, <1>5, <1>7, <1>8 DEF Queries, Outcome, cur
<1>16. Numbered'
  BY <1>5, <1>8, <1>15 DEF Numbered
<1>17. OneFamily'
  BY <1>4, <1>14, <1>15 DEF OneFamily, Numbered
<1>18. OfMessage'
  BY <1>12, <1>15 DEF OfMessage, id
<1>19. Parsing'
  <2>1. at = "parse" => rest # <<>>
    BY DEF at, After
  <2>2. at = "insert" => x.store
    BY DEF at, After
  <2>3. q'.at = "insert" => Own(cur, q.msg.cam) /\ cur.last >= Ttl
    BY <1>7, <1>13, <1>15, <2>2 DEF Outcome, cur
  <2> QED
    BY <1>2, <1>4, <1>15, <1>18, <2>1, <2>3 DEF Parsing, id
<1>20. addrbuf' \in Address \cup {None} /\ (race => addrbuf' \in Address)
  BY <1>1, <1>2, <1>7 DEF Outcome, cur
<1>21. Typed'
  <2>1. race => main.cursor \in Cameras
    BY DEF Iterating, Mains
  <2> QED
    BY <1>1, <1>15, <1>20, <2>1
<1>22. Table' /\ Heard'
  BY <1>1, <1>15, <1>8 DEF Table, Heard
<1>23. Iterating'
  BY <1>1, <1>20 DEF Iterating, Current
<1> QED
  BY <1>16, <1>17, <1>19, <1>21, <1>22, <1>23

LEMMA InsertKeeps ==
  ASSUME Inv, Insert
  PROVE  Inv'
<1> USE DEF Inv, Typed
<1> DEFINE c == q.msg.cam
           at == After(q.work)
           when == q.cur.last - Ttl
<1>1. /\ q.at = "insert" /\ LockFree /\ UNCHANGED <<running, addrbuf, clock, main, raced>>
      /\ records' = [records EXCEPT ![q.cur.ptr] = q.cur]
      /\ heard' = [heard EXCEPT ![c] = when]
      /\ q' = [q EXCEPT !.at = at]
  BY DEF Insert
<1>2. /\ OfMessage /\ Own(q.cur, c) /\ q.cur.last >= Ttl /\ c \in Cameras /\ q.cur.ptr = c
  BY <1>1 DEF Parsing, OfMessage, Datagram
<1>3. q.cur \in MdnsRecord /\ q.cur # None
  <2>1. q.cur \in MdnsRecord
    BY DEF Queries
  <2> QED
    BY <2>1, MdnsAssumption
<1>4. when \in Nat /\ when # None /\ q.cur.last = when + Ttl
  <2>1. q.cur.last \in Nat
    BY <1>3 DEF MdnsRecord
  <2>2. when \in Nat /\ q.cur.last = when + Ttl
    BY <1>2, <2>1, Bounds
  <2> QED
    BY <2>2, MdnsAssumption
<1>5. at \in {"select", "parse"} /\ (at = "parse" => q.work # <<>>)
  BY DEF After
<1> HIDE DEF at, c, when
<1>6. /\ q' \in Queries /\ q'.at = at /\ q'.work = q.work /\ q'.cur = q.cur /\ q'.curId = q.curId
      /\ q'.sockets = q.sockets /\ q'.id = q.id /\ q'.inbox = q.inbox /\ q'.ready = q.ready
      /\ q'.nextId = q.nextId /\ q'.msg = q.msg /\ q'.from = q.from
  BY <1>1, <1>5 DEF Queries
<1>7. /\ records' \in [Cameras -> MdnsRecord \cup {None}] /\ records'[c] = q.cur
      /\ heard' \in [Cameras -> Nat \cup {None}] /\ heard'[c] = when
      /\ \A b \in Cameras : b # c => records'[b] = records[b] /\ heard'[b] = heard[b]
  BY <1>1, <1>2, <1>3, <1>4
<1>8. Typed'
  BY <1>1, <1>6, <1>7
<1>9. Numbered' /\ OneFamily'
  BY <1>5, <1>6 DEF Numbered, OneFamily
<1>10. Parsing'
  BY <1>1, <1>2, <1>5, <1>6, ZenonT(30) DEF Parsing, OfMessage
<1>11. Table'
  BY <1>2, <1>7 DEF Table
<1>12. Heard'
  <2>1. main.at # "unloaded" /\ main' = main
    BY <1>1 DEF Heard
  <2> QED
    BY <1>3, <1>4, <1>7, <2>1 DEF Heard
<1>13. Iterating'
  BY <1>1 DEF Iterating, LockFree
<1> QED
  BY <1>8, <1>9, <1>10, <1>11, <1>12, <1>13

LEMMA EndKeeps ==
  ASSUME Inv, EndLoop
  PROVE  Inv'
<1> USE DEF Inv, Typed
<1>1. /\ q.at = "loop" /\ q' = [q EXCEPT !.at = "done"]
      /\ UNCHANGED <<running, records, addrbuf, clock, main, heard, raced>>
  BY DEF EndLoop
<1>2. /\ q' \in Queries /\ q'.at = "done" /\ q'.cur = q.cur /\ q'.curId = q.curId
      /\ q'.sockets = q.sockets /\ q'.id = q.id /\ q'.inbox = q.inbox /\ q'.ready = q.ready
      /\ q'.nextId = q.nextId
  BY <1>1 DEF Queries
<1>3. Numbered' /\ OneFamily' /\ Parsing'
  BY <1>1, <1>2 DEF Numbered, OneFamily, Parsing
<1> QED
  BY <1>1, <1>2, <1>3, QueryOnly

------------------------------------------------------------------------------
(* The main thread.                                                        *)

LEMMA QueryFrame ==
  ASSUME Inv, q' = q
  PROVE  Numbered' /\ OneFamily' /\ Parsing'
BY DEF Inv, Numbered, OneFamily, Parsing, OfMessage

LEMMA CreateKeeps ==
  ASSUME Inv, create_mdns_loop
  PROVE  Inv'
<1> USE DEF Inv, Typed
<1>1. /\ main.at = "unloaded" /\ records' = [c \in Cameras |-> None] /\ running' = TRUE
      /\ q' = [q EXCEPT !.at = "loop"] /\ main' = [main EXCEPT !.at = "ready"]
      /\ UNCHANGED <<addrbuf, clock, heard, raced>>
  BY DEF create_mdns_loop
<1>2. q.at = "none" /\ (\A c \in Cameras : heard[c] = None) /\ main.listed = {}
  BY <1>1 DEF Heard, Iterating
<1>3. /\ q' \in Queries /\ q'.at = "loop" /\ q'.cur = q.cur /\ q'.curId = q.curId
      /\ q'.sockets = q.sockets /\ q'.id = q.id /\ q'.inbox = q.inbox /\ q'.ready = q.ready
      /\ q'.nextId = q.nextId
  BY <1>1 DEF Queries
<1>4. main' \in Mains /\ main'.at = "ready" /\ main'.listed = {}
  BY <1>1, <1>2 DEF Mains
<1>5. Numbered' /\ OneFamily' /\ Parsing'
  BY <1>2, <1>3 DEF Numbered, OneFamily, Parsing
<1>6. Typed'
  BY <1>1, <1>3, <1>4
<1>7. Table' /\ Heard' /\ Iterating'
  BY <1>1, <1>2, <1>4 DEF Table, Heard, Iterating
<1> QED
  BY <1>5, <1>6, <1>7

LEMMA IteratorKeeps ==
  ASSUME Inv, SspMDnsIterator
  PROVE  Inv'
<1> USE DEF Inv, Typed
<1> DEFINE all == {c \in Cameras : records[c] # None}
<1>1. /\ main.at = "ready" /\ main' = [main EXCEPT !.at = "iter", !.now = clock, !.iter = all]
      /\ UNCHANGED <<q, running, records, addrbuf, clock, heard, raced>>
  BY DEF SspMDnsIterator
<1>2. all \subseteq Cameras /\ \A c \in Cameras : c \in all <=> records[c] # None
  OBVIOUS
<1> HIDE DEF all
<1>3. main' \in Mains /\ main'.at = "iter" /\ main'.iter = all /\ main'.listed = main.listed
  BY <1>1, <1>2 DEF Mains
<1>4. main.listed = {}
  BY <1>1 DEF Iterating
<1>5. Typed' /\ Table' /\ Heard'
  BY <1>1, <1>3 DEF Table, Heard
<1>6. Iterating'
  BY <1>1, <1>2, <1>3, <1>4 DEF Iterating, Current
<1> QED
  BY <1>1, <1>5, <1>6, QueryFrame

\* The address of a record of the table.
LEMMA ListedIs ==
  ASSUME Inv, NEW c \in Cameras, records[c] # None
  PROVE  /\ records[c] \in MdnsRecord /\ records[c].last \in Nat
         /\ ListedAddress(records[c]) \in Address /\ ListedAddress(records[c]) # None
         /\ ListedAddress(records[c]).cam = c
<1>1. records[c] \in MdnsRecord /\ Own(records[c], c)
  BY DEF Inv, Typed, Table
<1>2. ListedAddress(records[c]) \in Address /\ ListedAddress(records[c]).cam = c
  BY <1>1 DEF ListedAddress, Own
<1>3. records[c].last \in Nat
  BY <1>1 DEF MdnsRecord
<1> QED
  BY <1>1, <1>2, <1>3, MdnsAssumption

LEMMA NextKeeps ==
  ASSUME Inv, NEW c \in Cameras, next(c)
  PROVE  Inv'
<1> USE DEF Inv, Typed
<1> DEFINE r == records[c]
           left == main.iter \ {c}
<1>1. /\ main.at = "iter" /\ c \in main.iter
      /\ UNCHANGED <<q, running, records, clock, heard, raced>>
  BY DEF next
<1>2. r # None
  BY <1>1 DEF Iterating
<1>3. /\ r.last \in Nat /\ ListedAddress(r) \in Address /\ ListedAddress(r) # None
      /\ ListedAddress(r).cam = c
  BY <1>2, ListedIs
<1>4. main.now \in Nat
  BY Bounds DEF Mains
<1>5. CASE Expired(r)
  <2>1. main' = [main EXCEPT !.iter = left] /\ addrbuf' = addrbuf
    BY <1>5 DEF next
  <2>2. left \subseteq Cameras /\ \A b \in Cameras : b \in left <=> b \in main.iter /\ b # c
    BY DEF Mains
  <2> HIDE DEF left
  <2>3. /\ main' \in Mains /\ main'.at = main.at /\ main'.iter = left /\ main'.now = main.now
        /\ main'.listed = main.listed
    BY <2>1, <2>2 DEF Mains
  <2>4. ~Current(c)
    BY <1>3, <1>4, <1>5 DEF Current, Expired
  <2>5. \A b \in Cameras : Current(b)' <=> Current(b)
    BY <1>1, <2>3 DEF Current
  <2>6. Typed' /\ Table' /\ Heard'
    BY <1>1, <2>1, <2>3 DEF Table, Heard
  <2>7. Iterating'
    <3>1. \A b \in main'.iter : records'[b] # None
      BY <1>1, <2>2, <2>3 DEF Iterating, Mains
    <3>2. \A b \in Cameras : (\E i \in main'.listed : i.name = b) <=> b \notin main'.iter /\ Current(b)'
      BY <1>1, <2>2, <2>3, <2>4, <2>5 DEF Iterating
    <3> QED
      BY <1>1, <2>3, <3>1, <3>2 DEF Iterating
  <2> QED
    BY <1>1, <2>6, <2>7, QueryFrame
<1>6. CASE ~Expired(r)
  <2>1. main' = [main EXCEPT !.at = "formatted", !.cursor = c] /\ addrbuf' = ListedAddress(r)
    BY <1>3, <1>6 DEF next
  <2>2. /\ main' \in Mains /\ main'.at = "formatted" /\ main'.iter = main.iter
        /\ main'.now = main.now /\ main'.listed = main.listed /\ main'.cursor = c
    BY <2>1 DEF Mains
  <2>3. Current(c)
    BY <1>2, <1>3, <1>4, <1>6 DEF Current, Expired
  <2>4. \A b \in Cameras : Current(b)' <=> Current(b)
    BY <1>1, <2>2 DEF Current
  <2>5. Typed' /\ Table' /\ Heard'
    BY <1>1, <1>3, <2>1, <2>2 DEF Table, Heard
  <2>6. Iterating'
    <3>1. \A b \in Cameras : (\E i \in main'.listed : i.name = b) <=> b \notin main'.iter /\ Current(b)'
      BY <1>1, <2>2, <2>4 DEF Iterating
    <3>2. Current(main.cursor)'
      BY <2>2, <2>3, <2>4
    <3> QED
      BY <1>1, <1>3, <2>1, <2>2, <3>1, <3>2 DEF Iterating
  <2> QED
    BY <1>1, <2>5, <2>6, QueryFrame
<1> QED
  BY <1>5, <1>6

LEMMA ReturnKeeps ==
  ASSUME Inv, nextReturns
  PROVE  Inv'
<1> USE DEF Inv, Typed
<1> DEFINE c == main.cursor
           left == main.iter \ {c}
           item == [name |-> c, addr |-> addrbuf]
           lst == main.listed \cup {item}
<1>1. /\ main.at = "formatted" /\ addrbuf' = None
      /\ main' = [main EXCEPT !.at = "iter", !.iter = left, !.listed = lst, !.cursor = None]
      /\ UNCHANGED <<q, running, records, clock, heard, raced>>
  BY DEF nextReturns
<1>2. /\ c \in main.iter /\ Current(c) /\ addrbuf \in Address
      /\ addrbuf.cam = c \/ c \in raced
  BY <1>1 DEF Iterating
<1>3. c \in Cameras /\ main.listed \subseteq [name : Cameras, addr : Address]
  BY <1>2 DEF Mains
<1> HIDE DEF c
<1>4. item \in [name : Cameras, addr : Address] /\ item.name = c /\ item.addr = addrbuf
  BY <1>2, <1>3
<1> HIDE DEF item
<1>5. lst \subseteq [name : Cameras, addr : Address] /\ \A i : i \in lst <=> i \in main.listed \/ i = item
  BY <1>3, <1>4
<1>6. left \subseteq Cameras /\ \A b \in Cameras : b \in left <=> b \in main.iter /\ b # c
  BY DEF Mains
<1> HIDE DEF left, lst
<1>7. /\ main' \in Mains /\ main'.at = "iter" /\ main'.iter = left /\ main'.now = main.now
      /\ main'.listed = lst
  BY <1>1, <1>5, <1>6 DEF Mains
<1>8. \A b \in Cameras : Current(b)' <=> Current(b)
  BY <1>1, <1>7 DEF Current
<1>9. Typed' /\ Table' /\ Heard'
  BY <1>1, <1>7 DEF Table, Heard
<1>10. \A b \in main'.iter : records'[b] # None
  BY <1>1, <1>6, <1>7 DEF Iterating
<1>11. \A b \in Cameras : (\E i \in main'.listed : i.name = b) <=> b \notin main'.iter /\ Current(b)'
  <2> SUFFICES ASSUME NEW b \in Cameras
               PROVE  (\E i \in lst : i.name = b) <=> b \notin left /\ Current(b)
    BY <1>7, <1>8
  <2>1. (\E i \in lst : i.name = b) <=> (\E i \in main.listed : i.name = b) \/ b = c
    BY <1>4, <1>5
  <2>2. (\E i \in main.listed : i.name = b) <=> b \notin main.iter /\ Current(b)
    BY <1>1 DEF Iterating
  <2> QED
    BY <1>2, <1>6, <2>1, <2>2
<1>12. \A i \in main'.listed : i.addr.cam = i.name \/ i.name \in raced'
  BY <1>1, <1>2, <1>4, <1>5, <1>7 DEF Iterating
<1>13. Iterating'
  BY <1>7, <1>10, <1>11, <1>12 DEF Iterating
<1> QED
  BY <1>1, <1>9, <1>13, QueryFrame

LEMMA MainKeeps ==
  ASSUME Inv
  PROVE  /\ IteratorDone => Inv'
         /\ stop_mdns_loop => Inv'
         /\ ClearRunning => Inv'
         /\ Join => Inv'
         /\ Tick => Inv'
<1> USE DEF Inv, Typed
<1>1. ASSUME IteratorDone PROVE Inv'
  <2>1. /\ main.at = "iter" /\ main' = [main EXCEPT !.at = "ready", !.listed = {}, !.now = 0]
        /\ raced' = {} /\ UNCHANGED <<q, running, records, addrbuf, clock, heard>>
    BY <1>1 DEF IteratorDone
  <2>2. 0 \in 0..MaxTime
    BY Bounds
  <2>3. main' \in Mains /\ main'.at = "ready" /\ main'.listed = {}
    BY <2>1, <2>2 DEF Mains
  <2>4. Typed' /\ Table' /\ Heard' /\ Iterating'
    BY <2>1, <2>3 DEF Table, Heard, Iterating
  <2> QED
    BY <2>1, <2>4, QueryFrame
<1>2. ASSUME stop_mdns_loop PROVE Inv'
  <2>1. /\ main.at = "ready" /\ main' = [main EXCEPT !.at = "cleared"]
        /\ records' = [c \in Cameras |-> None]
        /\ UNCHANGED <<q, running, addrbuf, clock, heard, raced>>
    BY <1>2 DEF stop_mdns_loop
  <2>2. main' \in Mains /\ main'.at = "cleared" /\ main'.listed = main.listed
    BY <2>1 DEF Mains
  <2>3. Typed' /\ Table' /\ Heard' /\ Iterating'
    BY <2>1, <2>2 DEF Table, Heard, Iterating
  <2> QED
    BY <2>1, <2>3, QueryFrame
<1>3. ASSUME ClearRunning PROVE Inv'
  <2>1. /\ main.at = "cleared" /\ main' = [main EXCEPT !.at = "joining"] /\ running' = FALSE
        /\ UNCHANGED <<q, records, addrbuf, clock, heard, raced>>
    BY <1>3 DEF ClearRunning
  <2>2. main' \in Mains /\ main'.at = "joining" /\ main'.listed = main.listed
    BY <2>1 DEF Mains
  <2>3. Typed' /\ Table' /\ Heard' /\ Iterating'
    BY <2>1, <2>2 DEF Table, Heard, Iterating
  <2> QED
    BY <2>1, <2>3, QueryFrame
<1>4. ASSUME Join PROVE Inv'
  <2>1. /\ main.at = "joining" /\ main' = [main EXCEPT !.at = "stopped"]
        /\ UNCHANGED <<q, running, records, addrbuf, clock, heard, raced>>
    BY <1>4 DEF Join
  <2>2. main' \in Mains /\ main'.at = "stopped" /\ main'.listed = main.listed
    BY <2>1 DEF Mains
  <2>3. Typed' /\ Table' /\ Heard' /\ Iterating'
    BY <2>1, <2>2 DEF Table, Heard, Iterating
  <2> QED
    BY <2>1, <2>3, QueryFrame
<1>5. ASSUME Tick PROVE Inv'
  <2>1. clock' \in 0..MaxTime /\ UNCHANGED <<q, running, records, addrbuf, main, heard, raced>>
    BY <1>5, Bounds DEF Tick
  <2>2. Typed' /\ Table' /\ Heard' /\ Iterating'
    BY <2>1 DEF Table, Heard, Iterating, Current
  <2> QED
    BY <2>1, <2>2, QueryFrame
<1> QED
  BY <1>1, <1>2, <1>3, <1>4, <1>5

------------------------------------------------------------------------------
(* The theorems.                                                           *)

LEMMA InvInit == Init => Inv
<1> SUFFICES ASSUME Init PROVE Inv
  OBVIOUS
<1> DEFINE no == <<>>
<1>1. /\ q = [at |-> "none", sockets |-> no, id |-> no, inbox |-> no,
              answered |-> {}, ready |-> {}, from |-> IPv4, work |-> <<>>,
              msg |-> None, cur |-> NoRecord, curId |-> 0, nextId |-> 1]
      /\ main = [at |-> "unloaded", iter |-> {}, now |-> 0, cursor |-> None, listed |-> {}]
  BY DEF Init
<1>2. /\ no \in PerSocket({IPv4, IPv6}) /\ no \in PerSocket(1..MaxQueries)
      /\ no \in PerSocket(Seq(Datagram)) /\ DOMAIN no = {}
  BY NoSockets
<1> HIDE DEF no
<1>3. NoRecord \in MdnsRecord
  BY DEF NoRecord, MdnsRecord
<1>4. 0 \in 0..MaxQueries /\ 1 \in 1..(MaxQueries + 1) /\ 0 \in 0..MaxTime
  BY Bounds
<1>5. /\ q \in Queries /\ q.at = "none" /\ q.sockets = no /\ q.id = no /\ q.inbox = no
      /\ q.ready = {} /\ q.curId = 0 /\ q.nextId = 1
  BY <1>1, <1>2, <1>3, <1>4 DEF Queries
<1>6. main \in Mains /\ main.at = "unloaded" /\ main.listed = {}
  BY <1>1, <1>4 DEF Mains
<1>7. Typed
  BY <1>4, <1>5, <1>6 DEF Init, Typed
<1>8. Numbered /\ OneFamily /\ Parsing
  BY <1>2, <1>5 DEF Numbered, OneFamily, Parsing
<1>9. Table /\ Heard /\ Iterating
  BY <1>5, <1>6 DEF Init, Table, Heard, Iterating
<1> QED
  BY <1>7, <1>8, <1>9 DEF Inv

LEMMA InvNext == Inv /\ [Next]_vars => Inv'
<1> SUFFICES ASSUME Inv, [Next]_vars PROVE Inv'
  OBVIOUS
<1>1. CASE UNCHANGED vars
  <2>1. Typed' /\ Table' /\ Heard' /\ Iterating' /\ q' = q
    BY <1>1 DEF vars, Inv, Typed, Table, Heard, Iterating, Current
  <2> QED
    BY <2>1, QueryFrame DEF Inv
<1>2. CASE QueryThread
  BY <1>2, SendKeeps, TimeoutKeeps, ReceiveKeeps, CallbackKeeps, InsertKeeps, EndKeeps
  DEF QueryThread
<1>3. CASE MainThread
  BY <1>3, CreateKeeps, IteratorKeeps, NextKeeps, ReturnKeeps, MainKeeps DEF MainThread
<1>4. CASE Tick
  BY <1>4, MainKeeps
<1>5. CASE \E c \in Cameras, n \in DOMAIN q.sockets, shape \in Shapes :
             \E id \in {0, q.id[n]} : Answer(c, n, shape, id)
  BY <1>5, AnswerKeeps
<1> QED
  BY <1>1, <1>2, <1>3, <1>4, <1>5 DEF Next, Stopped

LEMMA Invariance == Spec => []Inv
BY InvInit, InvNext, PTL DEF Spec

\* The state of both threads stays of its type, whatever answers come.
THEOREM Typing == Spec => []TypeOK
<1>1. Inv => TypeOK
  <2> SUFFICES ASSUME Inv PROVE TypeOK
    OBVIOUS
  <2>1. /\ q.sockets \in PerSocket({IPv4, IPv6}) /\ q.id \in PerSocket(1..MaxQueries)
        /\ DOMAIN q.id = DOMAIN q.sockets
    BY DEF Inv, Typed, Queries, Numbered
  <2>2. /\ DOMAIN q.sockets \subseteq DOMAIN Interfaces
        /\ q.sockets \in [DOMAIN q.sockets -> {IPv4, IPv6}]
        /\ q.id \in [DOMAIN q.sockets -> Int]
    BY <2>1, PerSocketIs, Bounds
  <2> QED
    BY <2>2 DEF TypeOK, Inv, Typed, Queries, Mains, Numbered
<1> QED
  BY <1>1, Invariance, PTL

\* The record of a camera, and what the dock lists for it, has addresses of that
\* camera only, although all records are built in one variable that two sockets
\* and all datagrams share; the listing is right unless addrbuffer was raced for.
THEOREM AddressesOwned == Spec => []ListedOwnAddress
<1>1. Inv => ListedOwnAddress
  BY DEF Inv, Table, Own, Iterating, ListedOwnAddress, RecordsOwnAddress
<1> QED
  BY <1>1, Invariance, PTL

\* An iteration lists exactly the cameras heard within the time to live.
THEOREM ListingComplete == Spec => []ListingExact
<1>1. Inv => ListingExact
  <2> SUFFICES ASSUME Inv, main.at = "iter", main.iter = {}
               PROVE  {i.name : i \in main.listed} =
                        {c \in Cameras : heard[c] # None /\ heard[c] + Ttl >= main.now}
    BY DEF ListingExact
  <2>1. \A i \in main.listed : i.name \in Cameras
    BY DEF Inv, Typed, Mains
  <2>2. \A c \in Cameras : (\E i \in main.listed : i.name = c) <=> Current(c)
    BY DEF Inv, Iterating
  <2>3. \A c \in Cameras : Current(c) <=> heard[c] # None /\ heard[c] + Ttl >= main.now
    BY DEF Inv, Heard, Current
  <2> QED
    BY <2>1, <2>2, <2>3
<1> QED
  BY <1>1, Invariance, PTL
=============================================================================
