--------------------------- MODULE MdnsDiscovery ---------------------------
(***************************************************************************)
(* Camera discovery (src/ssp-mdns.cpp over thirdpty/mdns/mdns.h): a query  *)
(* thread that asks for cameras in rounds and fills a table of records, an *)
(* iterator over that table on the main thread, and the end of the thread  *)
(* when the module is unloaded.                                            *)
(*                                                                         *)
(* An address is the pair of its camera and its family, so that "the       *)
(* address of another camera" can be said.  A datagram is the sequence of  *)
(* the types of its records; records of types that query_callback() does   *)
(* not look at are left out, and lengths and names are well formed.        *)
(***************************************************************************)
EXTENDS Integers, Sequences, FiniteSets

CONSTANTS
  Cameras,     \* the names of the cameras
  Families,    \* the families each camera answers on: [Cameras -> SUBSET]
  Shapes,      \* the record types of an answer, in the order of the datagram
  Interfaces,  \* the addresses of the host, in the order the system lists them
  Windows,     \* which of the two branches of open_client_sockets() is built
  MaxSockets,  \* size of the array of sockets (32 in the code)
  Ttl,         \* DEFAULT_TTL, in units of the clock
  MaxTime,     \* bound of the clock
  MaxQueries,  \* bound of the query ids; ids do not wrap within it
  None

IPv4 == "v4"
IPv6 == "v6"

Address == [cam : Cameras, fam : {IPv4, IPv6}]
RecordType == {"PTR", "A", "AAAA"}

\* An address of the host as the system lists it.
Interface == [fam : {IPv4, IPv6, "other"}, loopback : BOOLEAN, up : BOOLEAN,
              preferred : BOOLEAN, teredo : BOOLEAN]

NoRecord == [has_ptr |-> FALSE, ptr |-> None, has_a |-> FALSE, a |-> None,
             has_aaaa |-> FALSE, aaaa |-> None, last |-> 0]

MdnsRecord == [has_ptr : BOOLEAN, ptr : Cameras \cup {None},
               has_a : BOOLEAN, a : Address \cup {None},
               has_aaaa : BOOLEAN, aaaa : Address \cup {None}, last : Nat]

ASSUME MdnsAssumption ==
  /\ None \notin Cameras \cup Address \cup Nat /\ None \notin MdnsRecord
  /\ Families \in [Cameras -> SUBSET {IPv4, IPv6}]
  /\ Shapes \subseteq Seq(RecordType)
  /\ Interfaces \in Seq(Interface) /\ Windows \in BOOLEAN
  /\ {MaxSockets, Ttl, MaxTime, MaxQueries} \subseteq Nat
  \* Each answer begins with its PTR, the only answer to the question asked.
  /\ \A s \in Shapes : s # <<>> /\ s[1] = "PTR"

VARIABLES
  q,        \* the query thread: its place, sockets, datagrams, current record
  running,  \* g_mdns_args.running
  records,  \* ssp_records: None where the map has no entry
  addrbuf,  \* addrbuffer, shared by both threads
  clock,    \* os_gettime_ns
  main,     \* the main thread: its place, and the iterator
  heard,    \* history: when a usable answer of a camera was last stored
  raced     \* history: cameras whose formatted address was overwritten

vars == <<q, running, records, addrbuf, clock, main, heard, raced>>

TypeOK ==
  /\ q.at \in {"none", "loop", "select", "parse", "insert", "done"}
  /\ DOMAIN q.sockets \subseteq DOMAIN Interfaces
  /\ q.sockets \in [DOMAIN q.sockets -> {IPv4, IPv6}]
  /\ q.id \in [DOMAIN q.sockets -> Int]
  /\ DOMAIN q.inbox = DOMAIN q.sockets
  /\ q.ready \subseteq DOMAIN q.sockets
  /\ q.cur \in MdnsRecord /\ q.curId \in 0..MaxQueries
  /\ running \in BOOLEAN
  /\ records \in [Cameras -> MdnsRecord \cup {None}]
  /\ addrbuf \in Address \cup {None}
  /\ clock \in 0..MaxTime
  /\ main.at \in {"unloaded", "ready", "iter", "formatted", "cleared",
                  "joining", "stopped"}
  /\ main.iter \subseteq Cameras
  /\ main.listed \subseteq [name : Cameras, addr : Address]
  /\ heard \in [Cameras -> Nat \cup {None}]
  /\ raced \subseteq Cameras

Init ==
  /\ q = [at |-> "none", sockets |-> <<>>, id |-> <<>>, inbox |-> <<>>,
          answered |-> {}, ready |-> {}, from |-> IPv4, work |-> <<>>,
          msg |-> None, cur |-> NoRecord, curId |-> 0, nextId |-> 1]
  /\ running = FALSE
  /\ records = [c \in Cameras |-> None]
  /\ addrbuf = None
  /\ clock = 0
  /\ main = [at |-> "unloaded", iter |-> {}, now |-> 0, cursor |-> None,
             listed |-> {}]
  /\ heard = [c \in Cameras |-> None]
  /\ raced = {}

(***************************************************************************)
(* Sockets.  A round opens one socket for each address that is of use and  *)
(* whose socket can be set up; `failing` are those for which it cannot.    *)
(***************************************************************************)
mdns_socket_open_ipv4(i, failing) == i.fam = IPv4 /\ i \notin failing

mdns_socket_open_ipv6(i, failing) == i.fam = IPv6 /\ i \notin failing

UsableWindows(i) ==
  /\ ~i.teredo /\ i.up /\ ~i.loopback
  /\ i.fam = IPv6 => i.preferred

UsablePosix(i) == ~i.loopback

\* How many of a set of addresses come up to the n-th one.
Position(n, S) == Cardinality({m \in S : m <= n})

\* The family of the socket of each address, as long as there is room for it.
open_client_sockets(failing) ==
  LET open == {n \in DOMAIN Interfaces :
                 LET i == Interfaces[n]
                 IN  /\ IF Windows THEN UsableWindows(i) ELSE UsablePosix(i)
                     /\ \/ mdns_socket_open_ipv4(i, failing)
                        \/ mdns_socket_open_ipv6(i, failing)}
  IN  [n \in {k \in open : Position(k, open) <= MaxSockets} |-> Interfaces[n].fam]

\* Opens the sockets of a round and sends one query on each, with an id of its
\* own.  A query that cannot be sent is one that nobody answers.  Without a
\* socket the loop turns at once.
send_mdns_query ==
  /\ q.at = "loop" /\ running
  /\ \E failing \in SUBSET {Interfaces[n] : n \in DOMAIN Interfaces} :
       LET s == open_client_sockets(failing)
           num == Cardinality(DOMAIN s)
       IN  /\ num # 0 /\ q.nextId + num - 1 <= MaxQueries
           /\ q' = [q EXCEPT
                 !.at = "select", !.sockets = s,
                 !.id = [n \in DOMAIN s |-> q.nextId + Position(n, DOMAIN s) - 1],
                 !.inbox = [n \in DOMAIN s |-> <<>>],
                 !.nextId = @ + num]
  /\ UNCHANGED <<running, records, addrbuf, clock, main, heard, raced>>

\* A camera answers the query of socket n once, repeating its id or with id 0.
Answer(c, n, shape, id) ==
  /\ q.sockets[n] \in Families[c]
  /\ <<c, n>> \notin q.answered
  /\ q' = [q EXCEPT !.answered = @ \cup {<<c, n>>},
                    !.inbox[n] = Append(@, [cam |-> c, shape |-> shape,
                                            id |-> id])]
  /\ UNCHANGED <<running, records, addrbuf, clock, main, heard, raced>>

\* The sockets for which select() reports data.
Readable == {n \in DOMAIN q.sockets : q.inbox[n] # <<>>}

\* Nothing came for two seconds: the round ends and its sockets are closed.
SelectTimeout ==
  /\ q.at = "select" /\ q.ready = {} /\ Readable = {}
  /\ q' = [q EXCEPT !.at = "loop", !.sockets = <<>>, !.id = <<>>,
                    !.inbox = <<>>, !.answered = {}]
  /\ UNCHANGED <<running, records, addrbuf, clock, main, heard, raced>>

\* One datagram of each socket that select() reported, in their order.  One with
\* another id than that of the query is not for us.
mdns_query_recv ==
  /\ q.at = "select"
  /\ LET ready == IF q.ready = {} THEN Readable ELSE q.ready
         n == CHOOSE k \in ready : \A j \in ready : k <= j
         d == Head(q.inbox[n])
     IN  /\ ready # {}
         /\ q' = IF d.id # q.id[n]
                 THEN [q EXCEPT !.ready = ready \ {n}, !.inbox[n] = Tail(@)]
                 ELSE [q EXCEPT !.ready = ready \ {n}, !.inbox[n] = Tail(@),
                                !.at = "parse", !.from = q.sockets[n],
                                !.msg = d, !.work = d.shape]
  /\ UNCHANGED <<running, records, addrbuf, clock, main, heard, raced>>

(***************************************************************************)
(* query_callback(), called by mdns_records_parse() for each record.       *)
(***************************************************************************)

\* Mutant: a record of a new transaction keeps the addresses of the last one.
NewTransactionKeeping(cur, same) == [cur EXCEPT !.has_ptr = @ /\ same]

NewTransaction(cur, same) ==
  IF same THEN cur
  ELSE [cur EXCEPT !.has_ptr = FALSE, !.has_a = FALSE, !.has_aaaa = FALSE]

mdns_record_parse_ptr(d) == d.cam

mdns_record_parse_a(d) == [cam |-> d.cam, fam |-> IPv4]

mdns_record_parse_aaaa(d) == [cam |-> d.cam, fam |-> IPv6]

\* Where the thread goes on when `work` are the records left of a datagram.
After(work) == IF work = <<>> THEN "select" ELSE "parse"

\* The current record after a record of type t of datagram d, and whether it is
\* to be stored.
Parsed(t, d, from, cur0, same) ==
  LET cur == NewTransaction(cur0, same)
      last == clock + Ttl
  IN  CASE t = "PTR" ->
             [store |-> FALSE,
              cur |-> [cur EXCEPT !.ptr = mdns_record_parse_ptr(d),
                                  !.last = last, !.has_ptr = TRUE]]
        [] t = "A" /\ cur.has_ptr /\ from = IPv4 ->
             [store |-> TRUE,
              cur |-> [cur EXCEPT !.a = mdns_record_parse_a(d),
                                  !.has_a = TRUE, !.last = last]]
        [] t = "AAAA" /\ cur.has_ptr /\ from = IPv6 ->
             [store |-> TRUE,
              cur |-> [cur EXCEPT !.aaaa = mdns_record_parse_aaaa(d),
                                  !.has_aaaa = TRUE, !.last = last]]
        [] OTHER -> [store |-> FALSE, cur |-> cur]

\* An address is formatted into addrbuffer before the lock is taken; what is in
\* addrbuffer matters only while next() is about to copy it.
query_callback ==
  /\ q.at = "parse"
  /\ LET p == Parsed(Head(q.work), q.msg, q.from, q.cur, q.msg.id = q.curId)
         race == p.store /\ main.at = "formatted"
     IN  /\ q' = [q EXCEPT !.work = Tail(@), !.cur = p.cur,
                           !.curId = q.msg.id,
                           !.at = IF p.store THEN "insert" ELSE After(Tail(q.work))]
         /\ addrbuf' = IF ~race THEN addrbuf
                       ELSE IF q.from = IPv4 THEN p.cur.a ELSE p.cur.aaaa
         /\ raced' = IF race THEN raced \cup {main.cursor} ELSE raced
  /\ UNCHANGED <<running, records, clock, main, heard>>

\* ssp_records_lock is held by the iterator for as long as it exists.
LockFree == main.at \notin {"iter", "formatted"}

Insert ==
  /\ q.at = "insert" /\ LockFree
  /\ records' = [records EXCEPT ![q.cur.ptr] = q.cur]
  /\ heard' = [heard EXCEPT ![q.msg.cam] = q.cur.last - Ttl]
  /\ q' = [q EXCEPT !.at = After(q.work)]
  /\ UNCHANGED <<running, addrbuf, clock, main, raced>>

\* Mutant: a round follows whatever `running` says.
EndLoopUntested ==
  /\ q.at = "loop" /\ ~running
  /\ q' = [q EXCEPT !.at = "select"]
  /\ UNCHANGED <<running, records, addrbuf, clock, main, heard, raced>>

\* mdns_loop() ends at the test of `running` between two rounds.
EndLoop ==
  /\ q.at = "loop" /\ ~running
  /\ q' = [q EXCEPT !.at = "done"]
  /\ UNCHANGED <<running, records, addrbuf, clock, main, heard, raced>>

(***************************************************************************)
(* The main thread: load, iterate over the table, unload.                  *)
(***************************************************************************)
create_mdns_loop ==
  /\ main.at = "unloaded"
  /\ records' = [c \in Cameras |-> None]
  /\ running' = TRUE
  /\ q' = [q EXCEPT !.at = "loop"]
  /\ main' = [main EXCEPT !.at = "ready"]
  /\ UNCHANGED <<addrbuf, clock, heard, raced>>

SspMDnsIterator ==
  /\ main.at = "ready"
  /\ main' = [main EXCEPT !.at = "iter", !.now = clock,
                          !.iter = {c \in Cameras : records[c] # None}]
  /\ UNCHANGED <<q, running, records, addrbuf, clock, heard, raced>>

\* Mutant: a record is listed whatever its age.
ExpiredNever(r) == FALSE

Expired(r) == r.last < main.now

\* Mutant: the IPv4 address is taken without asking whether there is one.
ListedAddressAny(r) == r.a

\* The address next() formats for a record, None if it has none.
ListedAddress(r) ==
  IF r.has_a THEN r.a ELSE IF r.has_aaaa THEN r.aaaa ELSE None

\* next() up to the formatting of the address; the order of names is left open.
next(c) ==
  /\ main.at = "iter" /\ c \in main.iter
  /\ LET r == records[c]
     IN  IF Expired(r) \/ ListedAddress(r) = None
         THEN /\ main' = [main EXCEPT !.iter = @ \ {c}]
              /\ UNCHANGED addrbuf
         ELSE /\ main' = [main EXCEPT !.at = "formatted", !.cursor = c]
              /\ addrbuf' = ListedAddress(r)
  /\ UNCHANGED <<q, running, records, clock, heard, raced>>

\* next() from the copy of the formatted address to its return.
nextReturns ==
  /\ main.at = "formatted"
  /\ main' = [main EXCEPT !.at = "iter", !.iter = @ \ {main.cursor},
                          !.listed = @ \cup {[name |-> main.cursor,
                                              addr |-> addrbuf]},
                          !.cursor = None]
  /\ addrbuf' = None
  /\ UNCHANGED <<q, running, records, clock, heard, raced>>

\* hasNext() is false and the iterator is destroyed.
IteratorDone ==
  /\ main.at = "iter" /\ main.iter = {}
  /\ main' = [main EXCEPT !.at = "ready", !.listed = {}, !.now = 0]
  /\ raced' = {}
  /\ UNCHANGED <<q, running, records, addrbuf, clock, heard>>

stop_mdns_loop ==
  /\ main.at = "ready"
  /\ records' = [c \in Cameras |-> None]
  /\ main' = [main EXCEPT !.at = "cleared"]
  /\ UNCHANGED <<q, running, addrbuf, clock, heard, raced>>

ClearRunning ==
  /\ main.at = "cleared"
  /\ running' = FALSE
  /\ main' = [main EXCEPT !.at = "joining"]
  /\ UNCHANGED <<q, records, addrbuf, clock, heard, raced>>

Join ==
  /\ main.at = "joining" /\ q.at = "done"
  /\ main' = [main EXCEPT !.at = "stopped"]
  /\ UNCHANGED <<q, running, records, addrbuf, clock, heard, raced>>

Tick ==
  /\ clock < MaxTime
  /\ clock' = clock + 1
  /\ UNCHANGED <<q, running, records, addrbuf, main, heard, raced>>

Stopped == main.at = "stopped" /\ UNCHANGED vars

QueryThread ==
  \/ send_mdns_query \/ SelectTimeout \/ mdns_query_recv
  \/ query_callback \/ Insert \/ EndLoop

MainThread ==
  \/ create_mdns_loop \/ SspMDnsIterator \/ (\E c \in Cameras : next(c))
  \/ nextReturns \/ IteratorDone \/ stop_mdns_loop \/ ClearRunning \/ Join

Next ==
  \/ QueryThread \/ MainThread \/ Tick \/ Stopped
  \/ \E c \in Cameras, n \in DOMAIN q.sockets, shape \in Shapes :
       \E id \in {0, q.id[n]} : Answer(c, n, shape, id)

\* Both threads run while they can; the operating system answers select().
\* Cameras and the operator need not do anything.
Fairness ==
  /\ WF_vars(QueryThread)
  /\ WF_vars((\E c \in Cameras : next(c)) \/ nextReturns \/ IteratorDone)
  /\ WF_vars(ClearRunning \/ Join)

Spec == Init /\ [][Next]_vars /\ Fairness

(***************************************************************************)
(* Properties.                                                             *)
(***************************************************************************)

\* The table never holds the address of one camera under the name of another,
\* although query_callback() builds all records in one variable that outlives
\* the datagram and is shared by the sockets of both families.
RecordsOwnAddress ==
  \A c \in Cameras : records[c] # None =>
    /\ records[c].has_a => records[c].a.cam = c
    /\ records[c].has_aaaa => records[c].aaaa.cam = c

\* When an iteration of the dock ends it has listed exactly the cameras of which
\* an answer with a usable address was stored within the last Ttl: none that is
\* gone, and none missed because the thread stored others meanwhile.
ListingExact ==
  main.at = "iter" /\ main.iter = {} =>
    {i.name : i \in main.listed} =
      {c \in Cameras : heard[c] # None /\ heard[c] + Ttl >= main.now}

\* The table satisfies RecordsOwnAddress, and an entry that next() returned has
\* an address of its own camera, unless the query thread formatted an address
\* while next() was between its formatting and its copy: both use addrbuffer,
\* and only next() holds the lock.
ListedOwnAddress ==
  /\ RecordsOwnAddress
  /\ \A i \in main.listed : i.addr.cam = i.name \/ i.name \in raced

\* Unloading the module ends: stop_mdns_loop() joins a thread that may be about
\* to take the lock, or in a round whose answers are still coming.
StopJoins == main.at = "cleared" ~> main.at = "stopped"
=============================================================================
