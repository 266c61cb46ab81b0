--------------------------- MODULE FileRequests_proofs ---------------------------
(***************************************************************************)
(* Proofs about the two users of FileRequests, the file editor and the     *)
(* file panel of a pane.                                                   *)
(*                                                                         *)
(* FileEditor, for any files, servers, edits and connections: the requests *)
(* under way of a number are one, each generation of the session has one   *)
(* server, and the requests and answers with the number of a document are  *)
(* those it waits for (Invariance).  From it, an edit goes only by the     *)
(* user's own hand or to a question that has Shifted (EditsAreKept), and a *)
(* write reaches no other server than its own (WritesStayOnServer).        *)
(*                                                                         *)
(* FilePanel, for any directories, finitely many names, servers and        *)
(* connections: while the connection stands, either the list is what the   *)
(* server has, or something is under way that will refresh it              *)
(* (PanelInvariance).  From it, when nothing is under way the list is      *)
(* fresh (ListIsFresh).                                                    *)
(***************************************************************************)
EXTENDS FileEditor, FilePanel, EventQueues, SequenceTheorems, FiniteSetTheorems, TLAPS

\* Queues of signals: the first is taken out, or one is appended.

\* A queue with a first event, by its positions.
LEMMA FirstAndRest ==
    ASSUME NEW V, NEW q \in Seq(V), q # <<>>
    PROVE  /\ Len(q) \in Nat \ {0} /\ DOMAIN q = 1 .. Len(q) /\ Head(q) = q[1] /\ Head(q) \in V
           /\ Tail(q) \in Seq(V) /\ DOMAIN Tail(q) = 1 .. Len(q) - 1
           /\ \A i \in 1 .. Len(q) - 1 : Tail(q)[i] = q[i + 1] BY EmptySeq, LenProperties, HeadTailProperties

\* The queue without its first event.
LEMMA TakeNone ==
    ASSUME NEW V, NEW q \in Seq(V), q # <<>>, NEW S
    PROVE  NoneOf(q, S) <=> Head(q) \notin S /\ NoneOf(Tail(q), S)
<1> DEFINE n == Len(q)  h == Head(q)  t == Tail(q)
<1> HIDE DEF n, h, t
<1>1. /\ n \in Nat \ {0} /\ DOMAIN q = 1 .. n /\ h = q[1]
      /\ DOMAIN t = 1 .. n - 1 /\ \A i \in 1 .. n - 1 : t[i] = q[i + 1] BY FirstAndRest DEF n, h, t
<1>2. \A k \in 1 .. n : k = 1 \/ (k - 1 \in 1 .. n - 1 /\ q[k] = t[k - 1]) BY <1>1
<1>3. \A k \in 1 .. n - 1 : k + 1 \in 1 .. n BY <1>1
<1>4. NoneOf(q, S) => h \notin S /\ NoneOf(t, S) BY <1>1, <1>3 DEF NoneOf
<1>5. h \notin S /\ NoneOf(t, S) => NoneOf(q, S) BY <1>1, <1>2 DEF NoneOf
<1> QED BY <1>4, <1>5 DEF h, t

\* An order survives the taking of the first event, which is before all others.
LEMMA TakeOrdered ==
    ASSUME NEW V, NEW q \in Seq(V), q # <<>>, NEW S, NEW T
    PROVE  Ordered(q, S, T) => Ordered(Tail(q), S, T) /\ (Head(q) \in S => NoneOf(Tail(q), T))
<1> DEFINE n == Len(q)  h == Head(q)  t == Tail(q)
<1> HIDE DEF n, h, t
<1>1. /\ n \in Nat \ {0} /\ DOMAIN q = 1 .. n /\ h = q[1]
      /\ DOMAIN t = 1 .. n - 1 /\ \A i \in 1 .. n - 1 : t[i] = q[i + 1] BY FirstAndRest DEF n, h, t
<1>2. SUFFICES ASSUME Ordered(q, S, T) PROVE Ordered(t, S, T) /\ (h \in S => NoneOf(t, T)) BY DEF h, t
<1>3. ASSUME NEW i \in 1 .. n - 1, NEW k \in 1 .. n - 1, i < k, t[i] \in S PROVE t[k] \notin T
  <2>1. i + 1 \in 1 .. n /\ k + 1 \in 1 .. n /\ i + 1 < k + 1 BY <1>1, <1>3
  <2> QED BY <1>1, <1>2, <1>3, <2>1 DEF Ordered
<1>4. ASSUME h \in S, NEW k \in 1 .. n - 1 PROVE t[k] \notin T BY <1>1, <1>2, <1>4 DEF Ordered
<1> QED BY <1>1, <1>3, <1>4 DEF Ordered, NoneOf

\* So does a promise of later events, and the first event leaves behind what follows it.
LEMMA TakeFollowed ==
    ASSUME NEW V, NEW q \in Seq(V), q # <<>>, NEW S, NEW T
    PROVE  Followed(q, S, T) => Followed(Tail(q), S, T) /\ (Head(q) \in S => ~NoneOf(Tail(q), T))
<1> DEFINE n == Len(q)  h == Head(q)  t == Tail(q)
<1> HIDE DEF n, h, t
<1>1. /\ n \in Nat \ {0} /\ DOMAIN q = 1 .. n /\ h = q[1]
      /\ DOMAIN t = 1 .. n - 1 /\ \A i \in 1 .. n - 1 : t[i] = q[i + 1] BY FirstAndRest DEF n, h, t
<1>2. SUFFICES ASSUME Followed(q, S, T) PROVE Followed(t, S, T) /\ (h \in S => ~NoneOf(t, T)) BY DEF h, t
<1>3. ASSUME NEW i \in 1 .. n, NEW k \in 1 .. n, i < k
      PROVE  k - 1 \in 1 .. n - 1 /\ i - 1 < k - 1 /\ t[k - 1] = q[k] BY <1>1, <1>3
<1>4. ASSUME NEW i \in 1 .. n - 1, t[i] \in S PROVE \E k \in 1 .. n - 1 : i < k /\ t[k] \in T
  <2>1. i + 1 \in 1 .. n /\ q[i + 1] \in S /\ (i + 1) - 1 = i BY <1>1, <1>4
  <2>2. PICK k \in 1 .. n : i + 1 < k /\ q[k] \in T BY <1>1, <1>2, <2>1 DEF Followed
  <2> QED BY <1>3, <2>1, <2>2
<1>5. ASSUME h \in S PROVE \E k \in 1 .. n - 1 : t[k] \in T
  <2>1. 1 \in 1 .. n /\ q[1] \in S BY <1>1, <1>5
  <2>2. PICK k \in 1 .. n : 1 < k /\ q[k] \in T BY <1>1, <1>2, <2>1 DEF Followed
  <2> QED BY <1>3, <2>1, <2>2
<1> QED BY <1>1, <1>4, <1>5 DEF Followed, NoneOf

\* A queue with another appended, by its positions.
LEMMA BothParts ==
    ASSUME NEW V, NEW q \in Seq(V), NEW r \in Seq(V)
    PROVE  /\ q \o r \in Seq(V) /\ Len(q) \in Nat /\ Len(r) \in Nat
           /\ DOMAIN q = 1 .. Len(q) /\ DOMAIN r = 1 .. Len(r) /\ DOMAIN (q \o r) = 1 .. Len(q) + Len(r)
           /\ \A i \in 1 .. Len(q) : (q \o r)[i] = q[i]
           /\ \A i \in 1 .. Len(r) : (q \o r)[Len(q) + i] = r[i]
<1>1. /\ q \o r \in Seq(V) /\ Len(q \o r) = Len(q) + Len(r)
      /\ \A i \in 1 .. Len(q) + Len(r) : (q \o r)[i] = IF i <= Len(q) THEN q[i] ELSE r[i - Len(q)]
  BY ConcatProperties
<1>2. Len(q) \in Nat /\ Len(r) \in Nat /\ DOMAIN q = 1 .. Len(q) /\ DOMAIN r = 1 .. Len(r) BY LenProperties
<1>3. DOMAIN (q \o r) = 1 .. Len(q) + Len(r) BY <1>1, LenProperties
<1> DEFINE m == Len(q)  n == Len(r)  s == q \o r
<1> HIDE DEF m, n, s
<1>4. m \in Nat /\ n \in Nat /\ \A i \in 1 .. m + n : s[i] = IF i <= m THEN q[i] ELSE r[i - m]
  BY <1>1, <1>2 DEF m, n, s
<1>5. \A i \in 1 .. m : i \in 1 .. m + n /\ i <= m BY <1>4
<1>6. \A i \in 1 .. n : m + i \in 1 .. m + n /\ ~(m + i <= m) /\ (m + i) - m = i BY <1>4
<1>7. (\A i \in 1 .. m : s[i] = q[i]) /\ \A i \in 1 .. n : s[m + i] = r[i] BY <1>4, <1>5, <1>6
<1> QED BY <1>1, <1>2, <1>3, <1>7 DEF m, n, s

\* What waits in two queues in a row waits in one of them.
LEMMA JoinNone ==
    ASSUME NEW V, NEW q \in Seq(V), NEW r \in Seq(V), NEW S
    PROVE  NoneOf(q \o r, S) <=> NoneOf(q, S) /\ NoneOf(r, S)
<1> DEFINE m == Len(q)  n == Len(r)  s == q \o r
<1> HIDE DEF m, n, s
<1>1. /\ m \in Nat /\ n \in Nat /\ DOMAIN q = 1 .. m /\ DOMAIN r = 1 .. n /\ DOMAIN s = 1 .. m + n
      /\ (\A i \in 1 .. m : s[i] = q[i]) /\ \A i \in 1 .. n : s[m + i] = r[i] BY BothParts DEF m, n, s
<1>2. (\A i \in 1 .. m : i \in 1 .. m + n) /\ \A i \in 1 .. n : m + i \in 1 .. m + n BY <1>1
<1>3. \A k \in 1 .. m + n : k \in 1 .. m \/ (k - m \in 1 .. n /\ m + (k - m) = k) BY <1>1
<1>4. NoneOf(s, S) => NoneOf(q, S) /\ NoneOf(r, S) BY <1>1, <1>2 DEF NoneOf
<1>5. NoneOf(q, S) /\ NoneOf(r, S) => NoneOf(s, S) BY <1>1, <1>3 DEF NoneOf
<1> QED BY <1>4, <1>5 DEF s

\* An order survives the joining of two queues that do not break it between them.
LEMMA JoinOrdered ==
    ASSUME NEW V, NEW q \in Seq(V), NEW r \in Seq(V), NEW S, NEW T,
           Ordered(q, S, T), Ordered(r, S, T), NoneOf(q, S) \/ NoneOf(r, T)
    PROVE  Ordered(q \o r, S, T)
<1> DEFINE m == Len(q)  n == Len(r)  s == q \o r
<1> HIDE DEF m, n, s
<1>1. /\ m \in Nat /\ n \in Nat /\ DOMAIN q = 1 .. m /\ DOMAIN r = 1 .. n /\ DOMAIN s = 1 .. m + n
      /\ (\A i \in 1 .. m : s[i] = q[i]) /\ \A i \in 1 .. n : s[m + i] = r[i] BY BothParts DEF m, n, s
<1>2. \A k \in 1 .. m + n : k \in 1 .. m \/ (k - m \in 1 .. n /\ m + (k - m) = k /\ ~(k \in 1 .. m)) BY <1>1
<1>3. ASSUME NEW i \in 1 .. m + n, NEW k \in 1 .. m + n, i < k, s[i] \in S PROVE s[k] \notin T
  <2>1. CASE i \in 1 .. m /\ k \in 1 .. m BY <1>1, <1>3, <2>1 DEF Ordered
  <2>2. CASE i \in 1 .. m /\ k \notin 1 .. m BY <1>1, <1>2, <2>2, <1>3 DEF NoneOf
  <2>3. CASE i \notin 1 .. m
    <3>1. i - m \in 1 .. n /\ s[i] = r[i - m] BY <1>1, <1>2, <2>3
    <3>2. k \notin 1 .. m BY <1>1, <1>3, <2>3
    <3>3. k - m \in 1 .. n /\ s[k] = r[k - m] BY <1>1, <1>2, <3>2
    <3>4. i - m < k - m BY <1>1, <1>3
    <3> QED BY <1>1, <1>3, <3>1, <3>3, <3>4 DEF Ordered
  <2> QED BY <2>1, <2>2, <2>3
<1> QED BY <1>1, <1>3 DEF Ordered, s

\* Events of the first queue may be followed by those of the second.
LEMMA JoinFollowed ==
    ASSUME NEW V, NEW q \in Seq(V), NEW r \in Seq(V), NEW S, NEW T,
           Followed(q, S, T) \/ ~NoneOf(r, T), Followed(r, S, T)
    PROVE  Followed(q \o r, S, T)
<1> DEFINE m == Len(q)  n == Len(r)  s == q \o r
<1> HIDE DEF m, n, s
<1>1. /\ m \in Nat /\ n \in Nat /\ DOMAIN q = 1 .. m /\ DOMAIN r = 1 .. n /\ DOMAIN s = 1 .. m + n
      /\ (\A i \in 1 .. m : s[i] = q[i]) /\ \A i \in 1 .. n : s[m + i] = r[i] BY BothParts DEF m, n, s
<1>2. \A k \in 1 .. m + n : k \in 1 .. m \/ (k - m \in 1 .. n /\ m + (k - m) = k) BY <1>1
<1>3. ASSUME NEW i \in 1 .. m + n, s[i] \in S PROVE \E k \in 1 .. m + n : i < k /\ s[k] \in T
  <2>1. CASE i \in 1 .. m
    <3>1. CASE Followed(q, S, T)
      <4>1. PICK k \in 1 .. m : i < k /\ q[k] \in T BY <1>1, <1>3, <2>1, <3>1 DEF Followed
      <4>2. k \in 1 .. m + n /\ s[k] = q[k] BY <1>1
      <4> QED BY <4>1, <4>2
    <3>2. CASE ~NoneOf(r, T)
      <4>1. PICK k \in 1 .. n : r[k] \in T BY <1>1, <3>2 DEF NoneOf
      <4>2. m + k \in 1 .. m + n /\ s[m + k] = r[k] /\ i < m + k BY <1>1, <2>1
      <4> QED BY <4>1, <4>2
    <3> QED BY <3>1, <3>2
  <2>2. CASE i \notin 1 .. m
    <3>1. i - m \in 1 .. n /\ s[i] = r[i - m] BY <1>1, <1>2, <2>2
    <3>2. PICK k \in 1 .. n : i - m < k /\ r[k] \in T BY <1>1, <1>3, <3>1 DEF Followed
    <3>3. m + k \in 1 .. m + n /\ s[m + k] = r[k] /\ i < m + k BY <1>1, <3>2
    <3> QED BY <3>2, <3>3
  <2> QED BY <2>1, <2>2
<1> QED BY <1>1, <1>3 DEF Followed, s

\* An empty queue and one of a single event.
LEMMA NoEvents ==
    ASSUME NEW V, NEW S, NEW T
    PROVE  <<>> \in Seq(V) /\ NoneOf(<<>>, S) /\ Ordered(<<>>, S, T) /\ Followed(<<>>, S, T)
BY EmptySeq DEF NoneOf, Ordered, Followed

\* A queue of a single event is in any order, and nothing follows its event.
LEMMA OneEvent ==
    ASSUME NEW V, NEW a \in V, NEW S, NEW T
    PROVE  /\ <<a>> \in Seq(V) /\ (NoneOf(<<a>>, S) <=> a \notin S) /\ Ordered(<<a>>, S, T)
           /\ Followed(<<a>>, S, T) <=> a \notin S
<1>1. <<a>> \in Seq(V) /\ DOMAIN <<a>> = 1 .. 1 /\ <<a>>[1] = a OBVIOUS
<1> DEFINE q == <<a>>
<1> HIDE DEF q
<1>2. q \in Seq(V) /\ DOMAIN q = 1 .. 1 /\ q[1] = a BY <1>1 DEF q
<1>3. \A i \in 1 .. 1 : i = 1 OBVIOUS
<1>4. ~(1 < 1) /\ 1 \in 1 .. 1 OBVIOUS
<1> QED BY <1>2, <1>3, <1>4 DEF NoneOf, Ordered, Followed, q

\* An event is appended.
LEMMA AddNone ==
    ASSUME NEW V, NEW q \in Seq(V), NEW a \in V, NEW S
    PROVE  /\ Append(q, a) \in Seq(V) /\ Append(q, a) = q \o <<a>>
           /\ NoneOf(Append(q, a), S) <=> NoneOf(q, S) /\ a \notin S
<1>1. Append(q, a) = q \o <<a>> /\ <<a>> \in Seq(V) BY AppendIsConcat, OneEvent
<1>2. Append(q, a) \in Seq(V) BY AppendProperties
<1>3. NoneOf(q \o <<a>>, S) <=> NoneOf(q, S) /\ a \notin S BY <1>1, JoinNone, OneEvent
<1> QED BY <1>1, <1>2, <1>3

\* An order survives a new event that may come last.
LEMMA AddOrdered ==
    ASSUME NEW V, NEW q \in Seq(V), NEW a \in V, NEW S, NEW T,
           Ordered(q, S, T), NoneOf(q, S) \/ a \notin T
    PROVE  Ordered(q \o <<a>>, S, T)
BY OneEvent, JoinOrdered

\* A new event that needs no follower leaves the promises, and may keep one.
LEMMA AddFollowed ==
    ASSUME NEW V, NEW q \in Seq(V), NEW a \in V, NEW S, NEW T, a \notin S,
           Followed(q, S, T) \/ a \in T
    PROVE  Followed(q \o <<a>>, S, T)
BY OneEvent, JoinFollowed

\* None of a set is none of a smaller one, and then nothing has to follow.
LEMMA FewerNone ==
    ASSUME NEW q, NEW S, NEW T, S \subseteq T, NoneOf(q, T)
    PROVE  NoneOf(q, S) BY DEF NoneOf

\* Where no event is, none is out of order and none waits for a follower.
LEMMA NoneFollowed ==
    ASSUME NEW q, NEW S, NEW T, NoneOf(q, S)
    PROVE  Followed(q, S, T) /\ Ordered(q, S, T) BY DEF NoneOf, Followed, Ordered

\* The signals between the session and the worker.

Openings == [call : [op : {"connect", "disconnect"}], gen : Gens, host : Hosts]
Reads == [call : [op : {"read"}, file : Files, id : Ids], gen : Gens, host : Hosts]
Writes == [call : [op : {"write"}, file : Files, id : Ids, text : Texts], gen : Gens, host : Hosts]
Asks == Reads \cup Writes
Calls == Openings \cup Asks

News == [call : [op : {"up", "down"}], gen : Gens]
Texted == [call : [op : {"read", "write"}, file : Files, id : Ids, ok : BOOLEAN, text : Texts], gen : Gens]
Written == [call : [op : {"write"}, file : Files, id : Ids, ok : BOOLEAN], gen : Gens]
Answers == Texted \cup Written
Reports == News \cup Answers

Ends == connected \in BOOLEAN /\ target \in Hosts /\ gen \in Gens /\ link \in Links \cup {NoLink}
Signals == calls \in Seq(Calls) /\ deferred \in SUBSET Asks /\ reports \in Seq(Reports)

\* Requests and servers.

\* The opening of a connection or its end, and the requests of a generation.
Opening(g) == {c \in Openings : c.gen = g}
Asked(g) == {c \in Asks : c.gen = g}
Older(g) == {c \in Asks : c.gen < g}
Newer(g) == {c \in Calls : c.gen > g}
Astray(g, h) == {c \in Calls : c.gen = g /\ c.host # h}

\* A generation has one server.
OneServer(g) ==
    \E h \in Hosts :
        /\ g = gen => target = h
        /\ link # NoLink /\ link.gen = g => link.host = h
        /\ NoneOf(calls, Astray(g, h)) /\ \A c \in deferred : c.gen = g => c.host = h

\* The requests of a generation come after its opening and before the next.
InTurn ==
    /\ NoneOf(calls, Newer(gen)) /\ \A c \in deferred : c.gen <= gen
    /\ \A g \in Gens : Ordered(calls, Asked(g), Opening(g)) /\ Ordered(calls, Opening(g), Older(g))
    /\ link # NoLink =>
        /\ link.gen <= gen /\ NoneOf(calls, Older(link.gen))
        /\ \A g \in Gens : link.gen < g /\ g <= gen => ~NoneOf(calls, Opening(g))

Served == InTurn /\ \A g \in Gens : OneServer(g)

\* Requests and documents.

Asking(i) == {c \in Asks : c.call.id = i}
Answering(i) == {r \in Answers : r.call.id = i}

\* No two requests under way have one number.
Alone(i) ==
    /\ Ordered(calls, Asking(i), Asking(i)) /\ Ordered(reports, Answering(i), Answering(i))
    /\ NoneOf(calls, Asking(i)) \/ NoneOf(reports, Answering(i))
    /\ \A c \in deferred : c.call.id = i =>
        /\ NoneOf(calls, Asking(i)) /\ NoneOf(reports, Answering(i))
        /\ \A e \in deferred : e.call.id = i => e = c

\* A document d waits for a request or its answer.
Awaits(d, op) == d.busy /\ (op = "read" => ~d.loaded) /\ (op = "write" => d.loaded)
WrongCall(f, d) ==
    {c \in Asks : /\ c.call.file = f /\ c.call.id = d.id
                  /\ ~(Awaits(d, c.call.op) /\ (c.call.op = "write" => c.call.text = d.text))}
WrongAnswer(f, d, s) ==
    {r \in Answers : /\ r.call.file = f /\ r.call.id = d.id
                     /\ ~(Awaits(d, r.call.op) /\ (r.call.op = "write" /\ r.call.ok => d.text \in s))}

\* The requests and answers that bear a document's number are those it awaits.
Fits(f, d, s) ==
    /\ NoneOf(calls, WrongCall(f, d)) /\ \A c \in deferred : c \notin WrongCall(f, d)
    /\ NoneOf(reports, WrongAnswer(f, d, s))

\* A text that was read was on a server.
Unknown(f, s) == {r \in Answers : r.call.op = "read" /\ r.call.file = f /\ r.call.ok /\ r.call.text \notin s}
Stocked(f) == (\A h \in Hosts : disk[h][f] \in stored[f]) /\ NoneOf(reports, Unknown(f, stored[f]))

\* What the parts of a document say of each other.
Sound(d) ==
    /\ d.enabled => d.loaded /\ ~d.busy
    /\ d.dirty => d.loaded
    /\ d.fresh => d.id = NoId /\ ~d.loaded /\ ~d.busy
Clean(d, s) == d.loaded /\ ~d.dirty => d.text \in s
Kept(f) == docs[f] # NoDoc => Sound(docs[f]) /\ Clean(docs[f], stored[f]) /\ Fits(f, docs[f], stored[f])

\* The question is about a document that is there, as long as it does not know better.
Known == question # NoQuestion /\ ~question.gone => question.file \in Open

\* Every edit is one act of the user.
IInv ==
    /\ TypeOK /\ tabs \in Seq(Files) /\ last <= acts
    /\ Signals /\ Served /\ Known
    /\ \A i \in Ids : Alone(i)
    /\ \A f \in Files : Stocked(f) /\ Kept(f)


\* The operators on documents.

\* A document, part by part.
LEMMA Parts ==
    ASSUME NEW d \in Doc
    PROVE  /\ d.loaded \in BOOLEAN /\ d.busy \in BOOLEAN /\ d.dirty \in BOOLEAN /\ d.enabled \in BOOLEAN
           /\ d.closing \in BOOLEAN /\ d.undo \in BOOLEAN /\ d.timer \in BOOLEAN /\ d.fresh \in BOOLEAN
           /\ d.text \in Texts /\ d.gen \in Gens /\ d.id \in Ids \cup {NoId} BY DEF Doc

\* A document without an answer to wait for.
LEMMA IdleParts ==
    ASSUME NEW d \in Doc, connected \in BOOLEAN
    PROVE  /\ Idle(d) \in Doc /\ ~Idle(d).busy /\ Idle(d).enabled = (d.loaded /\ connected)
           /\ Idle(d).loaded = d.loaded /\ Idle(d).dirty = d.dirty /\ Idle(d).fresh = d.fresh
           /\ Idle(d).text = d.text /\ Idle(d).id = d.id BY DEF Idle, Doc

\* A document that waits for the answer to request id.
LEMMA BusyParts ==
    ASSUME NEW d \in Doc, NEW id \in Ids, gen \in Gens
    PROVE  /\ Busy(d, id) \in Doc /\ Busy(d, id).busy /\ ~Busy(d, id).enabled
           /\ Busy(d, id).loaded = d.loaded /\ Busy(d, id).dirty = d.dirty /\ Busy(d, id).fresh = d.fresh
           /\ Busy(d, id).text = d.text /\ Busy(d, id).id = id BY DEF Busy, Doc

\* Requests and servers.

\* The parts of a call.
LEMMA CallParts ==
    ASSUME NEW c \in Calls
    PROVE  /\ c.gen \in Gens /\ c.host \in Hosts /\ c \in Openings \cup Asks
           /\ c \in Openings <=> c.call.op \in {"connect", "disconnect"}
           /\ c \in Asks <=> c.call.op \in {"read", "write"}
           /\ c \in Asks => c.call.file \in Files /\ c.call.id \in Ids
           /\ c \in Asks /\ c.call.op = "write" => c.call.text \in Texts
  BY DEF Calls, Asks, Openings, Reads, Writes

\* Requests that are taken, put off or given up, and a lost connection.
LEMMA ServedLess ==
    ASSUME Signals, Ends, Served, UNCHANGED <<target, gen>>, link' \in {link, NoLink},
           calls' = calls \/ (calls # <<>> /\ Head(calls) \in Asks /\ calls' = Tail(calls)),
           \A c \in deferred' : c \in deferred \/ (calls # <<>> /\ c = Head(calls))
    PROVE  Served'
<1>1. calls \in Seq(Calls) /\ deferred \in SUBSET Asks BY DEF Signals
<1>2. ASSUME NEW S, NoneOf(calls, S) PROVE NoneOf(calls', S) BY <1>1, <1>2, TakeNone
<1>3. ASSUME NEW S, NEW T, Ordered(calls, S, T) PROVE Ordered(calls', S, T) BY <1>1, <1>3, TakeOrdered
<1>4. ASSUME NEW g \in Gens, ~NoneOf(calls, Opening(g)) PROVE ~NoneOf(calls', Opening(g))
  <2>1. ASSUME calls # <<>>, Head(calls) \in Asks PROVE Head(calls) \notin Opening(g)
    BY <2>1, <1>1, FirstAndRest, CallParts DEF Opening
  <2> QED BY <1>1, <1>4, <2>1, TakeNone
<1>5. ASSUME NEW S, calls # <<>>, NoneOf(calls, S) PROVE Head(calls) \notin S /\ Head(calls) \in Calls
  BY <1>1, <1>5, TakeNone, FirstAndRest
<1>6. InTurn'
  <2>1. NoneOf(calls', Newer(gen)) BY <1>2 DEF Served, InTurn
  <2>2. ASSUME NEW c \in deferred' PROVE c.gen <= gen
    <3>1. CASE c \in deferred BY <3>1 DEF Served, InTurn
    <3>2. CASE calls # <<>> /\ c = Head(calls)
      BY <3>2, <1>5, CallParts, GenAssumption DEF Served, InTurn, Gens, Ends, Newer
    <3> QED BY <3>1, <3>2
  <2>3. \A g \in Gens : Ordered(calls', Asked(g), Opening(g)) /\ Ordered(calls', Opening(g), Older(g))
    BY <1>3 DEF Served, InTurn
  <2>4. link' # NoLink => link' = link OBVIOUS
  <2>5. link' # NoLink => NoneOf(calls', Older(link.gen)) BY <2>4, <1>2 DEF Served, InTurn
  <2>6. link' # NoLink => \A g \in Gens : link.gen < g /\ g <= gen => ~NoneOf(calls', Opening(g))
    BY <2>4, <1>4 DEF Served, InTurn
  <2> HIDE DEF Opening, Asked, Older, Newer
  <2>7. link # NoLink => link.gen <= gen BY DEF Served, InTurn
  <2> QED BY <2>1, <2>2, <2>3, <2>4, <2>5, <2>6, <2>7 DEF InTurn
<1>7. ASSUME NEW g \in Gens PROVE OneServer(g)'
  <2>1. PICK h \in Hosts : /\ g = gen => target = h
                           /\ link # NoLink /\ link.gen = g => link.host = h
                           /\ NoneOf(calls, Astray(g, h)) /\ \A c \in deferred : c.gen = g => c.host = h
    BY DEF Served, OneServer
  <2>2. NoneOf(calls', Astray(g, h)) BY <2>1, <1>2
  <2>3. ASSUME NEW c \in deferred', c.gen = g PROVE c.host = h BY <2>1, <2>3, <1>5 DEF Astray
  <2> QED BY <2>1, <2>2, <2>3 DEF OneServer
<1> QED BY <1>6, <1>7 DEF Served

\* A request is made.
LEMMA ServedAsk ==
    ASSUME Signals, Ends, Served, UNCHANGED <<target, gen, link, deferred>>,
           NEW c \in Asks, c.gen = gen, c.host = target, calls' = Append(calls, c)
    PROVE  Served'
<1>1. calls \in Seq(Calls) /\ c \in Calls BY DEF Signals, Calls
<1>11. calls' = calls \o <<c>> BY <1>1, AddNone
<1>2. ASSUME NEW S, NoneOf(calls, S), c \notin S PROVE NoneOf(calls', S) BY <1>1, <1>2, AddNone
<1>3. ASSUME NEW S, NEW T, Ordered(calls, S, T), c \notin T PROVE Ordered(calls', S, T)
  BY <1>1, <1>11, <1>3, AddOrdered
<1>4. ASSUME NEW S, ~NoneOf(calls, S) PROVE ~NoneOf(calls', S) BY <1>1, <1>4, AddNone
<1>5. gen \in Nat /\ Gens \subseteq Nat BY GenAssumption DEF Ends, Gens
<1>6. \A g \in Gens : c \notin Opening(g) BY <1>1, CallParts DEF Opening
<1>7. InTurn'
  <2>1. c \notin Newer(gen) BY <1>5 DEF Newer
  <2>2. NoneOf(calls', Newer(gen)) BY <2>1, <1>2 DEF Served, InTurn
  <2>3. ASSUME NEW g \in Gens
        PROVE  Ordered(calls', Asked(g), Opening(g)) /\ Ordered(calls', Opening(g), Older(g))
    <3>1. Ordered(calls, Asked(g), Opening(g)) /\ Ordered(calls, Opening(g), Older(g)) BY DEF Served, InTurn
    <3>2. Ordered(calls', Asked(g), Opening(g)) BY <3>1, <1>3, <1>6
    <3>3. CASE g <= gen BY <3>3, <1>5, <3>1, <3>2, <1>3 DEF Older
    <3>4. CASE ~(g <= gen) BY <3>4, <1>5, <2>2, <3>2, FewerNone, NoneFollowed DEF Opening, Newer, Calls
    <3> QED BY <3>3, <3>4
  <2>4. ASSUME link # NoLink PROVE link.gen <= gen /\ NoneOf(calls', Older(link.gen))
    <3>1. link.gen <= gen /\ NoneOf(calls, Older(link.gen)) BY <2>4 DEF Served, InTurn
    <3>2. link.gen \in Nat BY <2>4, <1>5 DEF Ends, Links
    <3>3. ~(gen < link.gen) BY <3>1, <3>2, <1>5
    <3>4. c \notin Older(link.gen) BY <3>3 DEF Older
    <3> QED BY <3>1, <3>4, <1>2
  <2>5. link # NoLink => \A g \in Gens : link.gen < g /\ g <= gen => ~NoneOf(calls', Opening(g))
    BY <1>4 DEF Served, InTurn
  <2>6. \A d \in deferred : d.gen <= gen BY DEF Served, InTurn
  <2> HIDE DEF Opening, Asked, Older, Newer
  <2> QED BY <2>2, <2>3, <2>4, <2>5, <2>6 DEF InTurn
<1>8. ASSUME NEW g \in Gens PROVE OneServer(g)'
  <2>1. PICK h \in Hosts : /\ g = gen => target = h
                           /\ link # NoLink /\ link.gen = g => link.host = h
                           /\ NoneOf(calls, Astray(g, h)) /\ \A d \in deferred : d.gen = g => d.host = h
    BY DEF Served, OneServer
  <2>2. c \notin Astray(g, h) BY <2>1 DEF Astray
  <2>3. NoneOf(calls', Astray(g, h)) BY <2>1, <2>2, <1>2
  <2> QED BY <2>1, <2>3 DEF OneServer
<1> QED BY <1>7, <1>8 DEF Served

\* The session begins a connection or ends one.
LEMMA ServedOpening ==
    ASSUME Signals, Ends, Served, UNCHANGED <<link, deferred>>, gen < MaxGen, gen' = gen + 1,
           target' \in Hosts, NEW c \in Openings, c.gen = gen + 1, c.host = target', calls' = Append(calls, c)
    PROVE  Served'
<1>1. calls \in Seq(Calls) /\ c \in Calls BY DEF Signals, Calls
<1>11. calls' = calls \o <<c>> BY <1>1, AddNone
<1>2. ASSUME NEW S, NoneOf(calls, S), c \notin S PROVE NoneOf(calls', S) BY <1>1, <1>2, AddNone
<1>3. ASSUME NEW S, NEW T, Ordered(calls, S, T), NoneOf(calls, S) \/ c \notin T PROVE Ordered(calls', S, T)
  BY <1>1, <1>11, <1>3, AddOrdered
<1>4. ASSUME NEW S, ~NoneOf(calls, S) \/ c \in S PROVE ~NoneOf(calls', S) BY <1>1, <1>4, AddNone
<1>5. gen \in Nat /\ Gens \subseteq Nat /\ gen' = gen + 1 BY GenAssumption DEF Ends, Gens
<1>6. c \notin Asks BY <1>1, CallParts
<1>7. NoneOf(calls, Newer(gen)) /\ (\A d \in deferred : d.gen <= gen)
      /\ (link # NoLink => link.gen \in Gens /\ link.gen <= gen) BY DEF Served, InTurn, Ends, Links
<1>71. \A d \in deferred : d.gen \in Gens BY CallParts DEF Signals, Calls
<1>8. InTurn'
  <2>1. c \notin Newer(gen + 1) BY <1>5 DEF Newer
  <2>2. Newer(gen + 1) \subseteq Newer(gen)
    <3>1. \A d \in Calls : d.gen \in Nat BY CallParts, <1>5
    <3> QED BY <3>1, <1>5 DEF Newer
  <2>3. NoneOf(calls', Newer(gen + 1)) BY <2>1, <2>2, <1>7, <1>2, FewerNone
  <2>4. ASSUME NEW g \in Gens
        PROVE  Ordered(calls', Asked(g), Opening(g)) /\ Ordered(calls', Opening(g), Older(g))
    <3>1. Ordered(calls, Asked(g), Opening(g)) /\ Ordered(calls, Opening(g), Older(g)) BY DEF Served, InTurn
    <3>2. c \notin Older(g) BY <1>6 DEF Older
    <3>3. c \in Opening(g) => NoneOf(calls, Asked(g))
      <4>1. SUFFICES ASSUME c \in Opening(g) PROVE Asked(g) \subseteq Newer(gen) BY <1>7, FewerNone
      <4>2. g = gen + 1 /\ gen + 1 > gen BY <4>1, <1>5 DEF Opening
      <4> QED BY <4>2 DEF Asked, Newer, Calls
    <3> QED BY <3>1, <3>2, <3>3, <1>3
  <2>5. ASSUME link # NoLink PROVE link.gen <= gen + 1 /\ NoneOf(calls', Older(link.gen))
    <3>1. NoneOf(calls, Older(link.gen)) BY <2>5 DEF Served, InTurn
    <3>2. c \notin Older(link.gen) BY <1>6 DEF Older
    <3>3. link.gen <= gen + 1
      <4>1. link.gen \in Nat /\ link.gen <= gen BY <2>5, <1>5, <1>7
      <4> QED BY <4>1, <1>5
    <3> QED BY <3>1, <3>2, <3>3, <1>2
  <2>6. ASSUME link # NoLink, NEW g \in Gens, link.gen < g, g <= gen + 1 PROVE ~NoneOf(calls', Opening(g))
    <3>1. CASE g <= gen BY <2>6, <3>1, <1>4 DEF Served, InTurn
    <3>2. CASE ~(g <= gen) BY <2>6, <3>2, <1>5, <1>4 DEF Opening
    <3> QED BY <3>1, <3>2
  <2>7. ASSUME NEW d \in deferred PROVE d.gen <= gen + 1
    <3>1. d.gen \in Nat /\ d.gen <= gen BY <1>5, <1>7, <1>71
    <3> QED BY <3>1, <1>5
  <2> HIDE DEF Opening, Asked, Older, Newer
  <2> QED BY <2>3, <2>4, <2>5, <2>6, <2>7, <1>5 DEF InTurn
<1>9. ASSUME NEW g \in Gens PROVE OneServer(g)'
  <2>1. CASE g # gen + 1
    <3>1. PICK h \in Hosts : /\ link # NoLink /\ link.gen = g => link.host = h
                             /\ NoneOf(calls, Astray(g, h)) /\ \A d \in deferred : d.gen = g => d.host = h
      BY DEF Served, OneServer
    <3>2. c \notin Astray(g, h) BY <2>1 DEF Astray
    <3>3. NoneOf(calls', Astray(g, h)) BY <3>1, <3>2, <1>2
    <3> QED BY <2>1, <3>1, <3>3, <1>5 DEF OneServer
  <2>2. CASE g = gen + 1
    <3>1. PICK h \in Hosts : h = target' OBVIOUS
    <3>2. Astray(g, h) \ {c} \subseteq Newer(gen) /\ c \notin Astray(g, h) BY <1>5, <2>2, <3>1 DEF Astray, Newer
    <3>3. Astray(g, h) \subseteq Newer(gen) BY <3>2
    <3>4. NoneOf(calls', Astray(g, h)) BY <3>2, <3>3, <1>2, <1>7, FewerNone
    <3>5. link # NoLink => link.gen # g BY <1>5, <1>7, <2>2
    <3>6. \A d \in deferred : d.gen # g BY <1>5, <1>7, <1>71, <2>2
    <3> QED BY <3>1, <3>4, <3>5, <3>6 DEF OneServer
  <2> QED BY <2>1, <2>2
<1> QED BY <1>8, <1>9 DEF Served

\* The worker takes the opening of a connection or its end.
LEMMA ServedOpen ==
    ASSUME Signals, Ends, Served, UNCHANGED <<target, gen, deferred>>,
           calls # <<>>, Head(calls) \in Openings, calls' = Tail(calls),
           link' = NoLink \/ (Head(calls).gen = gen /\ link' = [host |-> Head(calls).host, gen |-> gen])
    PROVE  Served'
<1>1. calls \in Seq(Calls) BY DEF Signals
<1>2. PICK c \in Openings : c = Head(calls) OBVIOUS
<1>3. ASSUME NEW S, NoneOf(calls, S) PROVE NoneOf(calls', S) /\ c \notin S BY <1>1, <1>2, <1>3, TakeNone
<1>4. ASSUME NEW S, NEW T, Ordered(calls, S, T) PROVE Ordered(calls', S, T) /\ (c \in S => NoneOf(calls', T))
  BY <1>1, <1>2, <1>4, TakeOrdered
<1>5. gen \in Nat /\ Gens \subseteq Nat /\ gen \in Gens BY GenAssumption DEF Ends, Gens
<1>6. c \in Calls BY DEF Calls
<1>61. c.host \in Hosts BY <1>6, CallParts
<1>7. InTurn'
  <2>1. NoneOf(calls', Newer(gen)) /\ \A d \in deferred : d.gen <= gen BY <1>3 DEF Served, InTurn
  <2>2. \A g \in Gens : Ordered(calls', Asked(g), Opening(g)) /\ Ordered(calls', Opening(g), Older(g))
    BY <1>4 DEF Served, InTurn
  <2>3. ASSUME link' # NoLink
        PROVE  link'.gen = gen /\ NoneOf(calls', Older(gen)) /\ \A g \in Gens : ~(gen < g /\ g <= gen)
    <3>1. link'.gen = gen /\ c.gen = gen BY <2>3, <1>2
    <3>2. c \in Opening(gen) BY <3>1 DEF Opening
    <3>3. Ordered(calls, Opening(gen), Older(gen)) BY <1>5 DEF Served, InTurn
    <3>4. NoneOf(calls', Older(gen)) BY <3>2, <3>3, <1>4
    <3> QED BY <3>1, <3>4, <1>5
  <2>4. gen <= gen BY <1>5
  <2> HIDE DEF Opening, Asked, Older, Newer
  <2> QED BY <2>1, <2>2, <2>3, <2>4 DEF InTurn
<1>8. ASSUME NEW g \in Gens PROVE OneServer(g)'
  <2>1. PICK h \in Hosts : /\ g = gen => target = h
                           /\ NoneOf(calls, Astray(g, h)) /\ \A d \in deferred : d.gen = g => d.host = h
    BY DEF Served, OneServer
  <2>2. NoneOf(calls', Astray(g, h)) /\ c \notin Astray(g, h) BY <2>1, <1>3
  <2>3. link' # NoLink /\ link'.gen = g => link'.host = h
    <3>1. SUFFICES ASSUME link' # NoLink, link'.gen = g PROVE link'.host = h OBVIOUS
    <3>2. c.gen = g /\ link'.host = c.host BY <3>1, <1>2
    <3> QED BY <3>2, <2>2, <1>6 DEF Astray
  <2> QED BY <2>1, <2>2, <2>3 DEF OneServer
<1> QED BY <1>7, <1>8 DEF Served

\* A request that the worker runs has the server of the worker's connection.
LEMMA RightServer ==
    ASSUME Signals, Ends, Served, link # NoLink, NEW c \in Asks,
           (calls # <<>> /\ c = Head(calls)) \/ (c \in deferred /\ Alive(c))
    PROVE  c.host = link.host
<1>1. calls \in Seq(Calls) /\ c \in Calls /\ c.gen \in Gens /\ c.host \in Hosts BY CallParts DEF Signals, Calls
<1>2. link.gen \in Gens /\ gen \in Nat /\ Gens \subseteq Nat BY GenAssumption DEF Ends, Links, Gens
<1>3. CASE c \in deferred /\ Alive(c) BY <1>3, <1>1 DEF Alive, Served, OneServer
<1>4. CASE calls # <<>> /\ c = Head(calls)
  <2>1. ASSUME NEW S, NoneOf(calls, S) PROVE c \notin S BY <1>1, <1>4, <2>1, TakeNone
  <2>2. c \notin Older(link.gen) /\ c \notin Newer(gen) BY <2>1 DEF Served, InTurn
  <2>3. ~(c.gen < link.gen) /\ ~(c.gen > gen) BY <2>2, <1>1 DEF Older, Newer
  <2>4. c.gen = link.gen
    <3>1. SUFFICES ASSUME c.gen # link.gen PROVE FALSE OBVIOUS
    <3>21. c.gen \in Nat /\ link.gen \in Nat /\ gen \in Nat BY <1>1, <1>2
    <3>2. link.gen < c.gen /\ c.gen <= gen BY <3>1, <2>3, <3>21
    <3>3. ~NoneOf(calls, Opening(c.gen)) BY <3>2, <1>1 DEF Served, InTurn
    <3>4. Ordered(calls, Asked(c.gen), Opening(c.gen)) BY <1>1 DEF Served, InTurn
    <3>5. c \in Asked(c.gen) /\ c \notin Opening(c.gen) BY <1>1, CallParts DEF Asked, Opening
    <3>6. NoneOf(Tail(calls), Opening(c.gen)) BY <3>4, <3>5, <1>1, <1>4, TakeOrdered
    <3>7. NoneOf(calls, Opening(c.gen)) BY <3>5, <3>6, <1>1, <1>4, TakeNone
    <3> QED BY <3>3, <3>7
  <2>5. PICK h \in Hosts : (link.gen = c.gen => link.host = h) /\ NoneOf(calls, Astray(c.gen, h))
    BY <1>1 DEF Served, OneServer
  <2>6. c \notin Astray(c.gen, h) BY <2>1, <2>5
  <2> QED BY <2>4, <2>5, <2>6, <1>1 DEF Astray
<1> QED BY <1>3, <1>4

\* Requests under way.

\* The parts of a report.
LEMMA ReportParts ==
    ASSUME NEW r \in Reports
    PROVE  /\ r.gen \in Gens /\ r \in News \cup Answers
           /\ r \in News <=> r.call.op \in {"up", "down"}
           /\ r \in Answers <=> r.call.op \in {"read", "write"}
           /\ r \in Answers => r.call.file \in Files /\ r.call.id \in Ids /\ r.call.ok \in BOOLEAN
           /\ r \in Answers /\ r.call.op = "read" => r.call.text \in Texts
  BY DEF Reports, News, Answers, Texted, Written

\* Nothing under way has number i.
Unused(i) ==
    /\ NoneOf(calls, Asking(i)) /\ NoneOf(reports, Answering(i)) /\ \A c \in deferred : c.call.id # i

\* The queues lose something, or get what is no request and no answer.
LEMMA AloneLess ==
    ASSUME Signals, NEW i \in Ids, Alone(i), deferred' \subseteq deferred,
           \/ calls' = calls \/ (calls # <<>> /\ calls' = Tail(calls))
           \/ \E c \in Openings : calls' = Append(calls, c),
           \/ reports' = reports \/ (reports # <<>> /\ reports' = Tail(reports))
           \/ \E r \in News : reports' = Append(reports, r)
    PROVE  Alone(i)'
<1>1. calls \in Seq(Calls) /\ reports \in Seq(Reports) BY DEF Signals
<1>2. \A c \in Openings : c \in Calls /\ c \notin Asking(i) BY CallParts DEF Calls, Asking
<1>3. \A r \in News : r \in Reports /\ r \notin Answering(i) BY ReportParts DEF Reports, Answering
<1>4. /\ NoneOf(calls, Asking(i)) => NoneOf(calls', Asking(i))
      /\ Ordered(calls, Asking(i), Asking(i)) => Ordered(calls', Asking(i), Asking(i))
  <2>1. CASE calls # <<>> /\ calls' = Tail(calls) BY <2>1, <1>1, TakeNone, TakeOrdered
  <2>2. ASSUME NEW c \in Openings, calls' = Append(calls, c)
        PROVE  /\ NoneOf(calls, Asking(i)) => NoneOf(calls', Asking(i))
               /\ Ordered(calls, Asking(i), Asking(i)) => Ordered(calls', Asking(i), Asking(i))
    <3>1. c \in Calls /\ c \notin Asking(i) BY <1>2
    <3>2. NoneOf(calls, Asking(i)) => NoneOf(calls', Asking(i)) BY <3>1, <2>2, <1>1, AddNone
    <3>3. calls' = calls \o <<c>> BY <3>1, <2>2, <1>1, AddNone
    <3> QED BY <3>1, <3>2, <3>3, <1>1, AddOrdered
  <2> QED BY <2>1, <2>2
<1>5. /\ NoneOf(reports, Answering(i)) => NoneOf(reports', Answering(i))
      /\ Ordered(reports, Answering(i), Answering(i)) => Ordered(reports', Answering(i), Answering(i))
  <2>1. CASE reports # <<>> /\ reports' = Tail(reports) BY <2>1, <1>1, TakeNone, TakeOrdered
  <2>2. ASSUME NEW r \in News, reports' = Append(reports, r)
        PROVE  /\ NoneOf(reports, Answering(i)) => NoneOf(reports', Answering(i))
               /\ Ordered(reports, Answering(i), Answering(i)) => Ordered(reports', Answering(i), Answering(i))
    <3>1. r \in Reports /\ r \notin Answering(i) BY <1>3
    <3>2. NoneOf(reports, Answering(i)) => NoneOf(reports', Answering(i)) BY <3>1, <2>2, <1>1, AddNone
    <3>3. reports' = reports \o <<r>> BY <3>1, <2>2, <1>1, AddNone
    <3> QED BY <3>1, <3>2, <3>3, <1>1, AddOrdered
  <2> QED BY <2>1, <2>2
<1> QED BY <1>4, <1>5 DEF Alone

\* A request is put off.
LEMMA AloneDefer ==
    ASSUME Signals, NEW i \in Ids, Alone(i), calls # <<>>, Head(calls) \in Asks,
           calls' = Tail(calls), deferred' = deferred \cup {Head(calls)}, UNCHANGED reports
    PROVE  Alone(i)'
<1>1. calls \in Seq(Calls) BY DEF Signals
<1>2. PICK h \in Asks : h = Head(calls) OBVIOUS
<1>3. /\ NoneOf(calls, Asking(i)) => NoneOf(calls', Asking(i)) /\ h \notin Asking(i)
      /\ Ordered(calls', Asking(i), Asking(i)) /\ (h \in Asking(i) => NoneOf(calls', Asking(i)))
  BY <1>1, <1>2, TakeNone, TakeOrdered DEF Alone
<1>4. CASE h \notin Asking(i) BY <1>4, <1>2, <1>3 DEF Asking, Alone
<1>5. CASE h \in Asking(i) BY <1>3, <1>5, <1>2 DEF Alone
<1> QED BY <1>4, <1>5

\* A request is run: its answer takes its place.
LEMMA AloneAnswer ==
    ASSUME Signals, NEW i \in Ids, Alone(i), NEW c \in Asks, Taken(c),
           NEW r \in Answers, r.call.id = c.call.id, reports' = Append(reports, r)
    PROVE  Alone(i)'
<1>1. calls \in Seq(Calls) /\ reports \in Seq(Reports) /\ r \in Reports BY DEF Signals, Reports
<1>2. reports' = reports \o <<r>> BY <1>1, AddNone
<1>3. NoneOf(reports', Answering(i)) <=> NoneOf(reports, Answering(i)) /\ r \notin Answering(i) BY <1>1, AddNone
<1>4. r \in Answering(i) <=> c \in Asking(i) BY DEF Answering, Asking
<1>5. Ordered(calls', Asking(i), Asking(i)) /\ (NoneOf(calls, Asking(i)) => NoneOf(calls', Asking(i)))
  <2>1. calls' = calls \/ (calls # <<>> /\ calls' = Tail(calls)) BY DEF Taken
  <2>2. CASE calls # <<>> /\ calls' = Tail(calls) BY <2>2, <1>1, TakeNone, TakeOrdered DEF Alone
  <2>3. CASE calls' = calls BY <2>3 DEF Alone
  <2> QED BY <2>1, <2>2, <2>3
<1>6. CASE c \notin Asking(i)
  <2>1. Ordered(reports', Answering(i), Answering(i)) BY <1>6, <1>1, <1>2, <1>4, AddOrdered DEF Alone
  <2>2. \A d \in deferred' : d \in deferred BY DEF Taken
  <2>3. NoneOf(reports, Answering(i)) => NoneOf(reports', Answering(i)) BY <1>3, <1>4, <1>6
  <2> HIDE DEF Asking, Answering
  <2> QED BY <1>5, <2>1, <2>2, <2>3 DEF Alone
<1>7. CASE c \in Asking(i)
  <2>1. NoneOf(calls', Asking(i)) /\ NoneOf(reports, Answering(i)) /\ \A d \in deferred' : d.call.id # i
    <3>1. c.call.id = i BY <1>7 DEF Asking
    <3>2. CASE calls # <<>> /\ c = Head(calls) /\ calls' = Tail(calls) /\ deferred' = deferred
      BY <3>2, <1>1, <1>7, TakeNone, TakeOrdered DEF Alone
    <3>3. CASE c \in deferred /\ deferred' = deferred \ {c} /\ calls' = calls BY <3>1, <3>3 DEF Alone
    <3> QED BY <3>2, <3>3 DEF Taken
  <2>2. Ordered(reports', Answering(i), Answering(i)) BY <2>1, <1>1, <1>2, AddOrdered DEF Alone
  <2> QED BY <2>1, <2>2, <1>5 DEF Alone
<1> QED BY <1>6, <1>7

\* A request is made with a number that is not in use.
LEMMA AloneAsk ==
    ASSUME Signals, NEW i \in Ids, Alone(i), NEW c \in Asks, Unused(c.call.id),
           calls' = Append(calls, c), UNCHANGED <<deferred, reports>>
    PROVE  Alone(i)'
<1>1. calls \in Seq(Calls) /\ c \in Calls BY DEF Signals, Calls
<1>2. calls' = calls \o <<c>> BY <1>1, AddNone
<1>3. NoneOf(calls', Asking(i)) <=> NoneOf(calls, Asking(i)) /\ c \notin Asking(i) BY <1>1, AddNone
<1>4. c \in Asking(i) => c.call.id = i BY DEF Asking
<1>5. Ordered(calls', Asking(i), Asking(i)) BY <1>1, <1>2, <1>4, AddOrdered DEF Alone, Unused
<1> QED BY <1>3, <1>4, <1>5 DEF Alone, Unused

\* The session takes the answer to request i: nothing of it is left.
LEMMA Settled ==
    ASSUME Signals, NEW i \in Ids, Alone(i), reports # <<>>, Head(reports) \in Answering(i),
           reports' = Tail(reports), UNCHANGED <<calls, deferred>>
    PROVE  Unused(i)'
BY TakeNone, TakeOrdered DEF Signals, Alone, Unused

\* Requests and documents.

\* The queues lose something, or get a call and a report that bear no number
\* the document has, or fit it.
LEMMA FitsStep ==
    ASSUME Signals, NEW f, NEW d, NEW s, Fits(f, d, s),
           \/ calls' = calls \/ (calls # <<>> /\ calls' = Tail(calls))
           \/ \E c \in Calls : c \notin WrongCall(f, d) /\ calls' = Append(calls, c),
           \A c \in deferred' : c \in deferred \/ (calls # <<>> /\ c = Head(calls)),
           \/ reports' = reports \/ (reports # <<>> /\ reports' = Tail(reports))
           \/ \E r \in Reports : r \notin WrongAnswer(f, d, s) /\ reports' = Append(reports, r)
    PROVE  Fits(f, d, s)'
<1>1. calls \in Seq(Calls) /\ reports \in Seq(Reports) BY DEF Signals
<1>2. NoneOf(calls, WrongCall(f, d)) /\ NoneOf(reports, WrongAnswer(f, d, s)) BY DEF Fits
<1>3. NoneOf(calls', WrongCall(f, d))
  <2>1. CASE calls # <<>> /\ calls' = Tail(calls) BY <2>1, <1>1, <1>2, TakeNone
  <2>2. ASSUME NEW c \in Calls, c \notin WrongCall(f, d), calls' = Append(calls, c)
        PROVE  NoneOf(calls', WrongCall(f, d))
    <3> DEFINE W == WrongCall(f, d)
    <3> HIDE DEF W
    <3>1. NoneOf(calls, W) /\ c \notin W BY <2>2, <1>2 DEF W
    <3>2. NoneOf(Append(calls, c), W) BY <3>1, <1>1, AddNone
    <3> QED BY <3>2, <2>2 DEF W
  <2> QED BY <2>1, <2>2, <1>2
<1>4. NoneOf(reports', WrongAnswer(f, d, s))
  <2>1. CASE reports # <<>> /\ reports' = Tail(reports) BY <2>1, <1>1, <1>2, TakeNone
  <2>2. ASSUME NEW r \in Reports, r \notin WrongAnswer(f, d, s), reports' = Append(reports, r)
        PROVE  NoneOf(reports', WrongAnswer(f, d, s))
    <3> DEFINE W == WrongAnswer(f, d, s)
    <3> HIDE DEF W
    <3>1. NoneOf(reports, W) /\ r \notin W BY <2>2, <1>2 DEF W
    <3>2. NoneOf(Append(reports, r), W) BY <3>1, <1>1, AddNone
    <3> QED BY <3>2, <2>2 DEF W
  <2> QED BY <2>1, <2>2, <1>2
<1>5. ASSUME NEW c \in deferred' PROVE c \notin WrongCall(f, d) BY <1>1, <1>2, TakeNone DEF Fits
<1> QED BY <1>3, <1>4, <1>5 DEF Fits

\* A document whose number is not in use waits for nothing.
LEMMA UnusedFits ==
    ASSUME NEW f, NEW d, NEW s, Signals, Unused(d.id) \/ d.id = NoId
    PROVE  Fits(f, d, s)
<1>1. CASE Unused(d.id) BY <1>1, FewerNone DEF WrongCall, Asking, WrongAnswer, Answering, Unused, Fits
<1>2. CASE d.id = NoId
  <2>1. NoId \notin Ids BY DEF NoId, Ids
  <2>2. ASSUME NEW c \in Asks PROVE c \notin WrongCall(f, d) BY <2>1, <1>2, CallParts DEF Calls, WrongCall
  <2>3. ASSUME NEW r \in Answers PROVE r \notin WrongAnswer(f, d, s) BY <2>1, <1>2, ReportParts DEF Reports, WrongAnswer
  <2>4. WrongCall(f, d) \subseteq Asks /\ WrongAnswer(f, d, s) \subseteq Answers BY DEF WrongCall, WrongAnswer
  <2>5. WrongCall(f, d) = {} /\ WrongAnswer(f, d, s) = {} BY <2>2, <2>3, <2>4
  <2> QED BY <2>5 DEF NoneOf, Fits
<1> QED BY <1>1, <1>2

\* The same of the next state.
LEMMA UnusedFitsNext ==
    ASSUME NEW f, NEW d, NEW s
    PROVE  (Signals /\ (Unused(d.id) \/ d.id = NoId) => Fits(f, d, s))'
<1>1. Signals /\ (Unused(d.id) \/ d.id = NoId) => Fits(f, d, s) BY UnusedFits
<1> QED BY <1>1, PTL

\* What a document waits for is told by its number, text and two flags, and
\* if it waits for nothing by its number alone; servers forget no text.
LEMMA FitsLike ==
    ASSUME NEW f, NEW d, NEW e, NEW s, NEW t, s \subseteq t, Fits(f, d, s), e.id = d.id,
           ~d.busy \/ (e.busy = d.busy /\ e.loaded = d.loaded /\ e.text = d.text)
    PROVE  Fits(f, e, t)
BY FewerNone DEF WrongCall, Awaits, WrongAnswer, Fits

\* Servers forget no text, and an answer that is added has one of theirs.
LEMMA StockedStep ==
    ASSUME Signals, NEW f, Stocked(f), stored[f] \subseteq stored'[f], \A h \in Hosts : disk'[h][f] \in stored'[f],
           \/ reports' = reports \/ (reports # <<>> /\ reports' = Tail(reports))
           \/ \E r \in Reports : r \notin Unknown(f, stored'[f]) /\ reports' = Append(reports, r)
    PROVE  Stocked(f)'
<1>1. reports \in Seq(Reports) BY DEF Signals
<1>2. PICK s : s = stored[f] OBVIOUS
<1>3. PICK t : t = stored'[f] OBVIOUS
<1>4. Unknown(f, t) \subseteq Unknown(f, s) BY <1>2, <1>3 DEF Unknown
<1>5. NoneOf(reports, Unknown(f, t)) BY <1>2, <1>4, FewerNone DEF Stocked
<1>6. NoneOf(reports', Unknown(f, t))
  <2>1. CASE reports # <<>> /\ reports' = Tail(reports) BY <2>1, <1>1, <1>5, TakeNone
  <2>2. ASSUME NEW r \in Reports, r \notin Unknown(f, t), reports' = Append(reports, r)
        PROVE  NoneOf(reports', Unknown(f, t)) BY <2>2, <1>1, <1>5, AddNone
  <2> QED BY <2>1, <2>2, <1>3, <1>5
<1>7. (\A h \in Hosts : disk[h][f] \in stored[f])' OBVIOUS
<1> QED BY <1>3, <1>6, <1>7 DEF Stocked

\* Tabs.

\* One tab for each file of S.
Tabs(s, S) == s \in Seq(Files) /\ IsInjective(s) /\ Range(s) = S

\* The sequence without its i-th element, by its positions.
LEMMA RemovedAt ==
    ASSUME NEW V, NEW s \in Seq(V), NEW i \in DOMAIN s
    PROVE  /\ RemoveAt(s, i) \in Seq(V) /\ Len(s) \in Nat /\ Len(RemoveAt(s, i)) = Len(s) - 1
           /\ \A k \in 1 .. Len(s) - 1 : RemoveAt(s, i)[k] = IF k < i THEN s[k] ELSE s[k + 1]
<1> DEFINE n == Len(s)  a == SubSeq(s, 1, i - 1)  b == SubSeq(s, i + 1, n)
<1>1. n \in Nat /\ DOMAIN s = 1 .. n /\ i \in 1 .. n /\ \A k \in 1 .. n : s[k] \in V BY LenProperties
<1>2. a \in Seq(V) /\ Len(a) = i - 1 /\ \A k \in 1 .. i - 1 : a[k] = s[k]
  <2>1. i - 1 \in Int /\ 1 \in Int /\ (i - 1) - 1 + 1 = i - 1 /\ \A k \in 1 .. i - 1 : k \in 1 .. n /\ 1 + k - 1 = k
    BY <1>1
  <2>2. \A k \in 1 .. i - 1 : s[k] \in V BY <1>1, <2>1
  <2>3. /\ a \in Seq(V) /\ Len(a) = IF 1 <= i - 1 THEN (i - 1) - 1 + 1 ELSE 0
        /\ \A k \in 1 .. (i - 1) - 1 + 1 : a[k] = s[1 + k - 1] BY <2>1, <2>2, SubSeqProperties
  <2> HIDE DEF a
  <2>4. Len(a) = i - 1 BY <2>3, <1>1
  <2> QED BY <2>1, <2>3, <2>4
<1>3. b \in Seq(V) /\ Len(b) = n - i /\ \A k \in 1 .. n - i : b[k] = s[i + k]
  <2>1. i + 1 \in Int /\ n \in Int /\ n - (i + 1) + 1 = n - i /\ \A k \in 1 .. n - i : (i + 1) + k - 1 = i + k
    BY <1>1
  <2>2. \A k \in i + 1 .. n : s[k] \in V BY <1>1
  <2>3. /\ b \in Seq(V) /\ Len(b) = IF i + 1 <= n THEN n - (i + 1) + 1 ELSE 0
        /\ \A k \in 1 .. n - (i + 1) + 1 : b[k] = s[(i + 1) + k - 1] BY <2>1, <2>2, SubSeqProperties
  <2> HIDE DEF b, n
  <2>4. Len(b) = n - i BY <2>3, <1>1
  <2> QED BY <2>1, <2>3, <2>4
<1>4. RemoveAt(s, i) = a \o b BY DEF RemoveAt
<1> HIDE DEF a, b, n
<1>5. /\ a \o b \in Seq(V) /\ (\A k \in 1 .. i - 1 : (a \o b)[k] = a[k])
      /\ \A k \in 1 .. n - i : (a \o b)[(i - 1) + k] = b[k]
  <2>1. a \in Seq(V) /\ b \in Seq(V) BY <1>2, <1>3
  <2>2. /\ a \o b \in Seq(V) /\ (\A k \in 1 .. Len(a) : (a \o b)[k] = a[k])
        /\ \A k \in 1 .. Len(b) : (a \o b)[Len(a) + k] = b[k] BY <2>1, BothParts
  <2>3. Len(a) = i - 1 /\ Len(b) = n - i BY <1>2, <1>3
  <2> QED BY <2>2, <2>3
<1>6. Len(a \o b) = n - 1
  <2>1. a \in Seq(V) /\ b \in Seq(V) BY <1>2, <1>3
  <2>2. Len(a \o b) = Len(a) + Len(b) BY <2>1, ConcatProperties
  <2>3. Len(a) = i - 1 /\ Len(b) = n - i BY <1>2, <1>3
  <2> QED BY <2>2, <2>3, <1>1
<1>7. ASSUME NEW k \in 1 .. n - 1 PROVE (a \o b)[k] = IF k < i THEN s[k] ELSE s[k + 1]
  <2>1. CASE k < i BY <2>1, <1>1, <1>2, <1>5
  <2>2. CASE ~(k < i)
    <3>1. k - i + 1 \in 1 .. n - i /\ (i - 1) + (k - i + 1) = k /\ i + (k - i + 1) = k + 1 BY <2>2, <1>1
    <3>2. (a \o b)[(i - 1) + (k - i + 1)] = b[k - i + 1] /\ b[k - i + 1] = s[i + (k - i + 1)] BY <3>1, <1>3, <1>5
    <3> QED BY <2>2, <3>1, <3>2
  <2> QED BY <2>1, <2>2
<1> QED BY <1>1, <1>4, <1>5, <1>6, <1>7 DEF n

\* The sequence with e before its j-th element, by its positions.
LEMMA InsertedAt ==
    ASSUME NEW V, NEW s \in Seq(V), NEW e \in V, NEW j \in 1 .. Len(s) + 1
    PROVE  /\ InsertAt(s, j, e) \in Seq(V) /\ Len(s) \in Nat /\ Len(InsertAt(s, j, e)) = Len(s) + 1
           /\ \A k \in 1 .. Len(s) + 1 :
                InsertAt(s, j, e)[k] = IF k < j THEN s[k] ELSE IF k = j THEN e ELSE s[k - 1]
<1> DEFINE n == Len(s)  a == SubSeq(s, 1, j - 1)  b == SubSeq(s, j, n)  c == a \o <<e>>
<1>1. n \in Nat /\ DOMAIN s = 1 .. n /\ j \in 1 .. n + 1 /\ \A k \in 1 .. n : s[k] \in V BY LenProperties
<1>2. a \in Seq(V) /\ Len(a) = j - 1 /\ \A k \in 1 .. j - 1 : a[k] = s[k]
  <2>1. j - 1 \in Int /\ 1 \in Int /\ (j - 1) - 1 + 1 = j - 1 /\ \A k \in 1 .. j - 1 : k \in 1 .. n /\ 1 + k - 1 = k
    BY <1>1
  <2>2. \A k \in 1 .. j - 1 : s[k] \in V BY <1>1, <2>1
  <2>3. /\ a \in Seq(V) /\ Len(a) = IF 1 <= j - 1 THEN (j - 1) - 1 + 1 ELSE 0
        /\ \A k \in 1 .. (j - 1) - 1 + 1 : a[k] = s[1 + k - 1] BY <2>1, <2>2, SubSeqProperties
  <2> HIDE DEF a, n
  <2>4. Len(a) = j - 1 BY <2>3, <1>1
  <2> QED BY <2>1, <2>3, <2>4
<1>3. b \in Seq(V) /\ Len(b) = n - j + 1 /\ \A k \in 1 .. n - j + 1 : b[k] = s[j + k - 1]
  <2>1. j \in Int /\ n \in Int BY <1>1
  <2>2. \A k \in j .. n : s[k] \in V BY <1>1
  <2>3. /\ b \in Seq(V) /\ Len(b) = IF j <= n THEN n - j + 1 ELSE 0
        /\ \A k \in 1 .. n - j + 1 : b[k] = s[j + k - 1] BY <2>1, <2>2, SubSeqProperties
  <2> HIDE DEF b, n
  <2>4. Len(b) = n - j + 1 BY <2>3, <1>1
  <2> QED BY <2>3, <2>4
<1>4. InsertAt(s, j, e) = (a \o <<e>>) \o b BY DEF InsertAt
<1>5. <<e>> \in Seq(V) /\ Len(<<e>>) = 1 /\ <<e>>[1] = e OBVIOUS
<1> HIDE DEF a, b, n
<1>6. /\ c \in Seq(V) /\ (\A k \in 1 .. j - 1 : c[k] = a[k])
      /\ \A k \in 1 .. 1 : c[(j - 1) + k] = <<e>>[k] BY <1>2, <1>5, BothParts
<1>7. Len(c) = j BY <1>2, <1>5, <1>1, ConcatProperties
<1>8. c[j] = e
  <2>1. (j - 1) + 1 = j /\ 1 \in 1 .. 1 BY <1>1
  <2>2. c[(j - 1) + 1] = <<e>>[1] BY <1>6, <2>1
  <2> HIDE DEF c
  <2> QED BY <2>1, <2>2, <1>5
<1> HIDE DEF c
<1>9. /\ c \o b \in Seq(V) /\ (\A k \in 1 .. j : (c \o b)[k] = c[k])
      /\ \A k \in 1 .. n - j + 1 : (c \o b)[j + k] = b[k] BY <1>3, <1>6, <1>7, BothParts
<1>10. Len(c \o b) = n + 1
  <2>1. c \in Seq(V) /\ b \in Seq(V) BY <1>3, <1>6
  <2>2. Len(c \o b) = Len(c) + Len(b) BY <2>1, ConcatProperties
  <2>3. Len(c) = j /\ Len(b) = n - j + 1 BY <1>3, <1>7
  <2> QED BY <2>2, <2>3, <1>1
<1>11. ASSUME NEW k \in 1 .. n + 1
       PROVE  (c \o b)[k] = IF k < j THEN s[k] ELSE IF k = j THEN e ELSE s[k - 1]
  <2>1. CASE k < j
    <3>1. k \in 1 .. j - 1 /\ k \in 1 .. j BY <2>1, <1>1
    <3> QED BY <2>1, <3>1, <1>2, <1>6, <1>9
  <2>2. CASE k = j
    <3>1. k \in 1 .. j /\ ~(k < j) BY <2>2, <1>1
    <3> QED BY <2>2, <3>1, <1>8, <1>9
  <2>3. CASE ~(k < j) /\ k # j
    <3>1. k - j \in 1 .. n - j + 1 /\ j + (k - j) = k /\ j + (k - j) - 1 = k - 1 BY <2>3, <1>1
    <3>2. (c \o b)[j + (k - j)] = b[k - j] /\ b[k - j] = s[j + (k - j) - 1] BY <3>1, <1>3, <1>9
    <3> QED BY <2>3, <3>1, <3>2
  <2> QED BY <2>1, <2>2, <2>3
<1>12. InsertAt(s, j, e) = c \o b BY <1>4 DEF c
<1> QED BY <1>1, <1>9, <1>10, <1>11, <1>12 DEF n

\* A file is opened in a tab at the end.
LEMMA TabAdded ==
    ASSUME NEW s, NEW S, Tabs(s, S), NEW f \in Files, f \notin S
    PROVE  Tabs(Append(s, f), S \cup {f})
<1> DEFINE n == Len(s)  t == Append(s, f)
<1>1. n \in Nat /\ DOMAIN s = 1 .. n /\ s \in Seq(Files) BY LenProperties DEF Tabs
<1>2. /\ t \in Seq(Files) /\ Len(t) = n + 1 /\ t[n + 1] = f /\ \A k \in 1 .. n : t[k] = s[k]
  BY <1>1, AppendProperties
<1>3. DOMAIN t = 1 .. n + 1 BY <1>2, LenProperties
<1> HIDE DEF t, n
<1>4. \A k \in 1 .. n + 1 : k \in 1 .. n \/ k = n + 1 BY <1>1
<1>5. n + 1 \in 1 .. n + 1 /\ \A k \in 1 .. n : k \in 1 .. n + 1 BY <1>1
<1>6. (\A k \in 1 .. n : s[k] \in S /\ s[k] # f) /\ \A x \in S : \E k \in 1 .. n : s[k] = x
  BY <1>1 DEF Tabs, Range
<1>7. IsInjective(t)
  <2>1. ASSUME NEW k \in 1 .. n + 1, NEW m \in 1 .. n + 1, t[k] = t[m] PROVE k = m
    BY <2>1, <1>1, <1>2, <1>4, <1>6 DEF Tabs, IsInjective
  <2> QED BY <2>1, <1>3 DEF IsInjective
<1>8. Range(t) = S \cup {f}
  <2>1. ASSUME NEW k \in 1 .. n + 1 PROVE t[k] \in S \cup {f} BY <1>2, <1>4, <1>6
  <2>2. ASSUME NEW x \in S \cup {f} PROVE \E k \in 1 .. n + 1 : t[k] = x BY <1>2, <1>5, <1>6
  <2> QED BY <2>1, <2>2, <1>3 DEF Range
<1> QED BY <1>2, <1>7, <1>8 DEF Tabs, t

\* A tab is closed.
LEMMA TabRemoved ==
    ASSUME NEW s, NEW S, Tabs(s, S), NEW i \in DOMAIN s
    PROVE  /\ Tabs(RemoveAt(s, i), S \ {s[i]}) /\ s[i] \in S \cap Files /\ Len(s) \in Nat
           /\ Len(RemoveAt(s, i)) = Len(s) - 1
<1> DEFINE n == Len(s)  t == RemoveAt(s, i)
<1>1. n \in Nat /\ DOMAIN s = 1 .. n /\ s \in Seq(Files) /\ i \in 1 .. n BY LenProperties DEF Tabs
<1>2. /\ t \in Seq(Files) /\ Len(t) = n - 1 /\ \A k \in 1 .. n - 1 : t[k] = IF k < i THEN s[k] ELSE s[k + 1]
  BY <1>1, RemovedAt
<1>3. DOMAIN t = 1 .. n - 1 BY <1>2, LenProperties
<1>4. s[i] \in S \cap Files BY <1>1 DEF Tabs, Range
<1> HIDE DEF t, n
<1>5. \A k, m \in 1 .. n : s[k] = s[m] => k = m BY <1>1 DEF Tabs, IsInjective
<1>6. (\A k \in 1 .. n : s[k] \in S) /\ \A x \in S : \E k \in 1 .. n : s[k] = x BY <1>1 DEF Tabs, Range
<1>7. \A k \in 1 .. n - 1 : k \in 1 .. n /\ k + 1 \in 1 .. n /\ (k < i => k # i) /\ (~(k < i) => k + 1 # i) BY <1>1
<1>8. IsInjective(t)
  <2>1. ASSUME NEW k \in 1 .. n - 1, NEW m \in 1 .. n - 1, t[k] = t[m] PROVE k = m BY <2>1, <1>2, <1>5, <1>7, <1>1
  <2> QED BY <2>1, <1>3 DEF IsInjective
<1>9. Range(t) = S \ {s[i]}
  <2>1. ASSUME NEW k \in 1 .. n - 1 PROVE t[k] \in S \ {s[i]} BY <1>1, <1>2, <1>5, <1>6, <1>7
  <2>2. ASSUME NEW x \in S \ {s[i]} PROVE \E k \in 1 .. n - 1 : t[k] = x
    <3>1. PICK k \in 1 .. n : s[k] = x BY <1>6
    <3>2. k # i BY <3>1
    <3>3. CASE k < i BY <3>3, <1>1, <3>1, <1>2
    <3>4. CASE ~(k < i)
      <4>1. k - 1 \in 1 .. n - 1 /\ ~(k - 1 < i) /\ (k - 1) + 1 = k BY <3>2, <3>4, <1>1
      <4> QED BY <4>1, <3>1, <1>2
    <3> QED BY <3>3, <3>4
  <2> QED BY <2>1, <2>2, <1>3 DEF Range
<1> QED BY <1>1, <1>2, <1>4, <1>8, <1>9 DEF Tabs, t, n

\* A tab is dropped in another place.
LEMMA TabInserted ==
    ASSUME NEW s, NEW S, Tabs(s, S), NEW f \in Files, f \notin S, NEW j \in 1 .. Len(s) + 1
    PROVE  Tabs(InsertAt(s, j, f), S \cup {f})
<1> DEFINE n == Len(s)  t == InsertAt(s, j, f)
<1>1. n \in Nat /\ DOMAIN s = 1 .. n /\ s \in Seq(Files) /\ j \in 1 .. n + 1 BY LenProperties DEF Tabs
<1>2. /\ t \in Seq(Files) /\ Len(t) = n + 1
      /\ \A k \in 1 .. n + 1 : t[k] = IF k < j THEN s[k] ELSE IF k = j THEN f ELSE s[k - 1] BY <1>1, InsertedAt
<1>3. DOMAIN t = 1 .. n + 1 BY <1>2, LenProperties
<1> HIDE DEF t, n
<1>4. \A k, m \in 1 .. n : s[k] = s[m] => k = m BY <1>1 DEF Tabs, IsInjective
<1>5. (\A k \in 1 .. n : s[k] \in S /\ s[k] # f) /\ \A x \in S : \E k \in 1 .. n : s[k] = x
  BY <1>1 DEF Tabs, Range
<1>6. \A k \in 1 .. n + 1 : (k < j => k \in 1 .. n) /\ (~(k < j) /\ k # j => k - 1 \in 1 .. n) BY <1>1
<1>7. IsInjective(t)
  <2>1. ASSUME NEW k \in 1 .. n + 1, NEW m \in 1 .. n + 1, t[k] = t[m] PROVE k = m
    <3>1. CASE k = j BY <2>1, <3>1, <1>1, <1>2, <1>5, <1>6
    <3>2. CASE m = j BY <2>1, <3>2, <1>1, <1>2, <1>5, <1>6
    <3>3. CASE k # j /\ m # j BY <2>1, <3>3, <1>2, <1>4, <1>6, <1>1
    <3> QED BY <3>1, <3>2, <3>3
  <2> QED BY <2>1, <1>3 DEF IsInjective
<1>8. Range(t) = S \cup {f}
  <2>1. ASSUME NEW k \in 1 .. n + 1 PROVE t[k] \in S \cup {f} BY <1>2, <1>5, <1>6
  <2>2. ASSUME NEW x \in S PROVE \E k \in 1 .. n + 1 : t[k] = x
    <3>1. PICK k \in 1 .. n : s[k] = x BY <1>5
    <3>2. CASE k < j BY <1>1, <3>1, <3>2, <1>2
    <3>3. CASE ~(k < j)
      <4>1. k + 1 \in 1 .. n + 1 /\ ~(k + 1 < j) /\ k + 1 # j /\ (k + 1) - 1 = k BY <3>3, <1>1
      <4> QED BY <4>1, <3>1, <1>2
    <3> QED BY <3>2, <3>3
  <2>3. t[j] = f /\ j \in 1 .. n + 1 BY <1>1, <1>2
  <2> QED BY <2>1, <2>2, <2>3, <1>3 DEF Range
<1> QED BY <1>2, <1>7, <1>8 DEF Tabs, t

\* There are no more tabs than files.
LEMMA TabsFit ==
    ASSUME NEW s, NEW S, Tabs(s, S)
    PROVE  DOMAIN s \subseteq 1 .. Cardinality(Files)
<1>1. s \in Seq(Files) /\ Len(s) \in Nat /\ DOMAIN s = 1 .. Len(s) BY LenProperties DEF Tabs
<1>2. s \in Injection(1 .. Len(s), Files) BY <1>1 DEF Tabs, Injection
<1>3. Cardinality(1 .. Len(s)) <= Cardinality(Files) BY <1>2, FS_Injection, ActAssumption
<1>4. Cardinality(1 .. Len(s)) = Len(s) BY <1>1, FS_Interval
<1>5. Cardinality(Files) \in Nat BY ActAssumption, FS_CardinalityType
<1> QED BY <1>1, <1>3, <1>4, <1>5

\* All files open, as in the beginning.
LEMMA TabsOfAll ==
    ASSUME NEW s \in SetToSeqs(Files)
    PROVE  Tabs(s, Files)
<1> DEFINE n == Cardinality(Files)
<1>1. n \in Nat BY ActAssumption, FS_CardinalityType
<1>2. s \in [1 .. n -> Files] /\ \A i, j \in 1 .. n : i # j => s[i] # s[j] BY DEF SetToSeqs
<1>3. IsInjective(s) BY <1>2 DEF IsInjective
<1>4. s \in Injection(1 .. n, Files) BY <1>2, <1>3 DEF Injection
<1>5. Cardinality(1 .. n) = n
  <2>1. Cardinality(1 .. n) = IF 1 > n THEN 0 ELSE n - 1 + 1 BY <1>1, FS_Interval
  <2> HIDE DEF n
  <2> QED BY <2>1, <1>1
<1>6. s \in Surjection(1 .. n, Files) BY <1>4, <1>5, FS_Injection, ActAssumption
<1>7. Range(s) = Files BY <1>2, <1>6 DEF Surjection, Range
<1>8. s \in Seq(Files) BY <1>1, <1>2, SeqDef
<1> QED BY <1>3, <1>7, <1>8 DEF Tabs

\* The invariant by its parts.

Disks == disk \in [Hosts -> [Files -> Texts]] /\ stored \in [Files -> SUBSET Texts]
Panes == docs \in [Files -> Doc \cup {NoDoc}] /\ Tabs(tabs, Open) /\ question \in Questions \cup {NoQuestion}
Rests == /\ last \in Texts /\ acts \in 0 .. MaxActs /\ last <= acts
         /\ autoSave \in BOOLEAN /\ crashed \in BOOLEAN
Typed == Ends /\ Disks /\ Panes /\ Rests
Queued == Signals /\ Served /\ (\A i \in Ids : Alone(i)) /\ \A f \in Files : Stocked(f)
Edited == Known /\ \A f \in Files : Kept(f)

\* The parts are the whole.
LEMMA Whole ==
    IInv <=> Typed /\ Queued /\ Edited
  BY DEF IInv, TypeOK, Typed, Ends, Disks, Panes, Rests, Tabs, Queued, Edited

\* The invariant after a step, by its parts.
LEMMA WholeNext ==
    IInv' <=> Typed' /\ Queued' /\ Edited' BY Whole, PTL

\* A document that is there.
LEMMA IsDoc ==
    ASSUME Typed, NEW f \in Open
    PROVE  f \in Files /\ docs[f] \in Doc /\ docs[f] # NoDoc BY DEF Typed, Panes, Open

\* What the queues say in a step that leaves them and the servers alone.
LEMMA QueuedStill ==
    ASSUME Queued, UNCHANGED <<requestVars, server>>
    PROVE  Queued'
<1> USE DEF requestVars, session, worker, server
<1>1. Signals' BY DEF Queued, Signals
<1>2. Served' BY DEF Queued, Served, InTurn, OneServer
<1>3. \A i \in Ids : Alone(i)' BY DEF Queued, Alone
<1>4. \A f \in Files : Stocked(f)' BY DEF Queued, Stocked
<1> QED BY <1>1, <1>2, <1>3, <1>4 DEF Queued

\* The queues lose something, or get what is no request and no answer.
Lessens ==
    /\ \/ calls' = calls \/ (calls # <<>> /\ calls' = Tail(calls))
       \/ \E c \in Openings : calls' = Append(calls, c)
    /\ \A c \in deferred' : c \in deferred \/ (calls # <<>> /\ c = Head(calls))
    /\ \/ reports' = reports \/ (reports # <<>> /\ reports' = Tail(reports))
       \/ \E r \in News : reports' = Append(reports, r)

\* A document that waits for the same as before.
LEMMA KeptLike ==
    ASSUME Signals, Lessens, NEW f \in Files, Kept(f), docs[f] # NoDoc, stored[f] \subseteq stored'[f],
           Sound(docs'[f]), Clean(docs'[f], stored[f]), docs'[f].id = docs[f].id,
           \/ ~docs[f].busy
           \/ docs'[f].busy = docs[f].busy /\ docs'[f].loaded = docs[f].loaded /\ docs'[f].text = docs[f].text
    PROVE  Kept(f)'
<1>1. PICK d : d = docs[f] OBVIOUS
<1>2. PICK e : e = docs'[f] OBVIOUS
<1>3. PICK s : s = stored[f] OBVIOUS
<1>4. PICK t : t = stored'[f] OBVIOUS
<1>5. Fits(f, d, s) BY <1>1, <1>3 DEF Kept
<1>6. Fits(f, e, t) BY <1>1, <1>2, <1>3, <1>4, <1>5, FitsLike
<1>7. \A c \in Openings : c \in Calls /\ c \notin WrongCall(f, e) BY CallParts DEF Calls, WrongCall
<1>8. \A r \in News : r \in Reports /\ r \notin WrongAnswer(f, e, t) BY ReportParts DEF Reports, WrongAnswer
<1>9. Fits(f, e, t)' BY <1>6, <1>7, <1>8, FitsStep DEF Lessens
<1>10. Sound(e) /\ Clean(e, t) BY <1>2, <1>3, <1>4 DEF Clean
<1> QED BY <1>2, <1>4, <1>9, <1>10 DEF Kept, Sound, Clean, Fits

\* A document that stays as it is.
LEMMA KeptSame ==
    ASSUME Signals, Lessens, NEW f \in Files, Kept(f), stored[f] \subseteq stored'[f], docs'[f] = docs[f]
    PROVE  Kept(f)'
<1>1. CASE docs[f] = NoDoc BY <1>1 DEF Kept
<1>2. CASE docs[f] # NoDoc BY <1>2, KeptLike DEF Kept, Sound, Clean
<1> QED BY <1>1, <1>2

\* What the user does.

\* Another list of documents.
LEMMA Redone ==
    ASSUME Typed, UNCHANGED tabs, question' \in {question, NoQuestion},
           docs' \in [Files -> Doc \cup {NoDoc}],
           \A f \in Files : docs'[f] = NoDoc <=> docs[f] = NoDoc
    PROVE  Panes'
BY DEF Open, Typed, Panes, Tabs

\* One document of the list.
LEMMA OneDoc ==
    ASSUME Typed, UNCHANGED tabs, question' \in {question, NoQuestion},
           NEW f \in Open, NEW d \in Doc, docs' = [docs EXCEPT ![f] = d]
    PROVE  Panes' /\ Open' = Open /\ docs'[f] = d /\ \A g \in Files : g # f => docs'[g] = docs[g]
BY IsDoc, NoneAssumption, Redone DEF Typed, Panes, Open

\* A document goes with its tab.
LEMMA OneLess ==
    ASSUME Typed, NEW i \in DOMAIN tabs, Removed(i)
    PROVE  /\ docs' \in [Files -> Doc \cup {NoDoc}] /\ Tabs(tabs', Open') /\ tabs[i] \in Files
           /\ docs'[tabs[i]] = NoDoc /\ Open' = Open \ {tabs[i]}
           /\ \A g \in Files : g # tabs[i] => docs'[g] = docs[g]
<1>1. tabs' = RemoveAt(tabs, i) /\ docs' = [docs EXCEPT ![tabs[i]] = NoDoc] BY DEF Removed
<1>2. PICK f \in Files : f = tabs[i] BY TabRemoved DEF Typed, Panes
<1>3. docs \in [Files -> Doc \cup {NoDoc}] BY DEF Typed, Panes
<1>4. /\ docs' \in [Files -> Doc \cup {NoDoc}] /\ docs'[f] = NoDoc
      /\ \A g \in Files : g # f => docs'[g] = docs[g] BY <1>1, <1>2, <1>3
<1>5. Open' = Open \ {f} BY <1>4 DEF Open
<1>6. Tabs(tabs', Open \ {f}) BY <1>1, <1>2, TabRemoved DEF Typed, Panes
<1> QED BY <1>2, <1>4, <1>5, <1>6

\* A step that leaves the queues alone lessens them.
LEMMA LessensStill ==
    ASSUME UNCHANGED requestVars
    PROVE  Lessens BY DEF Lessens, requestVars, worker

\* OpenFile: the new document has no number yet.
LEMMA StepOpenFile ==
    ASSUME IInv, NEW f \in Files, OpenFile(f)
    PROVE  IInv'
<1>1. Typed /\ Queued /\ Edited BY Whole
<1>2. /\ docs[f] = NoDoc /\ tabs' = Append(tabs, f) /\ docs' = [docs EXCEPT ![f] = NewDoc]
      /\ UNCHANGED <<requestVars, server, question, autoSave, crashed, last>>
      /\ acts < MaxActs /\ acts' = acts + 1 /\ f \notin Open BY DEF OpenFile, User, Quiet, Open
<1>3. Queued' BY <1>1, <1>2, QueuedStill
<1>4. NewDoc \in Doc /\ Sound(NewDoc) /\ NewDoc.id = NoId /\ ~NewDoc.loaded
  BY ActAssumption, GenAssumption DEF NewDoc, Doc, Texts, Gens, Sound, NoId
<1>5. docs \in [Files -> Doc \cup {NoDoc}] BY <1>1 DEF Typed, Panes
<1>6. docs' \in [Files -> Doc \cup {NoDoc}] /\ docs'[f] = NewDoc /\ \A g \in Files : g # f => docs'[g] = docs[g]
  BY <1>2, <1>4, <1>5
<1>7. Open' = Open \cup {f} BY <1>4, <1>6, NoneAssumption DEF Open
<1>8. Tabs(tabs', Open') BY <1>1, <1>2, <1>7, TabAdded DEF Typed, Panes
<1>9. Typed'
  <2>1. Ends' /\ Disks' BY <1>1, <1>2 DEF Typed, Ends, Disks, requestVars, session, worker, server
  <2>2. Panes' BY <1>1, <1>2, <1>6, <1>8 DEF Typed, Panes
  <2>3. Rests' BY <1>1, <1>2, ActAssumption DEF Typed, Rests, Texts
  <2> QED BY <2>1, <2>2, <2>3 DEF Typed
<1>10. Edited'
  <2>1. Known' BY <1>1, <1>2, <1>7 DEF Edited, Known
  <2>2. ASSUME NEW g \in Files, g # f PROVE Kept(g)'
    BY <2>2, <1>1, <1>2, <1>6, KeptSame, LessensStill DEF Edited, Queued, server
  <2>3. Kept(f)'
    <3>1. PICK d : d = docs'[f] OBVIOUS
    <3>2. PICK s : s = stored'[f] OBVIOUS
    <3>3. Signals' BY <1>3 DEF Queued
    <3>4. d.id = NoId => Fits(f, d, s)' BY <3>3, UnusedFitsNext
    <3> QED BY <3>1, <3>2, <3>4, <1>4, <1>6 DEF Kept, Clean
  <2> QED BY <2>1, <2>2, <2>3 DEF Edited
<1> QED BY <1>3, <1>9, <1>10, WholeNext

\* Edit: only a document that waits for nothing takes input.
LEMMA StepEdit ==
    ASSUME IInv, NEW f \in Files, Edit(f)
    PROVE  IInv'
<1>1. Typed /\ Queued /\ Edited BY Whole
<1>2. PICK d \in Doc : d = docs[f] /\ f \in Open BY <1>1, IsDoc DEF Edit
<1>3. Sound(d) /\ Kept(f) /\ docs[f] # NoDoc BY <1>1, <1>2, IsDoc DEF Edited, Kept
<1>4. ~d.busy /\ d.loaded BY <1>2, <1>3 DEF Edit, Sound
<1>5. /\ last' = last + 1 /\ acts' = acts + 1 /\ acts < MaxActs
      /\ UNCHANGED <<requestVars, server, tabs, question, autoSave, crashed>> BY DEF Edit, User
<1>6. last' \in Texts /\ autoSave \in BOOLEAN /\ acts' \in 0 .. MaxActs /\ last' <= acts'
  BY <1>1, <1>5, ActAssumption DEF Typed, Rests, Texts
<1>7. PICK e : e = [d EXCEPT !.text = last', !.undo = TRUE, !.dirty = TRUE, !.timer = autoSave] OBVIOUS
<1>8. docs' = [docs EXCEPT ![f] = e] BY <1>2, <1>4, <1>7 DEF Edit
<1>9. e \in Doc BY <1>6, <1>7 DEF Doc
<1>10. /\ e.loaded = d.loaded /\ e.busy = d.busy /\ e.enabled = d.enabled /\ e.fresh = d.fresh /\ e.id = d.id
       /\ e.dirty BY <1>7 DEF Doc
<1>11. Panes' /\ Open' = Open /\ docs'[f] = e /\ \A g \in Files : g # f => docs'[g] = docs[g]
  BY <1>1, <1>2, <1>5, <1>8, <1>9, OneDoc
<1>12. Queued' BY <1>1, <1>5, QueuedStill
<1>13. Typed'
  <2>1. Ends' /\ Disks' BY <1>1, <1>5 DEF Typed, Ends, Disks, requestVars, session, worker, server
  <2>2. Rests' BY <1>1, <1>5, <1>6 DEF Typed, Rests
  <2> QED BY <2>1, <2>2, <1>11 DEF Typed
<1>14. Edited'
  <2>1. Known' BY <1>1, <1>5, <1>11 DEF Edited, Known
  <2>2. ASSUME NEW g \in Files, g # f PROVE Kept(g)'
    BY <2>2, <1>1, <1>5, <1>11, KeptSame, LessensStill DEF Edited, Queued, server
  <2>3. Sound(e) /\ Clean(e, stored[f]) BY <1>3, <1>4, <1>10 DEF Sound, Clean
  <2>4. Kept(f)' BY <2>3, <1>1, <1>2, <1>3, <1>4, <1>5, <1>10, <1>11, KeptLike, LessensStill DEF Queued, server
  <2> QED BY <2>1, <2>2, <2>4 DEF Edited
<1> QED BY <1>12, <1>13, <1>14, WholeNext

\* MoveTab.
LEMMA StepMoveTab ==
    ASSUME IInv, NEW i \in DOMAIN tabs, NEW j \in DOMAIN tabs, MoveTab(i, j)
    PROVE  IInv'
<1>1. Typed /\ Queued /\ Edited BY Whole
<1>2. /\ tabs' = InsertAt(RemoveAt(tabs, i), j, tabs[i]) /\ acts < MaxActs /\ acts' = acts + 1
      /\ UNCHANGED <<requestVars, server, docs, question, autoSave, crashed, last>> BY DEF MoveTab, User, Quiet
<1>3. Tabs(tabs, Open) BY <1>1 DEF Typed, Panes
<1>4. /\ Tabs(RemoveAt(tabs, i), Open \ {tabs[i]}) /\ tabs[i] \in Open \cap Files /\ Len(tabs) \in Nat
      /\ Len(RemoveAt(tabs, i)) = Len(tabs) - 1 BY <1>3, TabRemoved
<1>5. j \in 1 .. Len(RemoveAt(tabs, i)) + 1 BY <1>3, <1>4, LenProperties DEF Tabs
<1>6. tabs[i] \notin Open \ {tabs[i]} /\ (Open \ {tabs[i]}) \cup {tabs[i]} = Open BY <1>4
<1>7. Tabs(tabs', Open)
  <2>1. PICK t : t = RemoveAt(tabs, i) OBVIOUS
  <2>2. PICK S : S = Open \ {tabs[i]} OBVIOUS
  <2>3. PICK x \in Files : x = tabs[i] BY <1>4
  <2>4. Tabs(InsertAt(t, j, x), S \cup {x}) BY <2>1, <2>2, <2>3, <1>4, <1>5, <1>6, TabInserted
  <2> QED BY <2>1, <2>2, <2>3, <2>4, <1>2, <1>6
<1>8. Open' = Open BY <1>2 DEF Open
<1>9. Queued' BY <1>1, <1>2, QueuedStill
<1>10. Typed'
  <2>1. Ends' /\ Disks' BY <1>1, <1>2 DEF Typed, Ends, Disks, requestVars, session, worker, server
  <2>2. Panes' BY <1>1, <1>2, <1>7, <1>8 DEF Typed, Panes
  <2>3. Rests' BY <1>1, <1>2, ActAssumption DEF Typed, Rests, Texts
  <2> QED BY <2>1, <2>2, <2>3 DEF Typed
<1>11. Edited' BY <1>1, <1>2, <1>8, KeptSame, LessensStill DEF Edited, Known, Queued, server
<1> QED BY <1>9, <1>10, <1>11, WholeNext

\* A document goes and no question stays that it could be about.
LEMMA GoneWithTab ==
    ASSUME Typed, Queued, Edited, UNCHANGED <<requestVars, server>>, NEW i, Removed(i),
           question' = NoQuestion, Rests'
    PROVE  IInv'
<1>1. Queued' BY QueuedStill
<1>2. \A g \in Files : docs'[g] = NoDoc \/ docs'[g] = docs[g] BY OneLess DEF Removed
<1>3. Panes'
  <2>1. CASE i \in DOMAIN tabs BY <2>1, OneLess DEF Panes
  <2>2. CASE i \notin DOMAIN tabs BY <2>2 DEF Removed, Typed, Panes, Open
  <2> QED BY <2>1, <2>2
<1>4. Typed'
  <2>1. Ends' /\ Disks' BY DEF Typed, Ends, Disks, requestVars, session, worker, server
  <2> QED BY <2>1, <1>3 DEF Typed
<1>5. ASSUME NEW g \in Files PROVE Kept(g)' BY <1>2, KeptSame, LessensStill DEF Kept, Edited, Queued, server
<1>6. Known' BY DEF Known
<1> QED BY <1>1, <1>4, <1>5, <1>6, WholeNext DEF Edited

\* CloseTab: the question remembers a document that is there.
LEMMA StepCloseTab ==
    ASSUME IInv, NEW i \in DOMAIN tabs, CloseTab(i)
    PROVE  IInv'
<1>1. Typed /\ Queued /\ Edited BY Whole
<1>2. /\ question = NoQuestion /\ acts < MaxActs /\ acts' = acts + 1
      /\ UNCHANGED <<requestVars, server, autoSave, crashed, last>> BY DEF CloseTab, User, Quiet
<1>3. Rests' BY <1>1, <1>2, ActAssumption DEF Typed, Rests, Texts
<1>4. PICK f : f = tabs[i] OBVIOUS
<1>5. CASE ~docs[f].dirty BY <1>4, <1>5, <1>1, <1>2, <1>3, GoneWithTab DEF CloseTab
<1>6. CASE docs[f].dirty
  <2>1. question' = [file |-> f, index |-> i, gone |-> FALSE] /\ UNCHANGED <<tabs, docs>>
    BY <1>4, <1>6 DEF CloseTab
  <2>2. f \in Files /\ f \in Open BY <1>1, <1>4, TabRemoved DEF Typed, Panes
  <2>3. i \in 1 .. Cardinality(Files) BY <1>1, TabsFit DEF Typed, Panes
  <2>4. question' \in Questions /\ question'.file = f BY <2>1, <2>2, <2>3 DEF Questions
  <2>5. Open' = Open BY <2>1 DEF Open
  <2>6. Panes' BY <2>1, <2>4, <2>5, <1>1 DEF Typed, Panes
  <2>7. Typed'
    <3>1. Ends' /\ Disks' BY <1>1, <1>2 DEF Typed, Ends, Disks, requestVars, session, worker, server
    <3> QED BY <2>6, <3>1, <1>3 DEF Typed
  <2>8. \A g \in Files : Kept(g)' BY <2>1, <1>1, <1>2, KeptSame, LessensStill DEF Edited, Queued, server
  <2>9. Known' BY <2>2, <2>4, <2>5 DEF Known
  <2>10. Queued' BY <1>1, <1>2, QueuedStill
  <2> QED BY <2>7, <2>8, <2>9, <2>10, WholeNext DEF Edited
<1> QED BY <1>5, <1>6

\* Cancel and Discard.
LEMMA StepCancel ==
    ASSUME IInv, Cancel
    PROVE  IInv'
<1>1. Typed /\ Queued /\ Edited BY Whole
<1>2. question' = NoQuestion /\ UNCHANGED <<requestVars, server, tabs, docs, acts, autoSave, crashed, last>>
  BY DEF Cancel, Quiet
<1>3. Open' = Open BY <1>2 DEF Open
<1>4. Typed'
  <2>1. Ends' /\ Disks' BY <1>1, <1>2 DEF Typed, Ends, Disks, requestVars, session, worker, server
  <2>2. Panes' BY <1>1, <1>2, <1>3 DEF Typed, Panes
  <2>3. Rests' BY <1>1, <1>2 DEF Typed, Rests
  <2> QED BY <2>1, <2>2, <2>3 DEF Typed
<1>5. \A g \in Files : Kept(g)' BY <1>1, <1>2, KeptSame, LessensStill DEF Edited, Queued, server
<1>6. Known' BY <1>2 DEF Known
<1>7. Queued' BY <1>1, <1>2, QueuedStill
<1> QED BY <1>4, <1>5, <1>6, <1>7, WholeNext DEF Edited

\* "Discard": the tab at the index of the question goes, whichever it is now (removeDocumentAt).
LEMMA StepDiscard ==
    ASSUME IInv, Discard
    PROVE  IInv'
BY Whole, GoneWithTab DEF Discard, Quiet, Typed, Rests

\* Requests of a document.

\* A number that is not pending is in use nowhere.
LEMMA NewIsUnused ==
    ASSUME Signals, NEW id \in Ids, NewId(id)
    PROVE  Unused(id)
<1>1. /\ \A k \in DOMAIN calls : ~(calls[k].call.op \in {"read", "write"} /\ calls[k].call.id = id)
      /\ \A c \in deferred : ~(c.call.op \in {"read", "write"} /\ c.call.id = id)
      /\ \A k \in DOMAIN reports : ~(reports[k].call.op \in {"read", "write"} /\ reports[k].call.id = id)
  BY DEF NewId, Pending, InFlight
<1>2. \A c \in Asks : c.call.op \in {"read", "write"} BY CallParts DEF Calls
<1>3. \A r \in Answers : r.call.op \in {"read", "write"} BY ReportParts DEF Reports
<1>4. NoneOf(calls, Asking(id)) BY <1>1, <1>2 DEF NoneOf, Asking
<1>5. NoneOf(reports, Answering(id)) BY <1>1, <1>3 DEF NoneOf, Answering
<1>6. \A c \in deferred : c.call.id # id BY <1>1, <1>2 DEF Signals
<1> QED BY <1>4, <1>5, <1>6 DEF Unused

\* A document asks for something and waits.
LEMMA StepAsk ==
    ASSUME Typed, Queued, Edited, UNCHANGED <<session, worker, reports, server, tabs>>,
           question' \in {question, NoQuestion}, Rests',
           NEW f \in Open, NEW e \in Doc, docs' = [docs EXCEPT ![f] = e], NewId(e.id), e.id \in Ids,
           Sound(e), Clean(e, stored[f]),
           NEW c \in Asks, calls' = Append(calls, c), c.gen = gen, c.host = target,
           c.call.file = f, c.call.id = e.id, c \notin WrongCall(f, e)
    PROVE  IInv'
<1>1. Signals /\ Ends /\ Served BY DEF Queued, Typed
<1>2. UNCHANGED <<connected, target, gen, link, deferred, reports, disk, stored, tabs>> BY DEF session, worker, server
<1>3. Unused(e.id) BY <1>1, NewIsUnused
<1>4. c \in Calls /\ calls \in Seq(Calls) /\ calls' \in Seq(Calls) BY <1>1, AddNone DEF Signals, Calls
<1>5. Queued' BY <1>1, <1>2, <1>4, <1>3, ServedAsk, AloneAsk DEF Signals, Queued, Stocked
<1>6. Panes' /\ Open' = Open /\ docs'[f] = e /\ \A g \in Files : g # f => docs'[g] = docs[g] BY <1>2, OneDoc
<1>7. Typed' BY <1>2, <1>6 DEF Typed, Ends, Disks
<1>8. ASSUME NEW g \in Files, NEW d, NEW s, Fits(g, d, s), c \notin WrongCall(g, d) PROVE Fits(g, d, s)'
  BY <1>1, <1>2, <1>4, <1>8, FitsStep
<1>9. ASSUME NEW g \in Files, g # f PROVE Kept(g)'
  <2>1. PICK d : d = docs[g] OBVIOUS
  <2>2. PICK s : s = stored[g] OBVIOUS
  <2>3. CASE d = NoDoc BY <2>1, <2>3, <1>6, <1>9 DEF Kept
  <2>4. CASE d # NoDoc
    <3>1. Sound(d) /\ Clean(d, s) /\ Fits(g, d, s) BY <2>1, <2>2, <2>4 DEF Edited, Kept
    <3>2. c \notin WrongCall(g, d) BY <1>9 DEF WrongCall
    <3>3. Fits(g, d, s)' BY <3>1, <3>2, <1>8
    <3>4. docs'[g] = d /\ stored'[g] = s BY <2>1, <2>2, <1>2, <1>6, <1>9
    <3> QED BY <3>1, <3>3, <3>4 DEF Kept, Sound, Clean, Fits
  <2> QED BY <2>3, <2>4
<1>10. Kept(f)'
  <2>1. PICK s : s = stored[f] OBVIOUS
  <2>2. Fits(f, e, s) BY <1>1, <1>3, UnusedFits
  <2>3. f \in Files BY IsDoc
  <2>4. Fits(f, e, s)' BY <2>2, <2>3, <1>8
  <2>5. docs'[f] = e /\ stored'[f] = s BY <2>1, <1>2, <1>6
  <2> QED BY <2>1, <2>4, <2>5 DEF Kept, Sound, Clean, Fits
<1>11. Known' BY <1>6 DEF Edited, Known
<1> QED BY <1>5, <1>7, <1>9, <1>10, <1>11, WholeNext DEF Edited

\* A document changes without a request, and waits for the same as before.
LEMMA StepNoAsk ==
    ASSUME Typed, Queued, Edited, UNCHANGED <<requestVars, server, tabs>>,
           question' \in {question, NoQuestion}, Rests',
           NEW f \in Open, NEW e \in Doc, docs' = [docs EXCEPT ![f] = e], Sound(e), Clean(e, stored[f]),
           e.id = docs[f].id, e.busy = docs[f].busy, e.loaded = docs[f].loaded, e.text = docs[f].text
    PROVE  IInv'
<1>1. Queued' BY QueuedStill
<1>2. Panes' /\ Open' = Open /\ docs'[f] = e /\ \A g \in Files : g # f => docs'[g] = docs[g] BY OneDoc
<1>3. Typed'
  <2>1. Ends' /\ Disks' BY DEF Typed, Ends, Disks, requestVars, session, worker, server
  <2> QED BY <2>1, <1>2 DEF Typed
<1>4. Signals /\ Lessens /\ stored' = stored /\ f \in Files /\ docs[f] # NoDoc
  BY LessensStill, IsDoc DEF Queued, server
<1>5. ASSUME NEW g \in Files, g # f PROVE Kept(g)' BY <1>2, <1>4, <1>5, KeptSame DEF Edited
<1>6. Kept(f)'
  <2>1. PICK s : s = stored[f] OBVIOUS
  <2>2. Sound(docs'[f]) /\ Clean(docs'[f], stored[f]) BY <1>2
  <2> QED BY <2>2, <1>2, <1>4, KeptLike DEF Edited
<1>7. Known' BY <1>2 DEF Edited, Known
<1> QED BY <1>1, <1>3, <1>5, <1>6, <1>7, WholeNext DEF Edited

\* saveDocument, for a document d that differs from the one in the tab in
\* nothing that matters here.
LEMMA StepSave ==
    ASSUME Typed, Queued, Edited, UNCHANGED <<session, worker, reports, server, tabs>>,
           question' \in {question, NoQuestion}, Rests',
           NEW f \in Open, NEW d \in Doc, Save(f, d),
           d.id = docs[f].id, d.busy = docs[f].busy, d.loaded = docs[f].loaded, d.text = docs[f].text,
           d.dirty = docs[f].dirty, d.enabled = docs[f].enabled, d.fresh = docs[f].fresh
    PROVE  IInv'
<1>1. f \in Files /\ docs[f] # NoDoc /\ Sound(d) /\ Clean(d, stored[f]) BY IsDoc DEF Edited, Kept, Sound, Clean
<1>2. CASE ~CanSave(d) BY <1>2, <1>1, StepNoAsk DEF Save, requestVars
<1>3. CASE CanSave(d)
  <2>1. PICK id \in Ids : /\ NewId(id) /\ docs' = [docs EXCEPT ![f] = Busy(d, id)]
                          /\ Ask([op |-> "write", file |-> f, id |-> id, text |-> d.text]) BY <1>3 DEF Save
  <2>2. gen \in Gens /\ target \in Hosts /\ d.text \in Texts BY Parts DEF Typed, Ends
  <2>3. PICK e \in Doc : e = Busy(d, id) BY <2>2, BusyParts
  <2>4. /\ e.busy /\ ~e.enabled /\ e.loaded = d.loaded /\ e.dirty = d.dirty /\ e.fresh = d.fresh
        /\ e.text = d.text /\ e.id = id BY <2>2, <2>3, BusyParts
  <2>5. ~d.busy /\ d.loaded /\ d.dirty BY <1>3 DEF CanSave
  <2>6. Sound(e) /\ Clean(e, stored[f]) BY <1>1, <2>4, <2>5 DEF Sound, Clean
  <2>7. PICK c : c = [call |-> [op |-> "write", file |-> f, id |-> id, text |-> d.text], gen |-> gen, host |-> target]
    OBVIOUS
  <2>8. c \in Asks BY <1>1, <2>2, <2>7 DEF Asks, Writes
  <2>9. c.call.op = "write" /\ c.call.file = f /\ c.call.id = id /\ c.call.text = d.text /\ c.gen = gen /\ c.host = target
    BY <2>7
  <2>10. calls' = Append(calls, c) BY <2>1, <2>7 DEF Ask
  <2>11. c \notin WrongCall(f, e) BY <2>4, <2>5, <2>9 DEF WrongCall, Awaits
  <2> QED BY <2>1, <2>3, <2>4, <2>6, <2>8, <2>9, <2>10, <2>11, StepAsk
<1> QED BY <1>2, <1>3

\* SaveFile, AutoSave, SaveAndClose and BeginLoad.
LEMMA StepSaveFile ==
    ASSUME IInv, NEW f \in Files, SaveFile(f)
    PROVE  IInv'
BY Whole, ActAssumption, IsDoc, StepSave DEF SaveFile, User, Quiet, Typed, Rests, Texts

\* The autosave timer of a document that is there (saveDocument).
LEMMA StepAutoSave ==
    ASSUME IInv, NEW f \in Files, AutoSave(f)
    PROVE  IInv'
<1>1. Typed /\ Queued /\ Edited BY Whole
<1>2. PICK d : d = [docs[f] EXCEPT !.timer = FALSE] OBVIOUS
<1>3. /\ f \in Open /\ Save(f, d)
      /\ UNCHANGED <<session, worker, reports, server, tabs, question, acts, autoSave, crashed, last>>
  BY <1>2 DEF AutoSave, Quiet
<1>4. Rests' BY <1>1, <1>3 DEF Typed, Rests
<1>5. docs[f] \in Doc BY <1>1, <1>3, IsDoc
<1>6. /\ d \in Doc /\ d.id = docs[f].id /\ d.busy = docs[f].busy /\ d.loaded = docs[f].loaded /\ d.text = docs[f].text
      /\ d.dirty = docs[f].dirty /\ d.enabled = docs[f].enabled /\ d.fresh = docs[f].fresh BY <1>2, <1>5 DEF Doc
<1> QED BY <1>1, <1>3, <1>4, <1>6, StepSave

\* "Save": the document of the question is saved, and marked to be closed, unless it is gone.
LEMMA StepSaveAndClose ==
    ASSUME IInv, SaveAndClose
    PROVE  IInv'
<1>1. Typed /\ Queued /\ Edited BY Whole
<1>2. /\ question # NoQuestion /\ question' = NoQuestion
      /\ UNCHANGED <<session, worker, reports, server, tabs, autoSave, last, acts>> BY DEF SaveAndClose
<1>3. CASE question.gone
  <2>1. crashed' \in BOOLEAN /\ UNCHANGED <<calls, docs>> BY <1>3 DEF SaveAndClose
  <2>2. Open' = Open BY <2>1 DEF Open
  <2>3. Rests' BY <1>1, <1>2, <2>1 DEF Typed, Rests
  <2>4. UNCHANGED <<requestVars, server>> BY <1>2, <2>1 DEF requestVars
  <2>5. Typed'
    <3>1. Ends' /\ Disks' BY <1>1, <2>4 DEF Typed, Ends, Disks, requestVars, session, worker, server
    <3>2. Panes' BY <1>1, <1>2, <2>1, <2>2 DEF Typed, Panes
    <3> QED BY <3>1, <3>2, <2>3 DEF Typed
  <2>6. Queued' BY <1>1, <2>4, QueuedStill
  <2>7. \A g \in Files : Kept(g)' BY <1>1, <2>1, <2>4, KeptSame, LessensStill DEF Edited, Queued, server
  <2>8. Known' BY <1>2 DEF Known
  <2> QED BY <2>5, <2>6, <2>7, <2>8, WholeNext DEF Edited
<1>4. CASE ~question.gone
  <2>1. PICK f \in Open : f = question.file BY <1>1, <1>2, <1>4 DEF Edited, Known
  <2>2. PICK d : d = [docs[f] EXCEPT !.closing = TRUE] OBVIOUS
  <2>3. Save(f, d) /\ UNCHANGED crashed BY <1>4, <2>1, <2>2 DEF SaveAndClose
  <2>4. Rests' BY <1>1, <1>2, <2>3 DEF Typed, Rests
  <2>5. docs[f] \in Doc BY <1>1, IsDoc
  <2>6. /\ d \in Doc /\ d.id = docs[f].id /\ d.busy = docs[f].busy /\ d.loaded = docs[f].loaded
        /\ d.text = docs[f].text /\ d.dirty = docs[f].dirty /\ d.enabled = docs[f].enabled /\ d.fresh = docs[f].fresh
    BY <2>2, <2>5 DEF Doc
  <2>7. question' \in {question, NoQuestion} BY <1>2
  <2> QED BY <1>1, <1>2, <2>3, <2>4, <2>6, <2>7, StepSave
<1> QED BY <1>3, <1>4

\* The load of a new document, from the event loop (beginLoad).
LEMMA StepBeginLoad ==
    ASSUME IInv, NEW f \in Files, BeginLoad(f)
    PROVE  IInv'
<1>1. Typed /\ Queued /\ Edited BY Whole
<1>2. PICK d : d = [docs[f] EXCEPT !.fresh = FALSE] OBVIOUS
<1>3. /\ f \in Open /\ docs[f].fresh
      /\ UNCHANGED <<session, worker, reports, server, tabs, question, acts, autoSave, crashed, last>>
  BY DEF BeginLoad, Quiet
<1>4. Rests' BY <1>1, <1>3 DEF Typed, Rests
<1>5. docs[f] \in Doc /\ docs[f] # NoDoc BY <1>1, <1>3, IsDoc
<1>6. /\ d \in Doc /\ d.id = docs[f].id /\ d.busy = docs[f].busy /\ d.loaded = docs[f].loaded /\ d.text = docs[f].text
      /\ d.dirty = docs[f].dirty /\ d.enabled = docs[f].enabled /\ ~d.fresh BY <1>2, <1>5 DEF Doc
<1>7. ~d.loaded /\ ~d.busy /\ ~d.dirty /\ ~d.enabled BY <1>1, <1>3, <1>5, <1>6 DEF Edited, Kept, Sound
<1>8. gen \in Gens /\ target \in Hosts /\ connected \in BOOLEAN BY <1>1 DEF Typed, Ends
<1>9. CASE ~connected
  <2>1. docs' = [docs EXCEPT ![f] = Idle(d)] /\ calls' = calls BY <1>2, <1>9 DEF BeginLoad
  <2>2. PICK e \in Doc : e = Idle(d) BY <1>6, <1>8, IdleParts
  <2>3. /\ ~e.busy /\ e.enabled = (d.loaded /\ connected) /\ e.loaded = d.loaded /\ e.dirty = d.dirty
        /\ e.fresh = d.fresh /\ e.text = d.text /\ e.id = d.id BY <2>2, <1>6, <1>8, IdleParts
  <2>4. Sound(e) /\ Clean(e, stored[f]) BY <2>3, <1>6, <1>7 DEF Sound, Clean
  <2>5. UNCHANGED <<requestVars, server, tabs>> BY <2>1, <1>3 DEF requestVars
  <2>6. e.id = docs[f].id /\ e.busy = docs[f].busy /\ e.loaded = docs[f].loaded /\ e.text = docs[f].text
    BY <1>5, <2>3, <1>6, <1>7, Parts
  <2> QED BY <2>1, <2>2, <2>4, <2>5, <2>6, <1>1, <1>3, <1>4, StepNoAsk
<1>10. CASE connected
  <2>1. PICK id \in Ids : /\ NewId(id) /\ docs' = [docs EXCEPT ![f] = Busy(d, id)]
                          /\ Ask([op |-> "read", file |-> f, id |-> id]) BY <1>2, <1>10 DEF BeginLoad
  <2>2. PICK e \in Doc : e = Busy(d, id) BY <1>6, <1>8, BusyParts
  <2>3. /\ e.busy /\ ~e.enabled /\ e.loaded = d.loaded /\ e.dirty = d.dirty /\ e.fresh = d.fresh
        /\ e.text = d.text /\ e.id = id BY <2>2, <1>6, <1>8, BusyParts
  <2>4. Sound(e) /\ Clean(e, stored[f]) BY <2>3, <1>6, <1>7 DEF Sound, Clean
  <2>5. PICK c : c = [call |-> [op |-> "read", file |-> f, id |-> id], gen |-> gen, host |-> target] OBVIOUS
  <2>6. c \in Asks BY <2>5, <1>8 DEF Asks, Reads
  <2>7. c.call.op = "read" /\ c.call.file = f /\ c.call.id = id /\ c.gen = gen /\ c.host = target BY <2>5
  <2>8. calls' = Append(calls, c) BY <2>1, <2>5 DEF Ask
  <2>9. c \notin WrongCall(f, e) BY <2>3, <2>7, <1>7 DEF WrongCall, Awaits
  <2> QED BY <2>1, <2>2, <2>3, <2>4, <2>6, <2>7, <2>8, <2>9, <1>1, <1>3, <1>4, StepAsk
<1> QED BY <1>9, <1>10

\* What the session reports.

\* The editors of all documents are disabled, or nothing happens to them.
LEMMA StepDisabled ==
    ASSUME Typed, Queued, Edited, docs' \in {docs, Disabled}, UNCHANGED <<server, tabs, question>>,
           Lessens, Queued', Ends', Rests'
    PROVE  IInv'
<1>1. docs \in [Files -> Doc \cup {NoDoc}] BY DEF Typed, Panes
<1>2. ASSUME NEW f \in Files, docs[f] # NoDoc
      PROVE  /\ docs'[f] \in Doc /\ docs'[f] # NoDoc /\ docs'[f].id = docs[f].id /\ docs'[f].busy = docs[f].busy
             /\ docs'[f].loaded = docs[f].loaded /\ docs'[f].text = docs[f].text /\ docs'[f].dirty = docs[f].dirty
             /\ docs'[f].fresh = docs[f].fresh /\ (docs'[f].enabled => docs[f].enabled)
  <2>1. PICK d \in Doc : d = docs[f] BY <1>1, <1>2
  <2>2. CASE docs' = docs BY <2>1, <2>2, <1>2
  <2>3. CASE docs' = Disabled
    <3>1. docs'[f] = [d EXCEPT !.enabled = FALSE] BY <2>1, <2>3, <1>2 DEF Disabled, Open
    <3>2. PICK e : e = [d EXCEPT !.enabled = FALSE] OBVIOUS
    <3>3. /\ e \in Doc /\ e.id = d.id /\ e.busy = d.busy /\ e.loaded = d.loaded /\ e.text = d.text
          /\ e.dirty = d.dirty /\ e.fresh = d.fresh /\ ~e.enabled BY <3>2 DEF Doc
    <3>4. e # NoDoc BY <3>3, NoneAssumption
    <3>5. docs'[f] = e BY <3>1, <3>2
    <3> QED BY <3>3, <3>4, <3>5, <2>1
  <2> QED BY <2>2, <2>3
<1>3. ASSUME NEW f \in Files, docs[f] = NoDoc PROVE docs'[f] = NoDoc BY <1>1, <1>3 DEF Disabled, Open
<1>4. docs' \in [Files -> Doc \cup {NoDoc}] BY <1>1, <1>2, <1>3 DEF Disabled
<1>5. Panes' BY <1>2, <1>3, <1>4, Redone
<1>6. Open' = Open BY <1>2, <1>3 DEF Open
<1>7. Disks' BY DEF Typed, Disks, server
<1>8. Typed' BY <1>5, <1>7 DEF Typed
<1>9. Known' BY <1>6 DEF Edited, Known
<1>10. ASSUME NEW f \in Files PROVE Kept(f)'
  <2>1. CASE docs[f] = NoDoc BY <2>1, <1>3 DEF Kept
  <2>2. CASE docs[f] # NoDoc
    <3>1. Signals /\ stored' = stored /\ Kept(f) BY DEF Queued, Edited, server
    <3>2. Sound(docs[f]) /\ Clean(docs[f], stored[f]) BY <2>2, <3>1 DEF Kept
    <3>3. PICK e : e = docs'[f] OBVIOUS
    <3>4. Sound(e) /\ Clean(e, stored[f]) BY <3>2, <3>3, <2>2, <1>2 DEF Sound, Clean
    <3> QED BY <3>1, <3>3, <3>4, <2>2, <1>2, KeptLike
  <2> QED BY <2>1, <2>2
<1> QED BY <1>8, <1>9, <1>10, WholeNext DEF Edited

\* The queues when the session takes a report.
LEMMA QueuedReport ==
    ASSUME Typed, Queued, reports # <<>>, reports' = Tail(reports), connected' \in BOOLEAN,
           UNCHANGED <<target, gen, worker, calls, server>>
    PROVE  Queued' /\ Ends' /\ Lessens
<1>1. Signals /\ Ends /\ reports \in Seq(Reports) BY DEF Queued, Typed, Signals
<1>2. UNCHANGED <<link, deferred, disk, stored>> BY DEF worker, server
<1>3. Signals' BY <1>1, <1>2, FirstAndRest DEF Signals
<1>4. Served' BY <1>2 DEF Queued, Served, InTurn, OneServer
<1>5. \A i \in Ids : Alone(i)' BY <1>1, <1>2, AloneLess DEF Queued
<1>6. \A f \in Files : Stocked(f)' BY <1>2, <1>1, StockedStep DEF Queued, Stocked
<1>7. Ends' BY <1>1, <1>2 DEF Ends
<1>8. Lessens BY <1>2 DEF Lessens
<1> QED BY <1>3, <1>4, <1>5, <1>6, <1>7, <1>8 DEF Queued

\* GoesUp, GoesDown and Dropped.
LEMMA StepNews ==
    ASSUME IInv, GoesUp \/ GoesDown \/ Dropped
    PROVE  IInv'
<1>1. Typed /\ Queued /\ Edited BY Whole
<1>2. /\ reports # <<>> /\ reports' = Tail(reports) /\ connected' \in {connected, TRUE, FALSE}
      /\ UNCHANGED <<target, gen, worker, calls, server, tabs, question, acts, autoSave, crashed, last>>
      /\ docs' \in {docs, Disabled}
  BY DEF GoesUp, GoesDown, Dropped, NextReport, StaleReport, Quiet, session, editor
<1>3. connected' \in BOOLEAN BY <1>1, <1>2 DEF Typed, Ends
<1>4. Queued' /\ Ends' /\ Lessens BY <1>1, <1>2, <1>3, QueuedReport
<1>5. Rests' BY <1>1, <1>2 DEF Typed, Rests
<1> QED BY <1>1, <1>2, <1>4, <1>5, StepDisabled

\* Reconnect and Disconnect.
LEMMA StepOpening ==
    ASSUME IInv, Disconnect \/ \E h \in Hosts : Reconnect(h)
    PROVE  IInv'
<1>1. Typed /\ Queued /\ Edited BY Whole
<1>2. /\ gen < MaxGen /\ gen' = gen + 1 /\ connected' = FALSE /\ acts < MaxActs /\ acts' = acts + 1
      /\ UNCHANGED <<worker, reports, server, tabs, question, autoSave, crashed, last>>
      /\ docs' = Disabled BY DEF Reconnect, Disconnect, BeginConnect, BeginDisconnect, User, Quiet
<1>3. Signals /\ Ends /\ Served /\ calls \in Seq(Calls) /\ gen \in Nat BY <1>1, GenAssumption DEF Queued, Typed, Signals, Ends, Gens
<1>4. gen + 1 \in Gens BY <1>2, <1>3, GenAssumption DEF Gens
<1>5. PICK op \in {"connect", "disconnect"}, h \in Hosts :
         /\ target' = h
         /\ calls' = Append(calls, [call |-> [op |-> op], gen |-> gen + 1, host |-> h])
  <2>1. ASSUME NEW h \in Hosts, Reconnect(h)
        PROVE  target' = h /\ calls' = Append(calls, [call |-> [op |-> "connect"], gen |-> gen + 1, host |-> h])
    BY <2>1, <1>2 DEF Reconnect, BeginConnect
  <2>2. CASE Disconnect BY <2>2, <1>3, <1>2 DEF Disconnect, BeginDisconnect, Ends
  <2> QED BY <2>1, <2>2
<1>6. PICK c : c = [call |-> [op |-> op], gen |-> gen + 1, host |-> h] OBVIOUS
<1>7. c \in Openings /\ c.gen = gen + 1 /\ c.host = target' /\ calls' = Append(calls, c) BY <1>4, <1>5, <1>6 DEF Openings
<1>8. UNCHANGED <<link, deferred, disk, stored>> BY <1>2 DEF worker, server
<1>9. c \in Calls /\ calls' \in Seq(Calls) BY <1>3, <1>7, AddNone DEF Calls
<1>10. Queued'
  <2>1. Signals' BY <1>2, <1>3, <1>8, <1>9 DEF Signals
  <2>2. Served' BY <1>2, <1>3, <1>5, <1>7, <1>8, ServedOpening
  <2>3. \A i \in Ids : Alone(i)' BY <1>1, <1>2, <1>3, <1>7, <1>8, AloneLess DEF Queued
  <2>4. \A g \in Files : Stocked(g)' BY <1>1, <1>2, <1>8 DEF Queued, Stocked
  <2> QED BY <2>1, <2>2, <2>3, <2>4 DEF Queued
<1>11. Ends' BY <1>2, <1>3, <1>4, <1>5, <1>8 DEF Ends
<1>12. Lessens BY <1>2, <1>7, <1>8 DEF Lessens
<1>13. Rests' BY <1>1, <1>2, ActAssumption DEF Typed, Rests, Texts
<1> QED BY <1>1, <1>2, <1>10, <1>11, <1>12, <1>13, StepDisabled

\* The first report is the answer a document waits for.
LEMMA AnswerFits ==
    ASSUME Typed, Queued, Edited, reports # <<>>, Head(reports).call.op \in {"read", "write"}, NEW f \in Answered
    PROVE  /\ f \in Files /\ docs[f] \in Doc /\ docs[f].busy /\ Sound(docs[f]) /\ Clean(docs[f], stored[f])
           /\ Head(reports) \in Answers /\ f = Head(reports).call.file /\ docs[f].id = Head(reports).call.id
           /\ Head(reports).call.op = "read" =>
                /\ ~docs[f].loaded
                /\ Head(reports).call.ok => Head(reports).call.text \in stored[f] \cap Texts
           /\ Head(reports).call.op = "write" =>
                docs[f].loaded /\ (Head(reports).call.ok => docs[f].text \in stored[f])
<1>1. f \in Files /\ docs[f] \in Doc /\ docs[f] # NoDoc BY IsDoc DEF Answered
<1>2. PICK r \in Reports : r = Head(reports) BY FirstAndRest DEF Queued, Signals
<1>3. r \in Answers BY <1>2, ReportParts
<1>4. PICK d \in Doc : d = docs[f] BY <1>1
<1>5. PICK s : s = stored[f] OBVIOUS
<1>6. r.call.file = f /\ r.call.id = d.id BY <1>2, <1>4 DEF Answered
<1>7. Sound(d) /\ Clean(d, s) /\ Fits(f, d, s) BY <1>1, <1>4, <1>5 DEF Edited, Kept
<1>8. r \notin WrongAnswer(f, d, s) BY <1>2, <1>7, TakeNone DEF Fits, Queued, Signals
<1>9. /\ d.busy /\ (r.call.op = "read" => ~d.loaded)
      /\ r.call.op = "write" => d.loaded /\ (r.call.ok => d.text \in s)
  BY <1>3, <1>6, <1>8 DEF WrongAnswer, Awaits
<1>10. r.call.op = "read" /\ r.call.ok => r.call.text \in s \cap Texts
  <2>1. NoneOf(reports, Unknown(f, s)) BY <1>1, <1>5 DEF Queued, Stocked
  <2>2. r \notin Unknown(f, s) BY <2>1, <1>2, TakeNone DEF Queued, Signals
  <2>3. r.call.op = "read" => r.call.text \in Texts BY <1>2, <1>3, ReportParts
  <2> QED BY <2>2, <2>3, <1>3, <1>6 DEF Unknown
<1> QED BY <1>1, <1>2, <1>3, <1>4, <1>5, <1>6, <1>7, <1>9, <1>10

\* A document whose answer is taken waits for nothing any more.
LEMMA StepAnswered ==
    ASSUME Typed, Queued, Edited, reports # <<>>, Head(reports).call.op \in {"read", "write"},
           reports' = Tail(reports), UNCHANGED <<session, worker, calls, server, tabs, question>>, Rests',
           docs' \in [Files -> Doc \cup {NoDoc}], \A f \in Files \ Answered : docs'[f] = docs[f],
           \A f \in Answered : /\ docs'[f] \in Doc /\ docs'[f].id = docs[f].id
                               /\ Sound(docs'[f]) /\ Clean(docs'[f], stored[f])
    PROVE  IInv'
<1>1. UNCHANGED <<connected, target, gen>> /\ UNCHANGED <<link, deferred, disk, stored>> BY DEF session, worker, server
<1>2. connected' \in BOOLEAN BY <1>1 DEF Typed, Ends
<1>3. Queued' /\ Ends' /\ Lessens BY <1>1, <1>2, QueuedReport
<1>4. Signals BY DEF Queued
<1>5. \A f \in Files : docs'[f] = NoDoc <=> docs[f] = NoDoc BY NoneAssumption, IsDoc DEF Answered
<1>6. Panes' /\ Open' = Open BY <1>5, Redone DEF Open
<1>7. Typed' BY <1>1, <1>3, <1>6 DEF Typed, Disks
<1>8. Known' BY <1>6 DEF Edited, Known
<1>9. ASSUME NEW f \in Files, f \notin Answered PROVE Kept(f)' BY <1>9, <1>1, <1>3, <1>4, KeptSame DEF Edited
<1>10. ASSUME NEW f \in Files, f \in Answered PROVE Kept(f)'
  <2>1. PICK e \in Doc : e = docs'[f] BY <1>10
  <2>2. PICK s : s = stored'[f] OBVIOUS
  <2>3. Sound(e) /\ Clean(e, s) BY <2>1, <2>2, <1>1, <1>10
  <2>4. PICK i \in Ids : i = Head(reports).call.id /\ Head(reports) \in Answering(i) /\ e.id = i
    BY <1>10, <2>1, AnswerFits, ReportParts DEF Reports, Answering
  <2>5. Unused(i)' BY <2>4, <1>1, <1>4, Settled DEF Queued
  <2>6. (Signals /\ (Unused(e.id) \/ e.id = NoId) => Fits(f, e, s))' BY UnusedFitsNext
  <2>7. Fits(f, e, s)' BY <2>4, <2>5, <2>6, <1>3 DEF Queued
  <2> QED BY <2>1, <2>2, <2>3, <2>7 DEF Kept, Sound, Clean, Fits
<1> QED BY <1>3, <1>7, <1>8, <1>9, <1>10, WholeNext DEF Edited

\* ReadDone and WriteFailed.
LEMMA StepReadDone ==
    ASSUME IInv, ReadDone
    PROVE  IInv'
<1>1. Typed /\ Queued /\ Edited BY Whole
<1>2. PICK r \in Reports : r = Head(reports) BY <1>1, FirstAndRest DEF Queued, Signals, ReadDone, NextReport
<1>3. /\ reports # <<>> /\ r.call.op = "read" /\ reports' = Tail(reports)
      /\ UNCHANGED <<session, worker, calls, server, tabs, question, acts, autoSave, crashed, last>>
  BY <1>2 DEF ReadDone, NextReport, Quiet
<1>4. Rests' BY <1>1, <1>3 DEF Typed, Rests
<1>5. docs \in [Files -> Doc \cup {NoDoc}] /\ connected \in BOOLEAN BY <1>1 DEF Typed, Panes, Ends
<1>6. docs' = [f \in Files |->
                  IF f \in Answered
                  THEN Idle(IF r.call.ok
                            THEN [docs[f] EXCEPT !.text = r.call.text, !.loaded = TRUE, !.dirty = FALSE, !.undo = FALSE]
                            ELSE docs[f])
                  ELSE docs[f]] BY <1>2 DEF ReadDone
<1>7. ASSUME NEW f \in Answered
      PROVE  /\ docs'[f] \in Doc /\ docs'[f].id = docs[f].id
             /\ Sound(docs'[f]) /\ Clean(docs'[f], stored[f])
  <2>1. /\ f \in Files /\ docs[f] \in Doc /\ docs[f].busy /\ Sound(docs[f]) /\ Clean(docs[f], stored[f])
        /\ ~docs[f].loaded /\ (r.call.ok => r.call.text \in stored[f] \cap Texts)
    BY <1>1, <1>2, <1>3, AnswerFits
  <2>2. PICK d \in Doc : d = docs[f] BY <2>1
  <2>3. PICK e : e = IF r.call.ok
                     THEN [d EXCEPT !.text = r.call.text, !.loaded = TRUE, !.dirty = FALSE, !.undo = FALSE] ELSE d
    OBVIOUS
  <2>4. e \in Doc /\ e.id = d.id /\ e.fresh = d.fresh /\ (e.dirty => d.dirty)
        /\ (e.loaded => r.call.ok /\ e.text = r.call.text)
    <3>1. CASE r.call.ok BY <3>1, <2>3, <2>1 DEF Doc
    <3>2. CASE ~r.call.ok BY <3>2, <2>1, <2>2, <2>3
    <3> QED BY <3>1, <3>2
  <2>5. docs'[f] = Idle(e) BY <1>6, <2>1, <2>2, <2>3
  <2>6. PICK x \in Doc : x = Idle(e) BY <2>4, <1>5, IdleParts
  <2>7. /\ ~x.busy /\ x.enabled = (e.loaded /\ connected) /\ x.loaded = e.loaded /\ x.dirty = e.dirty
        /\ x.fresh = e.fresh /\ x.text = e.text /\ x.id = e.id BY <2>4, <2>6, <1>5, IdleParts
  <2>8. ~d.fresh /\ ~d.dirty BY <2>1, <2>2 DEF Sound
  <2>9. Sound(x) /\ Clean(x, stored[f]) BY <2>1, <2>4, <2>7, <2>8 DEF Sound, Clean
  <2> QED BY <2>2, <2>4, <2>5, <2>6, <2>7, <2>9
<1>8. \A f \in Files \ Answered : docs'[f] = docs[f] BY <1>6
<1>9. docs' \in [Files -> Doc \cup {NoDoc}] BY <1>6, <1>5, <1>7, <1>8
<1>10. Head(reports).call.op \in {"read", "write"} BY <1>2, <1>3
<1> QED BY <1>1, <1>3, <1>4, <1>7, <1>8, <1>9, <1>10, StepAnswered

\* A write fails: its document stays dirty and is open to edits again (onFileOperationFailed).
LEMMA StepWriteFailed ==
    ASSUME IInv, WriteFailed
    PROVE  IInv'
<1>1. Typed /\ Queued /\ Edited BY Whole
<1>2. PICK r \in Reports : r = Head(reports) BY <1>1, FirstAndRest DEF Queued, Signals, WriteFailed, NextReport
<1>3. /\ reports # <<>> /\ r.call.op = "write" /\ reports' = Tail(reports)
      /\ UNCHANGED <<session, worker, calls, server, tabs, question, acts, autoSave, crashed, last>>
  BY <1>2 DEF WriteFailed, NextReport, Quiet
<1>4. Rests' BY <1>1, <1>3 DEF Typed, Rests
<1>5. docs \in [Files -> Doc \cup {NoDoc}] /\ connected \in BOOLEAN BY <1>1 DEF Typed, Panes, Ends
<1>6. docs' = [f \in Files |-> IF f \in Answered THEN Idle([docs[f] EXCEPT !.closing = FALSE]) ELSE docs[f]]
  BY DEF WriteFailed
<1>7. ASSUME NEW f \in Answered
      PROVE  /\ docs'[f] \in Doc /\ docs'[f].id = docs[f].id
             /\ Sound(docs'[f]) /\ Clean(docs'[f], stored[f])
  <2>1. f \in Files /\ docs[f] \in Doc /\ docs[f].busy /\ Sound(docs[f]) /\ Clean(docs[f], stored[f])
    BY <1>1, <1>2, <1>3, AnswerFits
  <2>2. PICK d \in Doc : d = docs[f] BY <2>1
  <2>3. PICK e : e = [d EXCEPT !.closing = FALSE] OBVIOUS
  <2>4. /\ e \in Doc /\ e.id = d.id /\ e.fresh = d.fresh /\ e.dirty = d.dirty /\ e.loaded = d.loaded
        /\ e.text = d.text BY <2>3 DEF Doc
  <2>5. docs'[f] = Idle(e) BY <1>6, <2>1, <2>2, <2>3
  <2>6. PICK x \in Doc : x = Idle(e) BY <2>4, <1>5, IdleParts
  <2>7. /\ ~x.busy /\ x.enabled = (e.loaded /\ connected) /\ x.loaded = e.loaded /\ x.dirty = e.dirty
        /\ x.fresh = e.fresh /\ x.text = e.text /\ x.id = e.id BY <2>4, <2>6, <1>5, IdleParts
  <2>8. Sound(x) /\ Clean(x, stored[f]) BY <2>1, <2>2, <2>4, <2>7 DEF Sound, Clean
  <2> QED BY <2>2, <2>4, <2>5, <2>6, <2>7, <2>8
<1>8. \A f \in Files \ Answered : docs'[f] = docs[f] BY <1>6
<1>9. docs' \in [Files -> Doc \cup {NoDoc}] BY <1>6, <1>5, <1>7, <1>8
<1>10. Head(reports).call.op \in {"read", "write"} BY <1>2, <1>3
<1> QED BY <1>1, <1>3, <1>4, <1>7, <1>8, <1>9, <1>10, StepAnswered

\* WriteDone: what was saved is on the server; a question about a document
\* that goes learns of it.
LEMMA StepWriteDone ==
    ASSUME IInv, WriteDone
    PROVE  IInv'
<1>1. Typed /\ Queued /\ Edited BY Whole
<1>2. PICK r \in Reports : r = Head(reports) BY <1>1, FirstAndRest DEF Queued, Signals, WriteDone, NextReport
<1>3. /\ reports # <<>> /\ r.call.op = "write" /\ r.call.ok /\ reports' = Tail(reports)
      /\ UNCHANGED <<session, worker, calls, server, autoSave, last, acts>> BY <1>2 DEF WriteDone, NextReport
<1>4. docs \in [Files -> Doc \cup {NoDoc}] /\ connected \in BOOLEAN BY <1>1 DEF Typed, Panes, Ends
<1>5. Head(reports).call.op \in {"read", "write"} BY <1>2, <1>3
<1>6. \A f, g \in Answered : f = g BY DEF Answered
<1>7. CASE Answered = {} /\ UNCHANGED <<tabs, docs, question, crashed>>
  BY <1>1, <1>3, <1>7, <1>4, <1>5, StepAnswered DEF Typed, Rests
<1>8. ASSUME NEW f \in Answered, ~docs[f].closing,
             docs' = [docs EXCEPT ![f] = Idle([@ EXCEPT !.dirty = FALSE])], UNCHANGED <<tabs, question, crashed>>
      PROVE  IInv'
  <2>1. /\ f \in Files /\ docs[f] \in Doc /\ docs[f].busy /\ Sound(docs[f]) /\ Clean(docs[f], stored[f])
        /\ docs[f].text \in stored[f] BY <1>1, <1>2, <1>3, AnswerFits
  <2>2. PICK d \in Doc : d = docs[f] BY <2>1
  <2>3. PICK e : e = [d EXCEPT !.dirty = FALSE] OBVIOUS
  <2>4. /\ e \in Doc /\ e.id = d.id /\ e.fresh = d.fresh /\ ~e.dirty /\ e.loaded = d.loaded /\ e.text = d.text
    BY <2>3 DEF Doc
  <2>5. docs' = [docs EXCEPT ![f] = Idle(e)] BY <1>8, <2>2, <2>3
  <2>6. PICK x \in Doc : x = Idle(e) BY <2>4, <1>4, IdleParts
  <2>7. /\ ~x.busy /\ x.enabled = (e.loaded /\ connected) /\ x.loaded = e.loaded /\ x.dirty = e.dirty
        /\ x.fresh = e.fresh /\ x.text = e.text /\ x.id = e.id BY <2>4, <2>6, <1>4, IdleParts
  <2>8. Sound(x) /\ Clean(x, stored[f]) BY <2>1, <2>2, <2>4, <2>7 DEF Sound, Clean
  <2>9. /\ docs' \in [Files -> Doc \cup {NoDoc}] /\ docs'[f] = x
        /\ \A g \in Files : g # f => docs'[g] = docs[g] BY <2>1, <2>5, <2>6, <1>4
  <2>10. \A g \in Files \ Answered : docs'[g] = docs[g] BY <1>8, <2>9
  <2>11. \A g \in Answered : /\ docs'[g] \in Doc /\ docs'[g].id = docs[g].id
                             /\ Sound(docs'[g]) /\ Clean(docs'[g], stored[g])
    BY <1>6, <1>8, <2>2, <2>4, <2>6, <2>7, <2>8, <2>9
  <2>12. Rests' BY <1>1, <1>3, <1>8 DEF Typed, Rests
  <2> QED BY <1>1, <1>3, <1>5, <1>8, <2>9, <2>10, <2>11, <2>12, StepAnswered
<1>9. ASSUME NEW f \in Answered, Removed(CHOOSE i \in DOMAIN tabs : tabs[i] = f),
             question' = IF question # NoQuestion /\ question.file = f
                         THEN [question EXCEPT !.gone = TRUE] ELSE question,
             crashed' \in {FALSE, question # NoQuestion /\ tabs' = <<>>}
      PROVE  IInv'
  <2>1. f \in Open /\ Tabs(tabs, Open) BY <1>1 DEF Answered, Typed, Panes
  <2>2. PICK i \in DOMAIN tabs : tabs[i] = f /\ Removed(i) BY <2>1, <1>9 DEF Tabs, Range
  <2>3. /\ docs' \in [Files -> Doc \cup {NoDoc}] /\ Tabs(tabs', Open') /\ docs'[f] = NoDoc /\ Open' = Open \ {f}
        /\ \A g \in Files : g # f => docs'[g] = docs[g] BY <1>1, <2>2, OneLess
  <2>4. question \in Questions \cup {NoQuestion} BY <1>1 DEF Typed, Panes
  <2>5. question' \in Questions \cup {NoQuestion} /\ Known'
    <3>1. CASE question # NoQuestion /\ question.file = f BY <3>1, <2>4, <1>9 DEF Questions, Known
    <3>2. CASE ~(question # NoQuestion /\ question.file = f) BY <3>2, <1>9, <2>3, <2>4, <1>1 DEF Edited, Known
    <3> QED BY <3>1, <3>2
  <2>6. Panes' BY <2>3, <2>5 DEF Panes
  <2>7. UNCHANGED <<connected, target, gen>> /\ UNCHANGED <<link, deferred, disk, stored>>
    BY <1>3 DEF session, worker, server
  <2>8. Queued' /\ Ends' /\ Lessens BY <1>1, <1>3, <1>4, <2>7, QueuedReport
  <2>9. crashed' \in BOOLEAN BY <1>9
  <2>10. Rests' BY <1>1, <1>3, <2>9 DEF Typed, Rests
  <2>11. Typed' BY <1>1, <2>6, <2>7, <2>8, <2>10 DEF Typed, Disks
  <2>12. ASSUME NEW g \in Files PROVE Kept(g)' BY <2>3, <1>1, <2>7, <2>8, KeptSame DEF Kept, Edited, Queued
  <2> QED BY <2>5, <2>8, <2>11, <2>12, WholeNext DEF Edited
<1> QED BY <1>7, <1>8, <1>9 DEF WriteDone

\* The worker.

\* Perform: what is written is the text of the document that waits for it.
LEMMA StepPerform ==
    ASSUME IInv, NEW c \in Requests, Perform(c)
    PROVE  IInv'
<1>1. Typed /\ Queued /\ Edited BY Whole
<1>2. Signals /\ calls \in Seq(Calls) /\ deferred \in SUBSET Asks /\ reports \in Seq(Reports) /\ gen \in Gens
  BY <1>1 DEF Queued, Signals, Typed, Ends
<1>3. Taken(c) /\ UNCHANGED <<session, link, editor, acts, autoSave, crashed, last>> BY DEF Perform, Quiet
<1>4. c \in Asks
  <2>1. CASE calls # <<>> /\ c = Head(calls) /\ ~Connecting(c) /\ ~Closing(c)
    BY <2>1, <1>2, FirstAndRest, CallParts DEF Connecting, Closing
  <2>2. CASE c \in deferred BY <2>2, <1>2
  <2> QED BY <2>1, <2>2, <1>3 DEF Taken
<1>5. /\ c \in Calls /\ c.gen \in Gens /\ c.host \in Hosts /\ c.call.file \in Files /\ c.call.id \in Ids
      /\ c.call.op \in {"read", "write"} /\ (c.call.op = "write" => c.call.text \in Texts)
  BY <1>4, CallParts DEF Calls
<1>6. UNCHANGED <<connected, target, gen, link, tabs, docs, question>> BY <1>3 DEF session, editor
<1>7. /\ calls' = calls \/ (calls # <<>> /\ Head(calls) \in Asks /\ calls' = Tail(calls))
      /\ \A e \in deferred' : e \in deferred BY <1>3, <1>4 DEF Taken
<1>8. calls' \in Seq(Calls) /\ deferred' \in SUBSET Asks BY <1>2, <1>7, FirstAndRest
<1>9. Served' BY <1>1, <1>6, <1>7, <1>2, ServedLess DEF Queued, Typed
<1>10. ASSUME NEW f \in Files, docs[f] # NoDoc PROVE c \notin WrongCall(f, docs[f])
  <2>1. Fits(f, docs[f], stored[f]) BY <1>1, <1>10 DEF Edited, Kept
  <2>2. PICK W : W = WrongCall(f, docs[f]) OBVIOUS
  <2>3. NoneOf(calls, W) /\ \A e \in deferred : e \notin W BY <2>1, <2>2 DEF Fits
  <2>4. calls # <<>> => Head(calls) \notin W BY <2>3, <1>2, TakeNone
  <2> QED BY <2>2, <2>3, <2>4, <1>3 DEF Taken
<1>11. ASSUME NEW r \in Answers, r.call.op = c.call.op, r.call.file = c.call.file, r.call.id = c.call.id,
              reports' = Append(reports, r),
              r.call.op = "read" /\ r.call.ok => r.call.text \in stored'[c.call.file],
              r.call.op = "write" /\ r.call.ok => c.call.text \in stored'[c.call.file],
              Disks', \A f \in Files : stored[f] \subseteq stored'[f],
              \A f \in Files, h \in Hosts : disk'[h][f] \in stored'[f]
       PROVE  IInv'
  <2>1. r \in Reports /\ reports' \in Seq(Reports) BY <1>2, <1>11, AddNone DEF Reports
  <2>2. Signals' BY <1>8, <2>1 DEF Signals
  <2>3. \A i \in Ids : Alone(i)' BY <1>1, <1>2, <1>3, <1>4, <1>11, AloneAnswer DEF Queued
  <2>4. ASSUME NEW f \in Files PROVE Stocked(f)' BY <1>11, <2>1, <1>1, <1>2, StockedStep DEF Unknown, Queued
  <2>5. Queued' BY <2>2, <2>3, <2>4, <1>9 DEF Queued
  <2>6. Typed' BY <1>1, <1>6, <1>3, <1>11 DEF Typed, Ends, Panes, Open, Rests
  <2>7. Known' BY <1>1, <1>6 DEF Edited, Known, Open
  <2>8. ASSUME NEW f \in Files PROVE Kept(f)'
    <3>1. CASE docs[f] = NoDoc BY <3>1, <1>6 DEF Kept
    <3>2. CASE docs[f] # NoDoc
      <4>1. PICK d : d = docs[f] OBVIOUS
      <4>2. PICK s : s = stored[f] OBVIOUS
      <4>3. PICK t : t = stored'[f] OBVIOUS
      <4>4. Sound(d) /\ Clean(d, s) /\ Fits(f, d, s) BY <3>2, <4>1, <4>2, <1>1 DEF Edited, Kept
      <4>5. s \subseteq t BY <4>2, <4>3, <1>11
      <4>6. Fits(f, d, t) BY <4>4, <4>5, FitsLike
      <4>7. r \notin WrongAnswer(f, d, t)
        <5>1. SUFFICES ASSUME r.call.file = f, r.call.id = d.id
              PROVE  Awaits(d, r.call.op) /\ (r.call.op = "write" /\ r.call.ok => d.text \in t)
          BY DEF WrongAnswer
        <5>2. c.call.file = f /\ c.call.id = d.id BY <5>1, <1>11
        <5>3. c \notin WrongCall(f, d) BY <3>2, <4>1, <1>10
        <5>4. Awaits(d, c.call.op) /\ (c.call.op = "write" => c.call.text = d.text)
          BY <5>2, <5>3, <1>4 DEF WrongCall
        <5> QED BY <5>2, <5>4, <4>3, <1>11
      <4>8. Fits(f, d, t)' BY <4>6, <4>7, <2>1, <1>2, <1>7, <1>11, FitsStep
      <4>9. docs'[f] = d /\ stored'[f] = t BY <4>1, <4>3, <1>6
      <4>10. Clean(d, t) BY <4>4, <4>5 DEF Clean
      <4> QED BY <4>4, <4>8, <4>9, <4>10 DEF Kept, Sound, Clean, Fits
    <3> QED BY <3>1, <3>2
  <2> QED BY <2>5, <2>6, <2>7, <2>8, WholeNext DEF Edited
<1>12. \A f \in Files, h \in Hosts : disk[h][f] \in stored[f] BY <1>1 DEF Queued, Stocked
<1>13. Disks BY <1>1 DEF Typed
<1>14. CASE link # NoLink /\ c.call.op = "read" /\ UNCHANGED server /\
            reports' = Append(reports,
                [call |-> [op |-> "read", file |-> c.call.file, id |-> c.call.id, ok |-> TRUE,
                           text |-> disk[link.host][c.call.file]], gen |-> c.gen])
  <2>1. PICK f \in Files : f = c.call.file BY <1>5
  <2>2. link.host \in Hosts BY <1>1, <1>14 DEF Typed, Ends, Links
  <2>3. PICK x \in Texts : x = disk[link.host][f] BY <2>2, <1>13 DEF Disks
  <2>4. PICK r : r = [call |-> [op |-> "read", file |-> f, id |-> c.call.id, ok |-> TRUE, text |-> x], gen |-> c.gen]
    OBVIOUS
  <2>5. r \in Answers BY <2>4, <1>5 DEF Answers, Texted
  <2>6. r.call.op = "read" /\ r.call.file = f /\ r.call.id = c.call.id /\ r.call.text = x BY <2>4
  <2>7. UNCHANGED <<disk, stored>> /\ Disks' BY <1>13, <1>14 DEF Disks, server
  <2>8. x \in stored[f] BY <2>2, <2>3, <1>12
  <2>9. reports' = Append(reports, r) BY <1>14, <2>1, <2>3, <2>4
  <2> QED BY <1>11, <1>12, <1>14, <2>1, <2>5, <2>6, <2>7, <2>8, <2>9
<1>15. ASSUME link # NoLink, c.call.op = "write", NEW ok \in BOOLEAN,
              disk' = [disk EXCEPT ![link.host][c.call.file] = c.call.text],
              stored' = [stored EXCEPT ![c.call.file] = @ \cup {c.call.text}],
              reports' = Append(reports,
                [call |-> [op |-> "write", file |-> c.call.file, id |-> c.call.id, ok |-> ok], gen |-> c.gen])
       PROVE  IInv'
  <2>1. PICK f \in Files : f = c.call.file BY <1>5
  <2>2. PICK h \in Hosts : h = link.host BY <1>1, <1>15 DEF Typed, Ends, Links
  <2>3. PICK x \in Texts : x = c.call.text BY <1>5, <1>15
  <2>4. PICK r : r = [call |-> [op |-> "write", file |-> f, id |-> c.call.id, ok |-> ok], gen |-> c.gen] OBVIOUS
  <2>5. r \in Answers BY <2>4, <1>5 DEF Answers, Written
  <2>6. r.call.op = "write" /\ r.call.file = f /\ r.call.id = c.call.id BY <2>4
  <2>7. reports' = Append(reports, r) BY <1>15, <2>1, <2>4
  <2>8. disk' = [disk EXCEPT ![h] = [disk[h] EXCEPT ![f] = x]] BY <1>15, <2>1, <2>2, <2>3
  <2>9. stored' = [stored EXCEPT ![f] = stored[f] \cup {x}] BY <1>15, <2>1, <2>3
  <2>10. disk \in [Hosts -> [Files -> Texts]] /\ stored \in [Files -> SUBSET Texts] BY <1>13 DEF Disks
  <2>11. disk[h] \in [Files -> Texts] BY <2>10
  <2>12. [disk[h] EXCEPT ![f] = x] \in [Files -> Texts] BY <2>11
  <2>13. disk' \in [Hosts -> [Files -> Texts]] BY <2>8, <2>10, <2>12
  <2>14. stored[f] \cup {x} \in SUBSET Texts BY <2>10
  <2>15. stored' \in [Files -> SUBSET Texts] BY <2>9, <2>10, <2>14
  <2>16. (\A g \in Files : stored[g] \subseteq stored'[g]) /\ x \in stored'[f] BY <2>9, <2>10
  <2>17. ASSUME NEW g \in Files, NEW k \in Hosts PROVE disk'[k][g] \in stored'[g]
    <3>1. CASE k = h /\ g = f BY <3>1, <2>8, <2>10, <2>11, <2>16
    <3>2. CASE ~(k = h /\ g = f) BY <3>2, <2>8, <2>10, <2>11, <2>16, <1>12
    <3> QED BY <3>1, <3>2
  <2>18. Disks' BY <2>13, <2>15 DEF Disks
  <2> QED BY <1>11, <1>15, <2>1, <2>3, <2>5, <2>6, <2>7, <2>16, <2>17, <2>18
<1>16. CASE UNCHANGED server /\
            reports' = Append(reports,
                [call |-> [op |-> c.call.op, file |-> c.call.file, id |-> c.call.id, ok |-> FALSE, text |-> 0],
                 gen |-> c.gen])
  <2>1. PICK r : r = [call |-> [op |-> c.call.op, file |-> c.call.file, id |-> c.call.id, ok |-> FALSE, text |-> 0],
                      gen |-> c.gen] OBVIOUS
  <2>2. 0 \in Texts BY ActAssumption DEF Texts
  <2>3. r \in Answers BY <2>1, <2>2, <1>5 DEF Answers, Texted
  <2>4. r.call.op = c.call.op /\ r.call.file = c.call.file /\ r.call.id = c.call.id /\ ~r.call.ok BY <2>1
  <2>5. reports' = Append(reports, r) BY <1>16, <2>1
  <2>6. UNCHANGED <<disk, stored>> /\ Disks' BY <1>13, <1>16 DEF Disks, server
  <2> QED BY <1>11, <1>12, <2>3, <2>4, <2>5, <2>6
<1> QED BY <1>14, <1>15, <1>16 DEF Perform

\* The queues and documents in a step that leaves the reports alone or adds
\* news of the connection.
LEMMA StepQueues ==
    ASSUME IInv, UNCHANGED <<session, server, editor, acts>>, Quiet, Signals', Ends', Served', Lessens,
           \A i \in Ids : Alone(i)', reports' = reports \/ \E r \in News : reports' = Append(reports, r)
    PROVE  IInv'
<1>1. Typed /\ Queued /\ Edited BY Whole
<1>2. UNCHANGED <<disk, stored, tabs, docs, question, acts, autoSave, crashed, last>> BY DEF server, editor, Quiet
<1>3. ASSUME NEW f \in Files PROVE Stocked(f)'
  <2>1. Stocked(f) /\ Signals BY <1>1 DEF Queued
  <2>2. stored[f] \subseteq stored'[f] /\ \A h \in Hosts : disk'[h][f] \in stored'[f] BY <2>1, <1>2 DEF Stocked
  <2>3. \A r \in News : r \in Reports /\ r \notin Unknown(f, stored'[f]) BY ReportParts DEF Reports, Unknown
  <2> QED BY <2>1, <2>2, <2>3, StockedStep
<1>4. Queued' BY <1>3 DEF Queued
<1>5. Typed' BY <1>1, <1>2 DEF Typed, Disks, Panes, Rests, Open
<1>6. Known' BY <1>1, <1>2 DEF Edited, Known, Open
<1>7. \A f \in Files : Kept(f)' BY <1>1, <1>2, KeptSame DEF Edited, Queued
<1> QED BY <1>4, <1>5, <1>6, <1>7, WholeNext DEF Edited

\* The worker opens or ends a connection, loses it, puts a call off or forgets one.
LEMMA StepTransport ==
    ASSUME IInv, Transport
    PROVE  IInv'
<1>1. Typed /\ Queued /\ Edited BY Whole
<1>2. /\ Signals /\ Ends /\ Served /\ calls \in Seq(Calls) /\ deferred \in SUBSET Asks /\ reports \in Seq(Reports)
      /\ gen \in Gens BY <1>1 DEF Queued, Signals, Typed, Ends
<1>3. UNCHANGED <<session, server, editor, acts>> /\ Quiet BY DEF Transport
<1>4. UNCHANGED <<connected, target, gen>> BY <1>3 DEF session
<1>5. ASSUME NEW h \in Calls, h = Head(calls), calls # <<>>, calls' = Tail(calls), UNCHANGED deferred, h \in Openings,
             link' = NoLink \/ (h.gen = gen /\ link' = [host |-> h.host, gen |-> gen]),
             reports' = reports \/ \E r \in News : reports' = Append(reports, r)
      PROVE  IInv'
  <2>1. h.host \in Hosts BY CallParts
  <2>2. Ends' BY <1>2, <1>5, <2>1, <1>4 DEF Links, Ends
  <2>3. Served' BY <1>2, <1>4, <1>5, ServedOpen
  <2>4. \A r \in News : Append(reports, r) \in Seq(Reports) BY <1>2, AddNone DEF Reports
  <2>5. Signals' BY <2>4, <1>2, <1>5, FirstAndRest DEF Signals
  <2>6. Lessens BY <1>5 DEF Lessens
  <2>7. \A i \in Ids : Alone(i)' BY <1>1, <1>2, <1>5, AloneLess DEF Queued
  <2> QED BY <2>2, <2>3, <2>5, <2>6, <2>7, <1>3, <1>5, StepQueues
<1>6. CASE ServeConnect
  <2>1. PICK h \in Calls : h = Head(calls) /\ calls # <<>> BY <1>2, <1>6, FirstAndRest DEF ServeConnect
  <2>2. h \in Openings BY <2>1, <1>6, CallParts DEF ServeConnect, Connecting
  <2>3. PICK r : r = IF link' = NoLink THEN [call |-> [op |-> "down"], gen |-> h.gen]
                     ELSE [call |-> [op |-> "up"], gen |-> h.gen] OBVIOUS
  <2>4. \A op \in {"up", "down"} : [call |-> [op |-> op], gen |-> h.gen] \in News BY CallParts DEF News
  <2>5. /\ calls' = Tail(calls) /\ UNCHANGED deferred
        /\ link' = NoLink \/ (h.gen = gen /\ link' = [host |-> h.host, gen |-> gen])
        /\ \E op \in {"up", "down"} : reports' = Append(reports, [call |-> [op |-> op], gen |-> h.gen])
    BY <2>1, <1>6 DEF ServeConnect
  <2> QED BY <2>1, <2>2, <2>4, <2>5, <1>5
<1>7. CASE ServeDisconnect
  <2>1. PICK h \in Calls : h = Head(calls) /\ calls # <<>> BY <1>2, <1>7, FirstAndRest DEF ServeDisconnect
  <2>2. h \in Openings BY <2>1, <1>7, CallParts DEF ServeDisconnect, Closing
  <2>3. calls' = Tail(calls) /\ UNCHANGED <<deferred, reports>> /\ link' = NoLink BY <1>7 DEF ServeDisconnect
  <2> QED BY <2>1, <2>2, <2>3, <1>5
<1>8. CASE LoseLink
  <2>1. /\ link # NoLink /\ link' = NoLink /\ UNCHANGED <<calls, deferred>>
        /\ reports' = Append(reports, [call |-> [op |-> "down"], gen |-> link.gen]) BY <1>8 DEF LoseLink
  <2>2. PICK r \in News : reports' = Append(reports, r) BY <1>2, <2>1 DEF Ends, Links, News
  <2>3. Signals'
    <3>1. reports' \in Seq(Reports) BY <2>2, <1>2, AddNone DEF Reports
    <3> QED BY <3>1, <2>1, <1>2 DEF Signals
  <2>4. Ends' BY <2>1, <1>2, <1>4 DEF Ends
  <2>5. Served' BY <2>1, <1>2, <1>4, ServedLess
  <2>6. Lessens BY <2>1, <2>2 DEF Lessens
  <2>7. \A i \in Ids : Alone(i)' BY <2>1, <2>2, <1>1, <1>2, AloneLess DEF Queued
  <2> QED BY <2>2, <2>3, <2>4, <2>5, <2>6, <2>7, <1>3, StepQueues
<1>9. CASE Defer
  <2>1. PICK h \in Calls : h = Head(calls) /\ calls # <<>> BY <1>2, <1>9, FirstAndRest DEF Defer
  <2>2. h \in Asks BY <2>1, <1>9, CallParts DEF Defer, Connecting, Closing
  <2>3. calls' = Tail(calls) /\ UNCHANGED <<link, reports>> /\ deferred' = deferred \cup {h} BY <2>1, <1>9 DEF Defer
  <2>4. Signals' BY <2>1, <2>2, <2>3, <1>2, FirstAndRest DEF Signals
  <2>5. Ends' BY <2>3, <1>2, <1>4 DEF Ends
  <2>6. Served' BY <2>1, <2>2, <2>3, <1>2, <1>4, ServedLess
  <2>7. Lessens BY <2>1, <2>3 DEF Lessens
  <2>8. \A i \in Ids : Alone(i)' BY <2>1, <2>2, <2>3, <1>1, <1>2, AloneDefer DEF Queued
  <2> QED BY <2>3, <2>4, <2>5, <2>6, <2>7, <2>8, <1>3, StepQueues
<1>10. CASE Vanish
  <2>1. deferred' \subseteq deferred /\ UNCHANGED <<link, calls, reports>> BY <1>10 DEF Vanish
  <2>2. Signals' BY <2>1, <1>2 DEF Signals
  <2>3. Ends' BY <2>1, <1>2, <1>4 DEF Ends
  <2>4. Served' BY <2>1, <1>2, <1>4, ServedLess
  <2>5. Lessens BY <2>1 DEF Lessens
  <2>6. \A i \in Ids : Alone(i)' BY <2>1, <1>1, <1>2, AloneLess DEF Queued
  <2> QED BY <2>1, <2>2, <2>3, <2>4, <2>5, <2>6, <1>3, StepQueues
<1> QED BY <1>6, <1>7, <1>8, <1>9, <1>10 DEF Transport

\* The theorems.

\* The editor starts with all files open and read and nothing under way.
LEMMA StepInit ==
    ASSUME Init
    PROVE  IInv
<1>1. /\ connected = TRUE /\ target \in Hosts /\ gen = 0 /\ link = [host |-> target, gen |-> 0]
      /\ calls = <<>> /\ deferred = {} /\ reports = <<>> BY GenAssumption DEF Init, RequestsInit
<1>2. 0 \in Gens /\ 0 \in Texts /\ Gens \subseteq Nat BY GenAssumption, ActAssumption DEF Gens, Texts
<1>3. link \in Links /\ link # NoLink /\ link.gen = 0 /\ link.host = target BY <1>1, <1>2, LinkAssumption DEF Links
<1>4. Ends /\ Signals BY <1>1, <1>2, <1>3, EmptySeq DEF Ends, Signals
<1>5. \A S, T : NoneOf(calls, S) /\ NoneOf(reports, S) /\ Ordered(calls, S, T) /\ Ordered(reports, S, T)
  BY <1>1, NoEvents
<1>6. Served
  <2>1. InTurn BY <1>2, <1>1, <1>3, <1>5 DEF InTurn
  <2>2. \A g \in Gens : OneServer(g) BY <1>1, <1>3, <1>5 DEF OneServer
  <2> QED BY <2>1, <2>2 DEF Served
<1>7. \A i \in Ids : Alone(i) BY <1>1, <1>5 DEF Alone
<1>8. /\ disk = [h \in Hosts |-> [f \in Files |-> 0]] /\ stored = [f \in Files |-> {0}]
      /\ tabs \in SetToSeqs(Files) /\ question = NoQuestion /\ autoSave \in BOOLEAN /\ crashed = FALSE
      /\ last = 0 /\ acts = 0
      /\ docs = [f \in Files |-> [NewDoc EXCEPT !.loaded = TRUE, !.enabled = TRUE, !.fresh = FALSE]] BY DEF Init
<1>9. \A f \in Files : Stocked(f) BY <1>5, <1>8 DEF Stocked
<1>10. Queued BY <1>4, <1>6, <1>7, <1>9 DEF Queued
<1>11. PICK d : d = [NewDoc EXCEPT !.loaded = TRUE, !.enabled = TRUE, !.fresh = FALSE] OBVIOUS
<1>12. d \in Doc /\ d.loaded /\ ~d.busy /\ ~d.dirty /\ ~d.fresh /\ d.text = 0 /\ d.id = NoId
  BY <1>2, <1>11 DEF NewDoc, Doc, NoId
<1>13. d # NoDoc /\ docs = [f \in Files |-> d] BY <1>8, <1>11, <1>12, NoneAssumption
<1>14. Open = Files BY <1>13 DEF Open
<1>15. Typed
  <2>1. Disks BY <1>2, <1>8 DEF Disks
  <2>2. Panes BY <1>8, <1>12, <1>13, <1>14, TabsOfAll DEF Panes
  <2>3. 0 \in 0 .. MaxActs /\ 0 <= 0 BY ActAssumption
  <2>4. Rests BY <2>3, <1>2, <1>8 DEF Rests
  <2> QED BY <2>1, <2>2, <2>4, <1>4 DEF Typed
<1>16. ASSUME NEW f \in Files PROVE Kept(f) BY <1>8, <1>12, <1>4, <1>13, UnusedFits DEF Sound, Clean, Kept
<1>17. Known BY <1>8 DEF Known
<1> QED BY <1>10, <1>15, <1>16, <1>17, Whole DEF Edited

\* No step breaks the invariant.
LEMMA StepNext ==
    ASSUME IInv, [Next]_vars
    PROVE  IInv'
<1>1. CASE UNCHANGED vars
  <2>1. UNCHANGED <<requestVars, server, editor, rest>> BY <1>1 DEF vars
  <2>2. UNCHANGED <<session, server, editor, acts>> /\ Quiet BY <2>1 DEF requestVars, rest, Quiet
  <2>3. UNCHANGED <<connected, target, gen, link, deferred, calls, reports>> BY <2>1 DEF requestVars, session, worker
  <2>4. Typed /\ Queued BY Whole
  <2>5. Queued' BY <2>1, <2>4, QueuedStill
  <2>6. Ends' BY <2>3, <2>4 DEF Typed, Ends
  <2>7. Lessens BY <2>1, LessensStill
  <2> QED BY <2>2, <2>3, <2>5, <2>6, <2>7, StepQueues DEF Queued
<1>2. CASE Next
  BY <1>2, StepOpenFile, StepEdit, StepSaveFile, StepAutoSave, StepBeginLoad, StepMoveTab, StepCloseTab,
     StepCancel, StepDiscard, StepSaveAndClose, StepOpening, StepNews, StepReadDone, StepWriteFailed,
     StepWriteDone, StepPerform, StepTransport
     DEF Next
<1> QED BY <1>1, <1>2

\* The invariant holds in every reachable state.
THEOREM Invariance == Spec => []IInv
<1>1. Init => IInv BY StepInit
<1>2. IInv /\ [Next]_vars => IInv' BY StepNext
<1> QED BY <1>1, <1>2, PTL DEF Spec

\* No edit is lost.

\* The unsaved text of f stays or is replaced by an edit, if its document stays.
Survives(f) ==
    docs[f].dirty /\ docs'[f] # NoDoc /\ docs'[f].text # docs[f].text => last' = last + 1 /\ docs'[f].text = last'

\* The document of f goes when its text is stored, or with an answer.
Departs(f) ==
    docs[f].dirty /\ docs'[f] = NoDoc => docs[f].text \in stored[f] \/ AnsweredAbout(f) \/ Shifted

\* Saving a document leaves the text of all.
LEMMA SaveSurvives ==
    ASSUME Typed, NEW g \in Open, NEW d \in Doc, d.text = docs[g].text, Save(g, d), NEW f \in Open
    PROVE  Survives(f)
<1>1. docs \in [Files -> Doc \cup {NoDoc}] /\ f \in Files /\ g \in Files /\ gen \in Gens
  BY IsDoc DEF Typed, Panes, Ends
<1>2. \A id \in Ids : Busy(d, id).text = d.text BY <1>1, BusyParts
<1>3. docs' = [docs EXCEPT ![g] = d] \/ \E id \in Ids : docs' = [docs EXCEPT ![g] = Busy(d, id)] BY DEF Save
<1>4. PICK e : docs' = [docs EXCEPT ![g] = e] /\ e.text = d.text BY <1>2, <1>3
<1> QED BY <1>1, <1>4 DEF Survives

\* Every step of the editor.
LEMMA NextSurvives ==
    ASSUME IInv, Next, NEW f \in Open
    PROVE  Survives(f)
<1>1. Typed /\ Queued /\ Edited BY Whole
<1>2. /\ docs \in [Files -> Doc \cup {NoDoc}] /\ f \in Files /\ docs[f] \in Doc /\ gen \in Gens
      /\ connected \in BOOLEAN BY <1>1, IsDoc DEF Typed, Panes, Ends
<1>3. docs'[f] = docs[f] => Survives(f) BY DEF Survives
<1>4. ASSUME NEW g \in Files, OpenFile(g) PROVE Survives(f) BY <1>4, <1>2, <1>3 DEF OpenFile
<1>5. ASSUME NEW g \in Files, Edit(g) PROVE Survives(f)
  <2>1. CASE g # f BY <2>1, <1>2, <1>3, <1>5 DEF Edit
  <2>2. CASE g = f
    <3>1. PICK d \in Doc : d = docs[f] BY <1>2
    <3>2. last' = last + 1 BY <1>5 DEF Edit
    <3>3. PICK e : /\ docs' = [docs EXCEPT ![f] = e]
                   /\ \/ e = [d EXCEPT !.text = last', !.undo = TRUE]
                      \/ e = [d EXCEPT !.text = last', !.undo = TRUE, !.dirty = TRUE, !.timer = autoSave]
      BY <2>2, <3>1, <1>5 DEF Edit
    <3>4. e.text = last' BY <3>3 DEF Doc
    <3>5. docs'[f] = e BY <3>3, <1>2
    <3> QED BY <3>2, <3>4, <3>5 DEF Survives
  <2> QED BY <2>1, <2>2
<1>6. ASSUME NEW g \in Files, SaveFile(g) PROVE Survives(f) BY <1>6, <1>1, IsDoc, SaveSurvives DEF SaveFile
<1>7. ASSUME NEW g \in Files, AutoSave(g) PROVE Survives(f)
  <2>1. PICK d : d = [docs[g] EXCEPT !.timer = FALSE] OBVIOUS
  <2>2. g \in Open /\ Save(g, d) BY <2>1, <1>7 DEF AutoSave
  <2>3. docs[g] \in Doc BY <2>2, <1>1, IsDoc
  <2>4. d \in Doc /\ d.text = docs[g].text BY <2>1, <2>3 DEF Doc
  <2> QED BY <2>2, <2>4, <1>1, SaveSurvives
<1>8. ASSUME NEW g \in Files, BeginLoad(g) PROVE Survives(f)
  <2>1. PICK d : d = [docs[g] EXCEPT !.fresh = FALSE] OBVIOUS
  <2>2. g \in Open BY <1>8 DEF BeginLoad
  <2>3. docs[g] \in Doc BY <2>2, <1>1, IsDoc
  <2>4. d \in Doc /\ d.text = docs[g].text BY <2>1, <2>3 DEF Doc
  <2>5. Idle(d).text = d.text /\ \A id \in Ids : Busy(d, id).text = d.text BY <2>4, <1>2, IdleParts, BusyParts
  <2>6. PICK e : docs' = [docs EXCEPT ![g] = e] /\ e.text = d.text
    <3>1. CASE ~connected BY <3>1, <2>1, <1>8, <2>5 DEF BeginLoad
    <3>2. CASE connected
      <4>1. PICK id \in Ids : docs' = [docs EXCEPT ![g] = Busy(d, id)] BY <3>2, <2>1, <1>8 DEF BeginLoad
      <4>2. PICK e : e = Busy(d, id) OBVIOUS
      <4>3. e.text = d.text BY <4>2, <2>5
      <4>4. docs' = [docs EXCEPT ![g] = e] BY <4>1, <4>2
      <4> QED BY <4>3, <4>4
    <3> QED BY <3>1, <3>2
  <2> QED BY <2>4, <2>6, <1>2 DEF Survives
<1>9. ASSUME NEW i \in DOMAIN tabs, NEW j \in DOMAIN tabs, MoveTab(i, j) PROVE Survives(f)
  BY <1>3, <1>9 DEF MoveTab
<1>10. ASSUME NEW i, Removed(i) PROVE Survives(f)
  <2>1. CASE i \in DOMAIN tabs BY <2>1, <1>1, <1>2, <1>10, <1>3, OneLess DEF Survives
  <2>2. CASE i \notin DOMAIN tabs BY <2>2, <1>10, <1>3 DEF Removed
  <2> QED BY <2>1, <2>2
<1>11. ASSUME NEW i \in DOMAIN tabs, CloseTab(i) PROVE Survives(f) BY <1>11, <1>3, <1>10 DEF CloseTab
<1>12. CASE Cancel BY <1>3, <1>12 DEF Cancel
<1>13. CASE Discard BY <1>10, <1>13 DEF Discard
<1>14. CASE SaveAndClose
  <2>1. CASE question.gone BY <2>1, <1>14, <1>3 DEF SaveAndClose
  <2>2. CASE ~question.gone
    <3>1. question # NoQuestion BY <1>14 DEF SaveAndClose
    <3>11. PICK g \in Open : g = question.file BY <2>2, <3>1, <1>1 DEF Edited, Known
    <3>2. PICK d : d = [docs[g] EXCEPT !.closing = TRUE] OBVIOUS
    <3>3. Save(g, d) BY <2>2, <3>11, <3>2, <1>14 DEF SaveAndClose
    <3>4. docs[g] \in Doc BY <1>1, IsDoc
    <3>5. d \in Doc /\ d.text = docs[g].text BY <3>2, <3>4 DEF Doc
    <3> QED BY <3>3, <3>5, <1>1, SaveSurvives
  <2> QED BY <2>1, <2>2
<1>15. docs' = Disabled => Survives(f)
  <2>1. SUFFICES ASSUME docs' = Disabled PROVE docs'[f].text = docs[f].text BY DEF Survives
  <2>2. PICK d \in Doc : d = docs[f] BY <1>2
  <2>3. docs'[f] = [d EXCEPT !.enabled = FALSE] BY <2>1, <2>2, <1>2 DEF Disabled
  <2>4. PICK e : e = [d EXCEPT !.enabled = FALSE] OBVIOUS
  <2>5. e.text = d.text BY <2>4 DEF Doc
  <2> QED BY <2>2, <2>3, <2>4, <2>5
<1>16. CASE Disconnect \/ \E h \in Hosts : Reconnect(h) BY <1>15, <1>16 DEF Disconnect, Reconnect
<1>17. CASE GoesUp \/ GoesDown \/ Dropped BY <1>3, <1>15, <1>17 DEF GoesUp, GoesDown, Dropped, editor
<1>18. CASE ReadDone
  <2>1. CASE f \notin Answered BY <2>1, <1>2, <1>18, <1>3 DEF ReadDone
  <2>2. CASE f \in Answered BY <2>2, <1>1, <1>18, AnswerFits DEF ReadDone, NextReport, Sound, Survives
  <2> QED BY <2>1, <2>2
<1>19. CASE WriteFailed
  <2>1. PICK d \in Doc : d = docs[f] BY <1>2
  <2>2. PICK e : e = [d EXCEPT !.closing = FALSE] OBVIOUS
  <2>3. e \in Doc /\ e.text = d.text BY <2>2 DEF Doc
  <2>4. Idle(e).text = e.text BY <2>3, <1>2, IdleParts
  <2>5. docs'[f] = Idle(e) \/ docs'[f] = docs[f] BY <2>1, <2>2, <1>2, <1>19 DEF WriteFailed
  <2> QED BY <2>1, <2>3, <2>4, <2>5 DEF Survives
<1>20. CASE WriteDone
  <2>1. ASSUME NEW g \in Answered, docs' = [docs EXCEPT ![g] = Idle([@ EXCEPT !.dirty = FALSE])]
        PROVE  Survives(f)
    <3>1. g \in Open BY DEF Answered
    <3>2. PICK d \in Doc : d = docs[g] BY <3>1, <1>1, IsDoc
    <3>3. PICK e : e = [d EXCEPT !.dirty = FALSE] OBVIOUS
    <3>4. e \in Doc /\ e.text = d.text BY <3>3 DEF Doc
    <3>5. Idle(e).text = e.text BY <3>4, <1>2, IdleParts
    <3>6. docs' = [docs EXCEPT ![g] = Idle(e)] BY <2>1, <3>2, <3>3
    <3>7. docs'[f] = docs[f] \/ (g = f /\ docs'[f] = Idle(e)) BY <3>6, <1>2
    <3> QED BY <3>2, <3>4, <3>5, <3>7 DEF Survives
  <2>2. ASSUME docs' = docs PROVE Survives(f) BY <2>2, <1>3
  <2> QED BY <2>1, <2>2, <1>10, <1>20 DEF WriteDone
<1>21. ASSUME NEW c \in Requests, Perform(c) PROVE Survives(f) BY <1>3, <1>21 DEF Perform, editor
<1>22. CASE Transport BY <1>3, <1>22 DEF Transport, editor
<1> QED BY <1>4, <1>5, <1>6, <1>7, <1>8, <1>9, <1>11, <1>12, <1>13, <1>14, <1>16, <1>17, <1>18, <1>19, <1>20,
     <1>21, <1>22
     DEF Next

\* Every step of the editor.
LEMMA NextDeparts ==
    ASSUME IInv, Next, NEW f \in Open
    PROVE  Departs(f)
<1>1. Typed /\ Queued /\ Edited BY Whole
<1>2. f \in Files /\ docs[f] \in Doc /\ docs[f] # NoDoc BY <1>1, IsDoc
<1>3. tabs' = tabs => Departs(f)
  <2>1. TypeOK /\ TypeOK' BY StepNext DEF IInv
  <2>2. tabs' = tabs => Open' = Open BY <2>1 DEF TypeOK
  <2>3. f \in Open' => docs'[f] # NoDoc BY DEF Open
  <2> QED BY <2>2, <2>3 DEF Departs
<1>4. ASSUME NEW g \in Files, OpenFile(g) PROVE Departs(f)
  <2>1. g # f /\ docs'[f] = docs[f] BY <1>1, <1>2, <1>4 DEF OpenFile, Typed, Panes
  <2> QED BY <2>1, <1>2 DEF Departs
<1>5. ASSUME NEW g \in Files, Edit(g) \/ SaveFile(g) \/ AutoSave(g) \/ BeginLoad(g) PROVE tabs' = tabs
  BY <1>5 DEF Edit, SaveFile, AutoSave, BeginLoad
<1>6. ASSUME NEW i \in DOMAIN tabs, NEW j \in DOMAIN tabs, MoveTab(i, j) PROVE Departs(f)
  BY <1>2, <1>6 DEF MoveTab, Departs
\* Of a tab that goes only its own document goes.
<1>7. ASSUME NEW i, Removed(i), tabs[i] # f \/ i \notin DOMAIN tabs PROVE Departs(f)
  <2>1. CASE i \in DOMAIN tabs
    <3>1. docs'[f] = docs[f] BY <2>1, <1>1, <1>2, <1>7, OneLess
    <3> QED BY <3>1, <1>2 DEF Departs
  <2>2. CASE i \notin DOMAIN tabs BY <2>2, <1>7, <1>3 DEF Removed
  <2> QED BY <2>1, <2>2
<1>8. ASSUME NEW i \in DOMAIN tabs, CloseTab(i) PROVE Departs(f)
  <2>1. CASE docs[tabs[i]].dirty BY <2>1, <1>3, <1>8 DEF CloseTab
  <2>2. CASE ~docs[tabs[i]].dirty /\ tabs[i] = f BY <2>2 DEF Departs
  <2>3. CASE ~docs[tabs[i]].dirty /\ tabs[i] # f BY <2>3, <1>7, <1>8 DEF CloseTab
  <2> QED BY <2>1, <2>2, <2>3
<1>9. CASE Cancel \/ SaveAndClose BY <1>3, <1>9 DEF Cancel, SaveAndClose
<1>10. CASE Discard
  <2>1. question # NoQuestion /\ question' = NoQuestion /\ Removed(question.index) BY <1>10 DEF Discard
  <2>2. CASE question.file = f BY <2>1, <2>2 DEF Departs, AnsweredAbout
  <2>3. CASE Shifted BY <2>3 DEF Departs
  <2>4. CASE question.file # f /\ ~Shifted
    <3>1. tabs[question.index] # f \/ question.index \notin DOMAIN tabs BY <2>1, <2>4 DEF Shifted
    <3> QED BY <3>1, <2>1, <1>7
  <2> QED BY <2>2, <2>3, <2>4
<1>11. ASSUME NEW h \in Hosts, Reconnect(h) PROVE tabs' = tabs BY <1>11 DEF Reconnect
<1>12. CASE Disconnect \/ GoesUp \/ GoesDown \/ Dropped \/ ReadDone \/ WriteFailed
  BY <1>3, <1>12 DEF Disconnect, GoesUp, GoesDown, Dropped, ReadDone, WriteFailed, editor
<1>13. CASE WriteDone
  <2>1. CASE tabs' = tabs BY <2>1, <1>3
  <2>2. CASE tabs' # tabs
    <3>1. PICK g \in Answered : Removed(CHOOSE i \in DOMAIN tabs : tabs[i] = g) BY <2>2, <1>13 DEF WriteDone
    <3>2. CASE g = f
      <4>1. docs[f].text \in stored[f] BY <3>2, <1>1, <1>13, AnswerFits DEF WriteDone, NextReport
      <4> QED BY <4>1 DEF Departs
    <3>3. CASE g # f
      <4>1. \E i \in DOMAIN tabs : tabs[i] = g
        <5>1. g \in Range(tabs) BY DEF IInv, TypeOK, Answered
        <5> QED BY <5>1 DEF Range
      <4>2. PICK k \in DOMAIN tabs : k = (CHOOSE i \in DOMAIN tabs : tabs[i] = g) /\ tabs[k] = g BY <4>1
      <4> QED BY <4>2, <3>1, <3>3, <1>7
    <3> QED BY <3>2, <3>3
  <2> QED BY <2>1, <2>2
<1>14. ASSUME NEW c \in Requests, Perform(c) PROVE tabs' = tabs BY <1>14 DEF Perform, editor
<1>15. CASE Transport BY <1>3, <1>15 DEF Transport, editor
<1> QED BY <1>3, <1>4, <1>5, <1>6, <1>8, <1>9, <1>10, <1>11, <1>12, <1>13, <1>14, <1>15 DEF Next

\* Unsaved edits are lost only by the user's hand or to a question that has
\* Shifted, whatever reports, autosaves, reconnections and closed tabs come in
\* between (RemoteFileEditor).
THEOREM EditsAreKept == Spec => EditsSurvive
<1>1. IInv => TypeOK /\ CleanWasStored
  <2>1. SUFFICES ASSUME IInv PROVE TypeOK /\ CleanWasStored OBVIOUS
  <2>2. \A f \in Open : f \in Files /\ docs[f] # NoDoc BY DEF Open
  <2> QED BY <2>1, <2>2 DEF IInv, CleanWasStored, Kept, Clean
<1>2. IInv /\ [Next]_vars
      => [\A f \in Open : docs[f].dirty /\ docs'[f] # NoDoc /\ docs'[f].text # docs[f].text
            => last' = last + 1 /\ docs'[f].text = last']_vars BY NextSurvives DEF Survives
<1>3. IInv /\ [Next]_vars
      => [\A f \in Open : docs[f].dirty /\ docs'[f] = NoDoc
            => docs[f].text \in stored[f] \/ AnsweredAbout(f) \/ Shifted]_vars BY NextDeparts DEF Departs
<1> QED BY <1>1, <1>2, <1>3, Invariance, PTL DEF Spec, EditsSurvive

\* A step that changes a file on a server runs a write that was meant for that
\* server, also when it was put off and the pane has reconnected since
\* (Libssh2Worker, deferDuringSizeChannelSetup).
THEOREM WritesStayOnServer == Spec => StaysOnItsServer
<1>1. ASSUME IInv, Next, NEW h \in Hosts, disk'[h] # disk[h]
      PROVE  \E c \in Requests : c.call.op = "write" /\ c.host = h
  <2>1. Signals /\ Ends /\ Served /\ Disks BY <1>1 DEF IInv, TypeOK, Ends, Disks
  <2>2. ~UNCHANGED server BY <1>1 DEF server
  <2>3. PICK c \in Requests : Perform(c) BY <2>2, <1>1
       DEF Next, OpenFile, Edit, SaveFile, AutoSave, BeginLoad, MoveTab, CloseTab, Cancel, Discard, SaveAndClose,
           Reconnect, Disconnect, GoesUp, GoesDown, Dropped, ReadDone, WriteFailed, WriteDone, Transport
  <2>4. /\ link # NoLink /\ c.call.op = "write" /\ Taken(c)
        /\ disk' = [disk EXCEPT ![link.host][c.call.file] = c.call.text] BY <2>2, <2>3 DEF Perform
  <2>5. link.host = h BY <2>1, <2>4, <1>1 DEF Disks
  <2>6. (calls # <<>> /\ c = Head(calls)) \/ (c \in deferred /\ Alive(c)) BY <2>4 DEF Taken
  <2>7. c \in Asks
    <3>1. CASE calls # <<>> /\ c = Head(calls) BY <3>1, <2>1, <2>4, FirstAndRest, CallParts DEF Signals
    <3>2. CASE c \in deferred BY <3>2, <2>1 DEF Signals
    <3> QED BY <3>1, <3>2, <2>6
  <2>8. c.host = link.host BY <2>1, <2>4, <2>6, <2>7, RightServer
  <2> QED BY <2>4, <2>5, <2>8
<1>2. IInv /\ [Next]_vars
      => [\A h \in Hosts : disk'[h] # disk[h] => \E c \in Requests : c.call.op = "write" /\ c.host = h]_vars
  BY <1>1
<1> QED BY <1>2, Invariance, PTL DEF Spec, StaysOnItsServer

\* The file panel.
\*
\* An operator of the panel is shown to keep the shape of the panel (...Proper)
\* and the promises about what it shows (...Good); a handler, which ends in
\* Commit, then keeps the invariant.

\* What the panel asks for and what it is told.
Listings == [op : {"list"}, dir : Dirs]
Homes == [op : {"home"}]
Makings == [op : {"write", "mkdir"}, entry : Entries, fresh : BOOLEAN]
Renamings == [op : {"rename"}, entry : Entries, to : Entries]
Others == [op : {"remove", "chmod", "upload"}, entry : Entries]
Wishes == Listings \cup Homes \cup Makings \cup Renamings \cup Others
Results == [op : {"list"}, ok : BOOLEAN, dir : Dirs, listed : SUBSET Names]
           \cup [op : {"home"}, ok : BOOLEAN] \cup [op : Ops, ok : BOOLEAN, entry : Entries]
Turns == [op : {"connect", "disconnect"}]
Changes == [op : {"up", "down"}]
PanelCalls == [call : Turns \cup Wishes, gen : Gens, host : Hosts]
PanelReports == [call : Changes \cup Results, gen : Gens]

Wanted == {c \in PanelCalls : c.call \in Wishes}

\* The states of the panel, and the questions.
Panels == [current : Dirs, pending : Dirs \cup {NoDir}, rows : SUBSET Entries, error : BOOLEAN,
           resolved : BOOLEAN, asked : SUBSET Dirs, mutating : BOOLEAN, mgen : Gens,
           queue : Seq(Entries), next : Nat, grace : Nat, uploads : SUBSET Entries,
           raced : BOOLEAN, stale : BOOLEAN, out : Seq(Wishes)]

Dialogs ==
    [kind : {"create"}] \cup [kind : {"permissions"}, entry : Entries]
    \cup [kind : {"remove"}, entries : {E \in SUBSET Entries : IsFiniteSet(E) /\ E # {}}, stale : BOOLEAN]
    \cup [kind : {"overwrite"}, dir : Dirs, listed : SUBSET Names, name : Names, left : SUBSET Names]

\* A listing is awaited for the directory shown alone, and rows are of it.
Shaped(p) == p.pending \in {NoDir, p.current} /\ p.rows \subseteq In(p.current, Names)

BaseTypes ==
    /\ connected \in BOOLEAN /\ target \in Hosts /\ gen \in Gens /\ link \in Links \cup {NoLink}
    /\ panelDisk \in [Hosts -> SUBSET Entries] /\ clicks \in 0 .. MaxClicks /\ faults \in 0 .. MaxFaults
QueueTypes ==
    /\ calls \in Seq(PanelCalls) /\ reports \in Seq(PanelReports)
    /\ deferred \in SUBSET Wanted
PaneTypes == panel \in Panels /\ Shaped(panel) /\ panel.out = <<>> /\ dialogs \in Seq(Dialogs)
PanelTypes == BaseTypes /\ QueueTypes /\ PaneTypes

\* ---- the session
\* Calls and reports of generation g: those that open or end its connection,
\* those that have to pass before it, those of a later one, and so on.
OpensOf(g) == {c \in PanelCalls : c.gen = g /\ c.call \in Turns}
ForeignTo(g) == {c \in PanelCalls : c.gen # g \/ c.call \in Turns}
LaterThan(g) == {c \in PanelCalls : c.gen > g}
AsksOf(g) == {c \in PanelCalls : c.gen = g /\ c.call \in Wishes}
ElsewhereThan(g, h) == {c \in PanelCalls : c.gen = g /\ c.host # h}
ConnectsOf(g) == {c \in PanelCalls : c.gen = g /\ c.call.op = "connect"}
NewsOf(g, op) == {r \in PanelReports : r.gen = g /\ r.call.op = op}
AnswersOf(g) == {r \in PanelReports : r.gen = g /\ r.call \in Results}
LaterNews(g) == {r \in PanelReports : r.gen > g}

\* The worker holds the connection of the session; it is to be opened.
Linked == link # NoLink /\ link.gen = gen
Begun(cs, rs) == ~NoneOf(cs, ConnectsOf(gen)) \/ ~NoneOf(rs, NewsOf(gen, "up"))

\* Queues cs and rs: nothing is of a later generation; what opens the connection
\* is last of what is not its own requests; a report of its success comes once,
\* and is followed by that of its loss; until then nothing is asked of it.
TurnsOf(cs, rs, asked) ==
    /\ NoneOf(cs, LaterThan(gen)) /\ (\A c \in deferred : c.gen <= gen) /\ NoneOf(rs, LaterNews(gen))
    /\ link # NoLink => link.gen <= gen
    /\ Ordered(cs, OpensOf(gen), ForeignTo(gen))
    /\ connected \/ ~NoneOf(rs, NewsOf(gen, "up")) => NoneOf(cs, ForeignTo(gen))
    /\ Ordered(rs, NewsOf(gen, "up"), NewsOf(gen, "up"))
    /\ connected => NoneOf(rs, NewsOf(gen, "up"))
    /\ connected => Linked \/ ~NoneOf(rs, NewsOf(gen, "down"))
    /\ Followed(rs, NewsOf(gen, "up"), NewsOf(gen, "down")) \/ Linked
    /\ Linked => link.host = target
    /\ NoneOf(cs, ElsewhereThan(gen, target))
    /\ Begun(cs, rs) => /\ ~connected /\ asked = {} /\ NoneOf(cs, AsksOf(gen))
                        /\ NoneOf(rs, AnswersOf(gen)) /\ \A c \in deferred : c.gen # gen
InTurns == TurnsOf(calls, reports, panel.asked)

\* ---- the panel
\* The requests of the handler that runs; what is under way, by its kind; whether
\* a listing of d follows x.
Outs(p) == {p.out[i] : i \in DOMAIN p.out}
Wanting(Q, op) == \E x \in Q : x.op = op
Listing(Q, d) == \E x \in Q : x.op = "list" /\ x.dir = d
Refreshes(x, d) == x.op \in Ops /\ x.ok /\ (x.op = "write" => x.entry[1] = d)
Held(held, d) == {n \in Names : <<d, n>> \in held}

\* W: what is under way of the generation, requests and answers; A: the answers.
Coming(p, W, A) ==
    \/ p.grace > 0 \/ p.next > 0 \/ Wanting(W, "home")
    \/ p.queue # <<>> /\ Wanting(W, "remove")
    \/ \E x \in A : Refreshes(x, p.current)

\* A listing that is awaited is under way.
Awaited(p, W) == \A d \in p.asked : Listing(W, d)
IsOverwrite(o, d) == o.kind = "overwrite" /\ o.dir = d
Questioned(open, d) == \E i \in DOMAIN open : IsOverwrite(open[i], d)
\* So is that of a directory that is being opened, unless its question is open.
Expected(p, open, W) ==
    p.pending # NoDir => p.pending \in p.asked \/ Questioned(open, p.pending) \/ p.grace > 0 \/ Wanting(W, "home")
\* The rows are those of the server, or will be read again;
RowsTrue(p, W, A, held) ==
    p.pending = NoDir => p.rows = In(p.current, Held(held, p.current)) \/ p.error \/ p.raced \/ Coming(p, W, A)
\* so is what a question will show once it is answered.
OffersTrue(p, open, W, A, held) ==
    \A i \in DOMAIN open : IsOverwrite(open[i], p.pending) /\ p.pending \notin p.asked =>
        open[i].listed = Held(held, p.pending) \/ p.raced \/ Coming(p, W, A)
Good(p, open, W, A, held) ==
    Awaited(p, W) /\ Expected(p, open, W) /\ RowsTrue(p, W, A, held) /\ OffersTrue(p, open, W, A, held)

\* A directory has one upload question, and while it is open no uploads wait.
Apart(p, open) ==
    /\ \A i, k \in DOMAIN open : open[i].kind = "overwrite" /\ open[k].kind = "overwrite" /\ open[i].dir = open[k].dir => i = k
    /\ \A i \in DOMAIN open : open[i].kind = "overwrite" => \A e \in p.uploads : e[1] # open[i].dir

\* ---- the answers
\* Listings under way that the server has outrun, and what will refresh them.
OldListings(d, held) == {r \in PanelReports : r.gen = gen /\ r.call.op = "list" /\ r.call.ok /\ r.call.dir = d
                                               /\ r.call.listed # Held(held, d)}
Refreshers(d) == {r \in PanelReports : r.gen = gen /\ Refreshes(r.call, d)}
ListingsTrue(q, held) == \A d \in Dirs : Followed(q, OldListings(d, held), Refreshers(d))

\* What the current generation has in a queue, and put off.
Given(q) == {q[i].call : i \in {k \in DOMAIN q : q[k].gen = gen}}
PutOff == {c.call : c \in {x \in deferred : x.gen = gen}}
Live == connected /\ Linked

Under(rs) == Given(calls) \cup PutOff \cup Given(rs)
\* While the connection stands, what is shown is true or will be.
Fresh ==
    Live => /\ Good(panel, dialogs, Under(reports), Given(reports), panelDisk[target])
            /\ ListingsTrue(reports, panelDisk[target])

PanelInv == PanelTypes /\ InTurns /\ Apart(panel, dialogs) /\ Fresh

PanelFields == {"current", "pending", "rows", "error", "resolved", "asked", "mutating", "mgen",
                "queue", "next", "grace", "uploads", "raced", "stale", "out"}
PChanges(p, q, F) == q \in Panels /\ \A f \in PanelFields \ F : q[f] = p[f]
Proper(p, q) ==
    /\ q \in Panels /\ Shaped(q) /\ q.uploads \subseteq p.uploads
    /\ connected \/ (q.out = p.out /\ q.asked = p.asked)
Now(p, open, W, A, held) == Good(p, open, W \cup Outs(p), A, held)

\* Requests and answers.

\* What is known of a request.
LEMMA WishKinds ==
    ASSUME NEW x \in Wishes
    PROVE  /\ x \notin Turns /\ x.op \in {"list", "home"} \cup Ops
           /\ x.op = "list" => x.dir \in Dirs
           /\ x.op \in Ops => x.entry \in Entries
           /\ x.op = "rename" => x.to \in Entries
           /\ x.op = "write" => x.fresh \in BOOLEAN
  BY DEF Wishes, Listings, Homes, Makings, Renamings, Others, Turns, Ops

\* And of an answer.
LEMMA ResultKinds ==
    ASSUME NEW x \in Results
    PROVE  /\ x \notin Changes /\ x.op \in {"list", "home"} \cup Ops /\ x.ok \in BOOLEAN
           /\ x.op = "list" => x.dir \in Dirs /\ x.listed \in SUBSET Names
           /\ x.op \in Ops => x.entry \in Entries BY DEF Results, Changes, Ops

\* The requests that the handlers make are requests.
LEMMA WishesMade ==
    ASSUME NEW d \in Dirs, NEW e \in Entries, NEW e2 \in Entries, NEW b \in BOOLEAN
    PROVE  /\ [op |-> "list", dir |-> d] \in Wishes /\ [op |-> "home"] \in Wishes
           /\ \A o \in {"write", "mkdir"} : [op |-> o, entry |-> e, fresh |-> b] \in Wishes
           /\ [op |-> "rename", entry |-> e, to |-> e2] \in Wishes
           /\ \A o \in {"remove", "chmod", "upload"} : [op |-> o, entry |-> e] \in Wishes
  BY DEF Wishes, Listings, Homes, Makings, Renamings, Others

\* What a request does to a server leaves entries there.
LEMMA EffectTyped ==
    ASSUME NEW x \in Wishes, NEW held \in SUBSET Entries
    PROVE  Effect(x, held) \in SUBSET Entries
BY WishKinds DEF Effect, Ops

\* What a request answers, and that a directory it changes will be refreshed.
LEMMA ResultTyped ==
    ASSUME NEW x \in Wishes, NEW ok \in BOOLEAN, NEW held,
           NEW r, r = Result(x, ok, held)
    PROVE  /\ r \in Results /\ r.op = x.op /\ r.ok = ok
           /\ x.op = "list" => r.dir = x.dir /\ (ok => r.listed = Held(held, x.dir))
           /\ x.op \in Ops => r.entry = x.entry
<1>1. CASE x.op = "list" BY <1>1, WishKinds DEF Result, Results, Held, Ops
<1>2. CASE x.op = "home" BY <1>2 DEF Result, Results, Ops
<1>3. CASE x.op \in Ops BY <1>3, WishKinds DEF Result, Ops, Results
<1> QED BY <1>1, <1>2, <1>3, WishKinds

\* A directory that a request changes is refreshed by its answer.
LEMMA EffectRefreshes ==
    ASSUME NEW x \in Wishes, NEW held \in SUBSET Entries, NEW d \in Dirs
    PROVE  Held(Effect(x, held), d) = Held(held, d) \/ Refreshes(Result(x, TRUE, held), d)
<1> DEFINE r == Result(x, TRUE, held)
<1>0. r.op = x.op /\ r.ok = TRUE /\ (x.op \in Ops => r.entry = x.entry) BY ResultTyped
<1> HIDE DEF r
<1>1. CASE x.op \in {"list", "home", "chmod"} BY <1>1 DEF Effect
<1>2. CASE x.op \in {"mkdir", "upload", "rename", "remove"} BY <1>0, <1>2 DEF Refreshes, Ops, r
<1>3. CASE x.op = "write" /\ x.entry[1] = d BY <1>0, <1>3 DEF Refreshes, Ops, r
<1>4. CASE x.op = "write" /\ x.entry[1] # d
  <2>1. Effect(x, held) = held \cup {x.entry} BY <1>4 DEF Effect
  <2>2. \A n \in Names : <<d, n>> # x.entry BY <1>4
  <2> QED BY <2>1, <2>2 DEF Held
<1> QED BY <1>1, <1>2, <1>3, <1>4, WishKinds DEF Ops

\* The operators on the panel.

\* One more request is put with those of the handler.
LEMMA OutIs ==
    ASSUME NEW p \in Panels, NEW x \in Wishes, NEW q, q = Out(p, x)
    PROVE  PChanges(p, q, {"out"}) /\ Outs(q) = Outs(p) \cup {x}
<1>1. p.out \in Seq(Wishes) BY DEF Panels
<1>2. PChanges(p, q, {"out"}) /\ q.out = Append(p.out, x)
  BY <1>1, AppendProperties DEF Out, Panels, PChanges, PanelFields
<1>3. Outs(q) = Outs(p) \cup {x}
  <2> DEFINE m == Len(p.out)
  <2>1. m \in Nat /\ DOMAIN p.out = 1 .. m BY <1>1, LenProperties
  <2>2. /\ DOMAIN q.out = 1 .. m + 1 /\ q.out[m + 1] = x /\ \A i \in 1 .. m : q.out[i] = p.out[i]
    BY <1>1, <1>2, AppendProperties, LenProperties
  <2> HIDE DEF m
  <2>3. \A i \in 1 .. m : i \in 1 .. m + 1 BY <2>1
  <2>4. \A i \in 1 .. m + 1 : i = m + 1 \/ i \in 1 .. m BY <2>1
  <2>5. m + 1 \in 1 .. m + 1 BY <2>1
  <2> QED BY <2>1, <2>2, <2>3, <2>4, <2>5 DEF Outs
<1> QED BY <1>2, <1>3

\* The requests of a handler depend on nothing else of the panel.
LEMMA SameOuts ==
    ASSUME NEW p, NEW q, q.out = p.out
    PROVE  Outs(q) = Outs(p) BY DEF Outs

\* An error that is shown gives up the uploads of its directory, no more.
LEMMA ShowErrorProper ==
    ASSUME NEW p \in Panels, Shaped(p), NEW d \in Dirs, NEW q, q = ShowError(p, d)
    PROVE  /\ Proper(p, q)
           /\ IF d # p.pending THEN PChanges(p, q, {"uploads"})
              ELSE PChanges(p, q, {"uploads", "rows", "error", "stale", "pending"}) /\ q.pending = NoDir /\ q.error
<1>1. CASE d # p.pending BY <1>1 DEF ShowError, Proper, Panels, Shaped, PChanges, PanelFields
<1>2. CASE d = p.pending
  <2>1. q \in Panels /\ Shaped(q) /\ q.uploads \subseteq p.uploads /\ q.out = p.out /\ q.asked = p.asked
    BY <1>2 DEF ShowError, Cleared, Panels, Shaped
  <2>2. PChanges(p, q, {"uploads", "rows", "error", "stale", "pending"}) /\ q.pending = NoDir /\ q.error
    BY <1>2, <2>1 DEF ShowError, Cleared, Panels, PChanges, PanelFields
  <2> QED BY <1>2, <2>1, <2>2 DEF Proper
<1> QED BY <1>1, <1>2

\* A listing is asked for once; not connected, nothing is asked.
LEMMA ListProper ==
    ASSUME NEW p \in Panels, Shaped(p), NEW d \in Dirs, connected \in BOOLEAN, NEW q, q = List(p, d)
    PROVE  /\ Proper(p, q)
           /\ connected => PChanges(p, q, {"asked", "out"}) /\ q.asked = p.asked \cup {d}
           /\ connected => Outs(q) = Outs(p) \cup (IF d \in p.asked THEN {} ELSE {[op |-> "list", dir |-> d]})
<1>1. CASE d \in p.asked BY <1>1 DEF List, Proper, PChanges
<1>2. CASE d \notin p.asked /\ connected
  <2> DEFINE r == [p EXCEPT !.asked = @ \cup {d}]
  <2>1. r \in Panels /\ PChanges(p, r, {"asked"}) /\ r.asked = p.asked \cup {d}
    BY DEF Panels, PChanges, PanelFields
  <2>2. q = Out(r, [op |-> "list", dir |-> d]) BY <1>2 DEF List
  <2> HIDE DEF r
  <2>3. [op |-> "list", dir |-> d] \in Wishes BY WishesMade, DirAssumption DEF Wishes, Listings
  <2>4. PChanges(r, q, {"out"}) /\ Outs(q) = Outs(r) \cup {[op |-> "list", dir |-> d]} BY <2>1, <2>2, <2>3, OutIs
  <2>5. Outs(r) = Outs(p) BY <2>1, SameOuts DEF PChanges, PanelFields
  <2>6. PChanges(p, q, {"asked", "out"}) /\ q.asked = p.asked \cup {d} BY <2>1, <2>4 DEF PChanges, PanelFields
  <2>7. Shaped(q) /\ q.uploads = p.uploads /\ q \in Panels BY <2>6 DEF Shaped, PChanges, PanelFields
  <2> QED BY <1>2, <2>4, <2>5, <2>6, <2>7 DEF Proper
<1>3. CASE d \notin p.asked /\ ~connected BY <1>3, ShowErrorProper DEF List
<1> QED BY <1>1, <1>2, <1>3

\* So it is for a directory that is opened.
LEMMA NavigateProper ==
    ASSUME NEW p \in Panels, NEW d \in Dirs, connected \in BOOLEAN, NEW q, q = NavigateTo(p, d)
    PROVE  /\ Proper(p, q)
           /\ connected => /\ PChanges(p, q, {"rows", "error", "stale", "current", "pending", "asked", "out"})
                           /\ q.current = d /\ q.pending = d /\ q.asked = p.asked \cup {d}
                           /\ Outs(q) = Outs(p) \cup (IF d \in p.asked THEN {} ELSE {[op |-> "list", dir |-> d]})
<1> DEFINE r == [Cleared(p) EXCEPT !.current = d, !.pending = d]
<1>1. r \in Panels /\ Shaped(r) /\ PChanges(p, r, {"rows", "error", "stale", "current", "pending"})
      /\ r.current = d /\ r.pending = d BY DirAssumption DEF Cleared, Panels, Shaped, PChanges, PanelFields
<1>2. q = List(r, d) BY DEF NavigateTo
<1> HIDE DEF r
<1>3. Proper(r, q) BY <1>1, <1>2, ListProper
<1>4. Outs(r) = Outs(p) /\ r.asked = p.asked /\ r.out = p.out /\ r.uploads = p.uploads
  BY <1>1, SameOuts DEF PChanges, PanelFields
<1>5. Proper(p, q) BY <1>3, <1>4 DEF Proper
<1>6. CASE connected BY <1>1, <1>2, <1>6, <1>4, <1>5, ListProper DEF PChanges, PanelFields
<1> QED BY <1>5, <1>6

\* What keeps the panel's promises.

SameShown(p, q) ==
    /\ q.current = p.current /\ q.pending = p.pending /\ q.rows = p.rows
    /\ q.error = p.error /\ q.raced = p.raced
Keeps(p, q) ==
    /\ p.grace > 0 => q.grace > 0
    /\ p.next > 0 => q.next > 0
    /\ p.queue # <<>> => q.queue # <<>>
Harmless(p, x) ==
    x.op # "home" /\ ~Refreshes(x, p.current) /\ (x.op = "remove" => p.queue = <<>>)
OffersAlike(open, open2, d) ==
    /\ Questioned(open, d) => Questioned(open2, d)
    /\ \A i \in DOMAIN open2 : IsOverwrite(open2[i], d) =>
          \E k \in DOMAIN open : IsOverwrite(open[k], d) /\ open[k].listed = open2[i].listed

\* What will refresh the list still will.
LEMMA ComingStays ==
    ASSUME NEW p, NEW q, NEW W, NEW W2, NEW A, NEW A2, NEW X,
           Coming(p, W, A), q.current = p.current, Keeps(p, q),
           W \subseteq W2 \cup X, A \subseteq A2 \cup X, \A x \in X : Harmless(p, x)
    PROVE  Coming(q, W2, A2)
<1>1. CASE p.grace > 0 \/ p.next > 0 BY <1>1 DEF Coming, Keeps
<1>2. CASE Wanting(W, "home") BY <1>2 DEF Coming, Wanting, Harmless
<1>3. CASE p.queue # <<>> /\ Wanting(W, "remove") BY <1>3 DEF Wanting, Harmless, Coming, Keeps
<1>4. CASE \E x \in A : Refreshes(x, p.current) BY <1>4 DEF Coming, Harmless
<1> QED BY <1>1, <1>2, <1>3, <1>4 DEF Coming

\* A handler that leaves what is shown keeps the promises about it.
LEMMA GoodStays ==
    ASSUME NEW p, NEW q, NEW open, NEW open2, NEW W, NEW W2, NEW A, NEW A2, NEW X, NEW held,
           Good(p, open, W, A, held), SameShown(p, q), Keeps(p, q),
           W \subseteq W2 \cup X, A \subseteq A2 \cup X, \A x \in X : Harmless(p, x),
           p.pending \in p.asked => p.pending \in q.asked,
           Awaited(q, W2), OffersAlike(open, open2, p.pending)
    PROVE  Good(q, open2, W2, A2, held)
<1>1. Coming(p, W, A) => Coming(q, W2, A2) BY ComingStays DEF SameShown
<1>2. Expected(q, open2, W2)
  <2>1. Wanting(W, "home") => Wanting(W2, "home") BY DEF Wanting, Harmless
  <2> QED BY <2>1 DEF Good, Expected, SameShown, Keeps, OffersAlike
<1>3. RowsTrue(q, W2, A2, held) BY <1>1 DEF Good, RowsTrue, SameShown
<1>4. OffersTrue(q, open2, W2, A2, held)
  <2> SUFFICES ASSUME NEW i \in DOMAIN open2, IsOverwrite(open2[i], q.pending), q.pending \notin q.asked
               PROVE  open2[i].listed = Held(held, q.pending) \/ q.raced \/ Coming(q, W2, A2) BY DEF OffersTrue
  <2>1. PICK k \in DOMAIN open : IsOverwrite(open[k], p.pending) /\ open[k].listed = open2[i].listed
    BY DEF OffersAlike, SameShown
  <2>2. p.pending \notin p.asked BY DEF SameShown
  <2> QED BY <1>1, <2>1, <2>2 DEF Good, OffersTrue, SameShown
<1> QED BY <1>2, <1>3, <1>4 DEF Good

\* Questions that stay offer the same.
LEMMA SameOffers ==
    ASSUME NEW open, NEW d
    PROVE  OffersAlike(open, open, d) BY DEF OffersAlike

\* A listing that is waited for is still under way, unless it was just taken.
LEMMA AwaitedStays ==
    ASSUME NEW p, NEW q, NEW W, NEW W2, NEW X, Awaited(p, W), q.asked \subseteq p.asked,
           W \subseteq W2 \cup X, \A x \in X : x.op = "list" => x.dir \notin q.asked
    PROVE  Awaited(q, W2) BY DEF Awaited, Listing

\* When no answer is taken.
LEMMA GoodMore ==
    ASSUME NEW p, NEW q, NEW open, NEW open2, NEW W, NEW W2, NEW A, NEW held,
           Good(p, open, W, A, held), SameShown(p, q), Keeps(p, q), W \subseteq W2,
           p.pending \in p.asked => p.pending \in q.asked,
           Awaited(q, W2), OffersAlike(open, open2, p.pending)
    PROVE  Good(q, open2, W2, A, held)
<1> DEFINE X == {}
<1>1. W \subseteq W2 \cup X /\ A \subseteq A \cup X /\ \A x \in X : Harmless(p, x) OBVIOUS
<1> HIDE DEF X
<1> QED BY <1>1, GoodStays

\* A directory that is being opened promises nothing but its listing.
LEMMA NavigateGood ==
    ASSUME NEW p \in Panels, NEW d \in Dirs, connected, NEW q, q = NavigateTo(p, d),
           NEW W, Awaited(p, W \cup Outs(p)), NEW open, NEW A, NEW held
    PROVE  Now(q, open, W, A, held)
<1>1. /\ q.pending = d /\ q.asked = p.asked \cup {d}
      /\ Outs(q) = Outs(p) \cup (IF d \in p.asked THEN {} ELSE {[op |-> "list", dir |-> d]}) BY NavigateProper
<1>2. Awaited(q, W \cup Outs(q))
  <2> SUFFICES ASSUME NEW e \in q.asked PROVE Listing(W \cup Outs(q), e) BY DEF Awaited
  <2>1. CASE e \in p.asked
    <3>1. PICK x \in W \cup Outs(p) : x.op = "list" /\ x.dir = e BY <2>1 DEF Awaited, Listing
    <3>2. x \in W \cup Outs(q) BY <1>1
    <3> QED BY <3>1, <3>2 DEF Listing
  <2>2. CASE e \notin p.asked
    <3>1. e = d /\ [op |-> "list", dir |-> d] \in Outs(q) BY <1>1, <2>2
    <3> QED BY <3>1 DEF Listing
  <2> QED BY <2>1, <2>2
<1>3. d # NoDir BY DirAssumption
<1> QED BY <1>1, <1>2, <1>3 DEF Now, Good, Expected, RowsTrue, OffersTrue

\* A listing that is asked for, too, beside what is shown.
LEMMA ListGood ==
    ASSUME NEW p \in Panels, Shaped(p), NEW d \in Dirs, connected, NEW q, q = List(p, d),
           NEW W, NEW open, NEW A, NEW held, Now(p, open, W, A, held)
    PROVE  Now(q, open, W, A, held)
<1>1. /\ PChanges(p, q, {"asked", "out"}) /\ q.asked = p.asked \cup {d}
      /\ Outs(q) = Outs(p) \cup (IF d \in p.asked THEN {} ELSE {[op |-> "list", dir |-> d]}) BY ListProper
<1>2. Awaited(q, W \cup Outs(q))
  <2> SUFFICES ASSUME NEW e \in q.asked PROVE Listing(W \cup Outs(q), e) BY DEF Awaited
  <2>1. CASE e \in p.asked
    <3>1. PICK x \in W \cup Outs(p) : x.op = "list" /\ x.dir = e BY <2>1 DEF Awaited, Listing, Now, Good
    <3>2. x \in W \cup Outs(q) BY <1>1
    <3> QED BY <3>1, <3>2 DEF Listing
  <2>2. CASE e \notin p.asked
    <3>1. e = d /\ [op |-> "list", dir |-> d] \in Outs(q) BY <1>1, <2>2
    <3> QED BY <3>1 DEF Listing
  <2> QED BY <2>1, <2>2
<1>3. SameShown(p, q) /\ Keeps(p, q) BY <1>1 DEF PChanges, PanelFields, SameShown, Keeps
<1>4. W \cup Outs(p) \subseteq W \cup Outs(q) BY <1>1
<1>5. p.pending \in p.asked => p.pending \in q.asked BY <1>1
<1> QED BY <1>2, <1>3, <1>4, <1>5, GoodMore, SameOffers DEF Now

\* Another request beside what is shown.
LEMMA OutGood ==
    ASSUME NEW p \in Panels, NEW x \in Wishes, NEW q, q = Out(p, x),
           NEW W, NEW open, NEW A, NEW held, Now(p, open, W, A, held)
    PROVE  Now(q, open, W, A, held)
<1>1. PChanges(p, q, {"out"}) /\ Outs(q) = Outs(p) \cup {x} BY OutIs
<1>2. SameShown(p, q) /\ Keeps(p, q) /\ q.asked = p.asked BY <1>1 DEF PChanges, PanelFields, SameShown, Keeps
<1>3. W \cup Outs(p) \subseteq W \cup Outs(q) BY <1>1
<1>4. Awaited(q, W \cup Outs(q)) BY <1>1, <1>2 DEF Awaited, Listing, Now, Good
<1> QED BY <1>2, <1>3, <1>4, GoodMore, SameOffers DEF Now

\* Changes and removals.

\* Two parts of a handler, one after the other.
LEMMA ProperTwice ==
    ASSUME NEW p, NEW q, NEW r, Proper(p, q), Proper(q, r)
    PROVE  Proper(p, r) BY DEF Proper

\* The list is about to be refreshed: then it may show anything.
LEMMA ComingGood ==
    ASSUME NEW q, NEW open, NEW W, NEW A, NEW held,
           Awaited(q, W), Expected(q, open, W), Coming(q, W, A)
    PROVE  Good(q, open, W, A, held) BY DEF Good, RowsTrue, OffersTrue

\* A change that is refused or failed, of any kind,
LEMMA OperationFailedProper ==
    ASSUME NEW p \in Panels, Shaped(p), NEW op, connected \in BOOLEAN, NEW q, q = OperationFailed(p, op)
    PROVE  Proper(p, q)
<1>1. CASE op = "remove" /\ p.queue # <<>>
  <2> DEFINE t == Tail(p.queue)  n == p.next + 1
  <2>1. t \in Seq(Entries) BY <1>1, FirstAndRest DEF Panels
  <2>n. n \in Nat BY DEF Panels
  <2>2. q = [p EXCEPT !.queue = t, !.next = n] BY <1>1 DEF OperationFailed
  <2> HIDE DEF t, n
  <2>3. q \in Panels BY <2>1, <2>n, <2>2 DEF Panels
  <2>4. /\ q.pending = p.pending /\ q.current = p.current /\ q.rows = p.rows
        /\ q.uploads = p.uploads /\ q.out = p.out /\ q.asked = p.asked BY <2>2 DEF Panels
  <2> QED BY <2>3, <2>4 DEF Proper, Shaped
<1>2. CASE ~(op = "remove" /\ p.queue # <<>>)
  <2> DEFINE r == IF op = "upload" THEN p ELSE [p EXCEPT !.mutating = FALSE]
  <2>1. Proper(p, r) BY DEF Proper, Panels, Shaped
  <2>2. q = IF op = "rename" THEN NavigateTo(r, r.current) ELSE r BY <1>2 DEF OperationFailed
  <2> HIDE DEF r
  <2>3. r \in Panels /\ r.current \in Dirs BY <2>1 DEF Proper, Panels
  <2>4. CASE op = "rename" BY <2>2, <2>3, <2>4, <2>1, NavigateProper, ProperTwice
  <2>5. CASE op # "rename" BY <2>1, <2>2, <2>5
  <2> QED BY <2>4, <2>5
<1> QED BY <1>1, <1>2

\* a request that changes something, asked for or refused,
LEMMA OperationProper ==
    ASSUME NEW p \in Panels, Shaped(p), NEW x \in Wishes, connected \in BOOLEAN, NEW q, q = Operation(p, x)
    PROVE  Proper(p, q)
<1>1. CASE connected BY <1>1, OutIs DEF Operation, PChanges, PanelFields, Proper, Shaped
<1>2. CASE ~connected BY <1>2, OperationFailedProper DEF Operation
<1> QED BY <1>1, <1>2

\* and one that blocks the actions keep the shape of the panel.
LEMMA MutateProper ==
    ASSUME NEW p \in Panels, Shaped(p), NEW x \in Wishes, connected \in BOOLEAN, gen \in Gens,
           NEW q, q = Mutate(p, x)
    PROVE  Proper(p, q)
<1> DEFINE r == [p EXCEPT !.mutating = TRUE, !.mgen = gen]
<1>1. Proper(p, r) BY DEF Proper, Panels, Shaped
<1>2. q = Operation(r, x) BY DEF Mutate
<1> HIDE DEF r
<1>3. Proper(r, q) BY <1>1, <1>2, OperationProper DEF Proper
<1> QED BY <1>1, <1>3, ProperTwice

\* A change that is asked for leaves what is shown.
LEMMA MutateGood ==
    ASSUME NEW p \in Panels, NEW x \in Wishes, connected, gen \in Gens, NEW q, q = Mutate(p, x),
           NEW W, NEW open, NEW A, NEW held, Now(p, open, W, A, held)
    PROVE  Now(q, open, W, A, held)
<1> DEFINE r == [p EXCEPT !.mutating = TRUE, !.mgen = gen]
<1>1. r \in Panels /\ PChanges(p, r, {"mutating", "mgen"}) BY DEF Panels, PChanges, PanelFields
<1>2. q = Out(r, x) BY DEF Mutate, Operation
<1> HIDE DEF r
<1>3. SameShown(p, r) /\ Keeps(p, r) /\ r.asked = p.asked /\ r.out = p.out
  BY <1>1 DEF PChanges, PanelFields, SameShown, Keeps
<1>4. Now(r, open, W, A, held) BY <1>3, SameOuts, GoodMore, SameOffers DEF Now, Good, Awaited
<1> QED BY <1>1, <1>2, <1>4, OutGood

\* The next of a batch, or the refresh after its last.
LEMMA NextProper ==
    ASSUME NEW p \in Panels, Shaped(p), connected \in BOOLEAN, NEW q, q = StartNextRemoval(p)
    PROVE  Proper(p, q)
<1>1. CASE p.queue = <<>>
  <2> DEFINE r == [p EXCEPT !.mutating = FALSE]
  <2>1. Proper(p, r) /\ r \in Panels /\ p.current \in Dirs BY DEF Proper, Panels, Shaped
  <2>2. q = NavigateTo(r, p.current) BY <1>1 DEF StartNextRemoval
  <2> HIDE DEF r
  <2>3. Proper(r, q) BY <2>1, <2>2, NavigateProper
  <2> QED BY <2>1, <2>3, ProperTwice
<1>2. CASE p.queue # <<>> BY <1>2, FirstAndRest, OperationProper DEF Panels, Wishes, Others, StartNextRemoval
<1> QED BY <1>1, <1>2

\* After the next removal, or with the refresh, the list is awaited or promised.
LEMMA NextGood ==
    ASSUME NEW p \in Panels, connected, NEW q, q = StartNextRemoval(p),
           NEW W, NEW open, NEW A, NEW held, Awaited(p, W \cup Outs(p)), Expected(p, open, W \cup Outs(p))
    PROVE  Now(q, open, W, A, held)
<1>1. CASE p.queue = <<>>
  <2> DEFINE r == [p EXCEPT !.mutating = FALSE]
  <2>1. r \in Panels /\ p.current \in Dirs /\ r.asked = p.asked /\ r.out = p.out BY DEF Panels
  <2>2. q = NavigateTo(r, p.current) BY <1>1 DEF StartNextRemoval
  <2> HIDE DEF r
  <2>3. Awaited(r, W \cup Outs(r)) BY <2>1, SameOuts DEF Awaited
  <2> QED BY <2>1, <2>2, <2>3, NavigateGood
<1>2. CASE p.queue # <<>>
  <2> DEFINE x == [op |-> "remove", entry |-> Head(p.queue)]
  <2>1. Head(p.queue) \in Entries BY <1>2, FirstAndRest DEF Panels
  <2>2. x \in Wishes /\ x.op = "remove" BY <2>1 DEF Wishes, Others
  <2>3. q = Out(p, x) BY <1>2 DEF StartNextRemoval, Operation
  <2> HIDE DEF x
  <2>4. PChanges(p, q, {"out"}) /\ Outs(q) = Outs(p) \cup {x} BY <2>2, <2>3, OutIs
  <2>5. /\ q.asked = p.asked /\ q.pending = p.pending /\ q.grace = p.grace /\ q.queue = p.queue
        /\ W \cup Outs(p) \subseteq W \cup Outs(q) BY <2>4 DEF PChanges, PanelFields
  <2>6. Awaited(q, W \cup Outs(q)) BY <2>5 DEF Awaited, Listing
  <2>7. Expected(q, open, W \cup Outs(q)) BY <2>5 DEF Expected, Wanting
  <2>8. Coming(q, W \cup Outs(q), A) BY <1>2, <2>2, <2>4, <2>5 DEF Coming, Wanting
  <2> QED BY <2>6, <2>7, <2>8, ComingGood DEF Now
<1> QED BY <1>1, <1>2

\* The same for a batch that starts,
LEMMA BatchProper ==
    ASSUME NEW p \in Panels, Shaped(p), NEW s \in Seq(Entries), connected \in BOOLEAN, gen \in Gens,
           NEW q, q = StartBatch(p, s)
    PROVE  Proper(p, q)
<1> DEFINE r == [p EXCEPT !.queue = s, !.mutating = TRUE, !.mgen = gen]
<1>1. Proper(p, r) BY DEF Proper, Panels, Shaped
<1>2. q = StartNextRemoval(r) BY DEF StartBatch
<1> HIDE DEF r
<1>3. Proper(r, q) BY <1>1, <1>2, NextProper DEF Proper
<1> QED BY <1>1, <1>3, ProperTwice

\* which promises a refresh from its first removal on.
LEMMA BatchGood ==
    ASSUME NEW p \in Panels, NEW s \in Seq(Entries), connected, gen \in Gens, NEW q, q = StartBatch(p, s),
           NEW W, NEW open, NEW A, NEW held, Now(p, open, W, A, held)
    PROVE  Now(q, open, W, A, held)
<1> DEFINE r == [p EXCEPT !.queue = s, !.mutating = TRUE, !.mgen = gen]
<1>1. r \in Panels /\ PChanges(p, r, {"queue", "mutating", "mgen"}) BY DEF Panels, PChanges, PanelFields
<1>2. q = StartNextRemoval(r) BY DEF StartBatch
<1> HIDE DEF r
<1>3. r.asked = p.asked /\ r.pending = p.pending /\ r.grace = p.grace /\ r.out = p.out
  BY <1>1 DEF PChanges, PanelFields
<1>4. Outs(r) = Outs(p) BY <1>3, SameOuts
<1>5. Awaited(r, W \cup Outs(r)) BY <1>3, <1>4 DEF Now, Good, Awaited
<1>6. Expected(r, open, W \cup Outs(r)) BY <1>3, <1>4 DEF Now, Good, Expected
<1> QED BY <1>1, <1>2, <1>5, <1>6, NextGood

\* A removal that ended, well or not, leaves the rest of its batch to a timer.
LEMMA RestGood ==
    ASSUME NEW p \in Panels, NEW q, q = [p EXCEPT !.queue = Tail(@), !.next = @ + 1],
           NEW x, x.op \notin {"list", "home"}, NEW W, NEW W2, W \subseteq W2 \cup {x},
           NEW open, NEW A, NEW A2, NEW held, Good(p, open, W, A, held)
    PROVE  Now(q, open, W2, A2, held)
<1>1. /\ q.asked = p.asked /\ q.pending = p.pending /\ q.grace = p.grace /\ q.next = p.next + 1 /\ p.next \in Nat
  BY DEF Panels
<1>2. W \subseteq (W2 \cup Outs(q)) \cup {x} OBVIOUS
<1>3. Awaited(q, W2 \cup Outs(q)) BY <1>1, <1>2 DEF Good, Awaited, Listing
<1>4. Expected(q, open, W2 \cup Outs(q)) BY <1>1, <1>2 DEF Good, Expected, Wanting
<1>5. Coming(q, W2 \cup Outs(q), A2) BY <1>1 DEF Coming
<1> QED BY <1>3, <1>4, <1>5, ComingGood DEF Now

\* The list after the answer x to a change that it need not show.
LEMMA AnswerGood ==
    ASSUME NEW p \in Panels, NEW q \in Panels, PChanges(p, q, {"mutating"}), NEW x, x.op \in Ops,
           ~Refreshes(x, p.current), x.op = "remove" => p.queue = <<>>,
           NEW W, NEW W2, W \subseteq W2 \cup {x}, NEW A, NEW A2, A \subseteq A2 \cup {x},
           NEW open, NEW held, Good(p, open, W, A, held)
    PROVE  Now(q, open, W2, A2, held)
<1>1. SameShown(p, q) /\ Keeps(p, q) /\ q.asked = p.asked BY DEF PChanges, PanelFields, SameShown, Keeps
<1>2. Harmless(p, x) BY DEF Harmless, Ops
<1> DEFINE X == {x}  W3 == W2 \cup Outs(q)
<1>3. W \subseteq W3 \cup X /\ A \subseteq A2 \cup X /\ \A y \in X : Harmless(p, y) /\ y.op # "list"
  BY <1>2 DEF Ops
<1>4. W3 = W2 \cup Outs(q) OBVIOUS
<1> HIDE DEF X, W3
<1>5. Awaited(p, W) BY DEF Good
<1>6. Awaited(q, W3) BY <1>1, <1>3, <1>5, AwaitedStays
<1> QED BY <1>1, <1>3, <1>4, <1>6, GoodStays, SameOffers DEF Now

\* And when it is opened again.
LEMMA AnswerNavigates ==
    ASSUME NEW p \in Panels, NEW r \in Panels, PChanges(p, r, {"mutating", "resolved"}),
           NEW d \in Dirs, connected, NEW q, q = NavigateTo(r, d),
           NEW x, x.op # "list", NEW W, NEW W2, W \subseteq W2 \cup {x},
           NEW open, NEW A2, NEW held, Awaited(p, W)
    PROVE  Now(q, open, W2, A2, held)
BY NavigateGood DEF PChanges, PanelFields, Awaited, Listing

\* The answer to a change that failed: the list is as it was, or opened again.
LEMMA FailedGood ==
    ASSUME NEW p \in Panels, NEW x, x.op \in Ops, ~x.ok, connected, NEW q, q = OperationFailed(p, x.op),
           NEW W, NEW W2, W \subseteq W2 \cup {x}, NEW A, NEW A2, A \subseteq A2 \cup {x},
           NEW open, NEW held, Good(p, open, W, A, held)
    PROVE  Now(q, open, W2, A2, held)
<1>1. CASE x.op = "remove" /\ p.queue # <<>> BY <1>1, RestGood DEF OperationFailed, Ops
<1>2. CASE ~(x.op = "remove" /\ p.queue # <<>>)
  <2> DEFINE r == IF x.op = "upload" THEN p ELSE [p EXCEPT !.mutating = FALSE]
  <2>1. r \in Panels /\ PChanges(p, r, {"mutating"}) /\ r.current = p.current /\ p.current \in Dirs
    BY DEF Panels, PChanges, PanelFields
  <2>2. q = IF x.op = "rename" THEN NavigateTo(r, r.current) ELSE r BY <1>2 DEF OperationFailed
  <2> HIDE DEF r
  <2>3. CASE x.op = "rename" BY <2>1, <2>2, <2>3, AnswerNavigates DEF PChanges, Good
  <2>4. CASE x.op # "rename" BY <2>2, <2>4, <1>2, <2>1, AnswerGood DEF Refreshes
  <2> QED BY <2>3, <2>4
<1> QED BY <1>1, <1>2

\* The answer to a change that is done keeps the shape of the panel,
LEMMA FinishedProper ==
    ASSUME NEW p \in Panels, Shaped(p), NEW x, connected \in BOOLEAN, NEW q, q = OperationFinished(p, x)
    PROVE  Proper(p, q)
<1>1. CASE x.op = "remove" /\ p.queue # <<>>
  <2>1. q = OperationFailed(p, x.op) BY <1>1 DEF OperationFinished, OperationFailed
  <2> QED BY <2>1, OperationFailedProper
<1>2. CASE ~(x.op = "remove" /\ p.queue # <<>>)
  <2> DEFINE r == IF x.op = "upload" THEN p ELSE [p EXCEPT !.mutating = FALSE]
  <2>1. Proper(p, r) /\ r.current = p.current BY DEF Proper, Panels, Shaped
  <2>2. q = r \/ q = NavigateTo(r, p.current) BY <1>2, <2>1 DEF OperationFinished
  <2> HIDE DEF r
  <2>3. r \in Panels /\ p.current \in Dirs BY <2>1 DEF Proper, Panels
  <2>4. CASE q = r BY <2>1, <2>4
  <2>5. CASE q = NavigateTo(r, p.current) BY <2>3, <2>5, <2>1, NavigateProper, ProperTwice
  <2> QED BY <2>2, <2>4, <2>5
<1> QED BY <1>1, <1>2

\* and the list is opened again where the change may show.
LEMMA FinishedGood ==
    ASSUME NEW p \in Panels, NEW x, x.op \in Ops, connected, NEW q, q = OperationFinished(p, x),
           NEW W, NEW W2, W \subseteq W2 \cup {x}, NEW A, NEW A2, A \subseteq A2 \cup {x},
           NEW open, NEW held, Good(p, open, W, A, held)
    PROVE  Now(q, open, W2, A2, held)
<1>1. CASE x.op = "remove" /\ p.queue # <<>> BY <1>1, RestGood DEF OperationFinished, Ops
<1>2. CASE ~(x.op = "remove" /\ p.queue # <<>>)
  <2> DEFINE r == IF x.op = "upload" THEN p ELSE [p EXCEPT !.mutating = FALSE]
  <2>1. r \in Panels /\ PChanges(p, r, {"mutating"}) /\ r.current = p.current /\ p.current \in Dirs
    BY DEF Panels, PChanges, PanelFields
  <2>2. \/ x.op = "write" /\ x.entry[1] # p.current /\ q = r
        \/ q = NavigateTo(r, p.current) BY <1>2, <2>1 DEF OperationFinished
  <2> HIDE DEF r
  <2>3. CASE q = NavigateTo(r, p.current) BY <2>1, <2>3, AnswerNavigates DEF PChanges, Good, Ops
  <2>4. CASE x.op = "write" /\ x.entry[1] # p.current /\ q = r BY <2>4, <1>2, <2>1, AnswerGood DEF Refreshes
  <2> QED BY <2>2, <2>3, <2>4
<1> QED BY <1>1, <1>2

\* Uploads.

\* Rows have one directory and finitely many names.
LEMMA FiniteRows ==
    ASSUME NEW d, NEW S \in SUBSET In(d, Names)
    PROVE  IsFiniteSet(S)
BY FS_Singleton, DirAssumption, FS_Product, FS_Subset DEF In

\* A finite set has an order, and an order of it is a sequence of its members.
LEMMA OrdersAre ==
    ASSUME NEW V, NEW S \in SUBSET V, IsFiniteSet(S)
    PROVE  Cardinality(S) \in Nat /\ Orders(S) # {} /\ \A s \in Orders(S) : s \in Seq(V) /\ DOMAIN s = 1 .. Cardinality(S)
<1> DEFINE n == Cardinality(S)
<1>1. n \in Nat /\ ExistsBijection(1 .. n, S) BY FS_CardinalityType
<1>2. PICK s \in Surjection(1 .. n, S) : TRUE BY <1>1 DEF ExistsBijection, Bijection
<1>3. s \in [1 .. n -> S] /\ \A t \in S : \E i \in 1 .. n : s[i] = t BY <1>2 DEF Surjection
<1>4. {s[i] : i \in DOMAIN s} = S BY <1>3
<1>5. s \in Orders(S) BY <1>3, <1>4 DEF Orders
<1>6. ASSUME NEW u \in Orders(S) PROVE u \in Seq(V) /\ DOMAIN u = 1 .. n BY <1>6, <1>1, SeqDef DEF Orders
<1> QED BY <1>1, <1>5, <1>6

\* What is not asked about is uploaded.
Sent(p, d, free) ==
    [p EXCEPT !.out = @ \o [i \in 1 .. Cardinality(free) |->
        [op |-> "upload", entry |-> <<d, (CHOOSE s \in Orders(free) : TRUE)[i]>>]]]

\* Uploads are requests beside those there were.
LEMMA SentIs ==
    ASSUME NEW p \in Panels, NEW d \in Dirs, NEW free \in SUBSET Names, NEW q, q = Sent(p, d, free)
    PROVE  PChanges(p, q, {"out"}) /\ Outs(p) \subseteq Outs(q) /\ (free = {} => q.out = p.out)
<1> DEFINE n == Cardinality(free)  o == CHOOSE s \in Orders(free) : TRUE
           u == [i \in 1 .. n |-> [op |-> "upload", entry |-> <<d, o[i]>>]]
<1>1. IsFiniteSet(free) BY FS_Subset, DirAssumption
<1>2. n \in Nat /\ o \in Seq(Names) /\ DOMAIN o = 1 .. n BY <1>1, OrdersAre
<1>3. \A i \in 1 .. n : o[i] \in Names BY <1>2
<1>4. \A i \in 1 .. n : u[i] \in Wishes
  <2> TAKE i \in 1 .. n
  <2> DEFINE e == <<d, o[i]>>
  <2>1. e \in Entries BY <1>3 DEF Entries
  <2> HIDE DEF e, o
  <2>2. [op |-> "upload", entry |-> e] \in Wishes BY <2>1 DEF Wishes, Others
  <2>3. u[i] = [op |-> "upload", entry |-> e] BY DEF e
  <2> QED BY <2>2, <2>3
<1>5. q = [p EXCEPT !.out = @ \o u] BY DEF Sent
<1>6. n = 0 => 1 .. n = {} BY <1>2
<1>7. free = {} => n = 0 BY FS_EmptySet
<1>8. DOMAIN u = 1 .. n /\ u = [i \in 1 .. n |-> u[i]] OBVIOUS
<1> HIDE DEF n, o, u
<1>9. u \in Seq(Wishes) BY <1>4, <1>8, <1>2, SeqDef
<1>10. p.out \in Seq(Wishes) BY DEF Panels
<1> DEFINE v == p.out \o u
<1>11. /\ v \in Seq(Wishes) /\ Len(p.out) \in Nat /\ Len(u) \in Nat
       /\ DOMAIN p.out = 1 .. Len(p.out) /\ DOMAIN v = 1 .. Len(p.out) + Len(u)
       /\ \A i \in 1 .. Len(p.out) : v[i] = p.out[i] BY <1>9, <1>10, BothParts
<1>12. free = {} => v = p.out
  <2> SUFFICES ASSUME free = {} PROVE v = p.out OBVIOUS
  <2>1. u = <<>> BY <1>6, <1>7, <1>8, <1>9, EmptySeq, LenProperties
  <2> QED BY <1>10, <2>1
<1> HIDE DEF v
<1>13. q = [p EXCEPT !.out = v] BY <1>5 DEF v
<1>14. PChanges(p, q, {"out"}) /\ q.out = v BY <1>11, <1>13 DEF Panels, PChanges, PanelFields
<1>15. Outs(p) \subseteq Outs(q)
  <2> SUFFICES ASSUME NEW i \in DOMAIN p.out PROVE p.out[i] \in Outs(q) BY DEF Outs
  <2>1. i \in DOMAIN v /\ v[i] = p.out[i] BY <1>11
  <2> QED BY <1>14, <2>1 DEF Outs
<1> QED BY <1>12, <1>14, <1>15

\* They keep the shape of the panel.
LEMMA SentProper ==
    ASSUME NEW p \in Panels, Shaped(p), NEW d \in Dirs, NEW free \in SUBSET Names,
           connected \/ free = {}, NEW q, q = Sent(p, d, free)
    PROVE  Proper(p, q)
BY SentIs DEF PChanges, PanelFields, Proper, Shaped

\* A listing of the directory that is being opened replaces the rows.
LEMMA ShowRowsProper ==
    ASSUME NEW p \in Panels, Shaped(p), NEW d \in Dirs, NEW listed \in SUBSET Names,
           NEW q, q = ShowRows(p, d, listed)
    PROVE  /\ Proper(p, q)
           /\ IF d # p.pending THEN q = p
              ELSE PChanges(p, q, {"rows", "error", "stale", "pending"}) /\ q.pending = NoDir /\ q.rows = In(p.current, listed)
<1>1. CASE d # p.pending BY <1>1 DEF ShowRows, Proper
<1>2. CASE d = p.pending
  <2>1. p.pending = p.current BY <1>2, DirAssumption DEF Shaped
  <2>2. In(p.current, listed) \subseteq In(p.current, Names) /\ In(p.current, Names) \subseteq Entries
    BY DEF In, Entries, Panels
  <2>3. q = [Cleared(p) EXCEPT !.pending = NoDir, !.rows = In(p.current, listed)] BY <1>2, <2>1 DEF ShowRows
  <2> DEFINE new == In(p.current, listed)
  <2> HIDE DEF new
  <2>4. q = [Cleared(p) EXCEPT !.pending = NoDir, !.rows = new] BY <2>3 DEF new
  <2>5. new \in SUBSET Entries BY <2>2 DEF new
  <2>6. q \in Panels BY <2>4, <2>5 DEF Panels, Cleared
  <2>7. q.pending = NoDir /\ q.rows = new BY <2>4 DEF Panels, Cleared
  <2>8. PChanges(p, q, {"rows", "error", "stale", "pending"})
    BY <2>4, <2>6 DEF PChanges, PanelFields, Panels, Cleared
  <2>9. Shaped(q) BY <2>2, <2>7, <2>8 DEF Shaped, PChanges, PanelFields, new
  <2>10. Proper(p, q) BY <2>6, <2>8, <2>9 DEF Proper, PChanges, PanelFields
  <2> QED BY <1>2, <2>7, <2>8, <2>10 DEF new
<1> QED BY <1>1, <1>2

\* What a listing of d finds when the uploads that waited for it are checked:
\* W and A are what is under way by then.
Offered(p, open, d, listed, W, A, held) ==
    /\ Awaited(p, W)
    /\ p.pending \notin {NoDir, d} => Expected(p, open, W) /\ OffersTrue(p, open, W, A, held)
    /\ RowsTrue(p, W, A, held)
    /\ p.pending = d /\ d \notin p.asked => listed = Held(held, d) \/ p.raced \/ Coming(p, W, A)

\* A question about one of them offers what was listed.
LEMMA AskGood ==
    ASSUME NEW p \in Panels, NEW d \in Dirs, NEW listed, NEW open \in Seq(Dialogs), ~Questioned(open, d),
           NEW W, NEW A, NEW held, Offered(p, open, d, listed, W \cup Outs(p), A, held),
           NEW free \in SUBSET Names, NEW q, q = Sent(p, d, free),
           NEW dlg \in Dialogs, dlg.kind = "overwrite", dlg.dir = d, dlg.listed = listed
    PROVE  Now(q, <<dlg>> \o open, W, A, held)
<1> DEFINE W1 == W \cup Outs(p)  W2 == W \cup Outs(q)  open2 == <<dlg>> \o open
<1>1. PChanges(p, q, {"out"}) /\ W1 \subseteq W2 BY SentIs
<1>2. SameShown(p, q) /\ Keeps(p, q) /\ q.asked = p.asked /\ q.grace = p.grace
  BY <1>1 DEF PChanges, PanelFields, SameShown, Keeps
<1>3. <<dlg>> \in Seq(Dialogs) /\ Len(<<dlg>>) = 1 /\ <<dlg>>[1] = dlg OBVIOUS
<1>4. /\ DOMAIN open = 1 .. Len(open) /\ Len(open) \in Nat /\ DOMAIN open2 = 1 .. 1 + Len(open)
      /\ open2[1] = dlg /\ \A i \in 1 .. Len(open) : open2[1 + i] = open[i] BY <1>3, BothParts
<1> DEFINE n == Len(open)
<1>5. Offered(p, open, d, listed, W1, A, held) OBVIOUS
<1> HIDE DEF W1, W2, open2, n
<1>6. Awaited(q, W2) BY <1>1, <1>2, <1>5 DEF Offered, Awaited, Listing
<1>7. Coming(p, W1, A) => Coming(q, W2, A) BY <1>1, <1>2 DEF Coming, Wanting, Keeps, SameShown
<1>8. RowsTrue(q, W2, A, held) BY <1>2, <1>5, <1>7 DEF Offered, RowsTrue, SameShown
<1>9. DOMAIN open = 1 .. n /\ n \in Nat /\ DOMAIN open2 = 1 .. 1 + n
      /\ open2[1] = dlg /\ \A i \in 1 .. n : open2[1 + i] = open[i] BY <1>4 DEF n
<1>10. ASSUME NEW i \in DOMAIN open2 PROVE i = 1 \/ \E k \in DOMAIN open : open2[i] = open[k]
  <2>1. i = 1 \/ (i - 1 \in 1 .. n /\ i = 1 + (i - 1)) BY <1>9
  <2> QED BY <1>9, <2>1
<1>11. Expected(q, open2, W2)
  <2>1. CASE p.pending \in {NoDir, d} BY <1>9, <1>2, <2>1 DEF Questioned, IsOverwrite, Expected, SameShown
  <2>2. CASE p.pending \notin {NoDir, d}
    <3>1. Questioned(open, p.pending) => Questioned(open2, p.pending)
      <4> SUFFICES ASSUME NEW k \in DOMAIN open, IsOverwrite(open[k], p.pending) PROVE Questioned(open2, p.pending)
        BY DEF Questioned
      <4>1. 1 + k \in DOMAIN open2 /\ open2[1 + k] = open[k] BY <1>9
      <4> QED BY <4>1 DEF Questioned
    <3>2. Wanting(W1, "home") => Wanting(W2, "home") BY <1>1 DEF Wanting
    <3> QED BY <1>2, <1>5, <2>2, <3>1, <3>2 DEF Offered, Expected, SameShown
  <2> QED BY <2>1, <2>2
<1>12. OffersTrue(q, open2, W2, A, held)
  <2> SUFFICES ASSUME NEW i \in DOMAIN open2, IsOverwrite(open2[i], q.pending), q.pending \notin q.asked
               PROVE  open2[i].listed = Held(held, q.pending) \/ q.raced \/ Coming(q, W2, A) BY DEF OffersTrue
  <2>1. CASE i = 1 BY <1>2, <1>9, <2>1, <1>5, <1>7 DEF IsOverwrite, SameShown, Offered
  <2>2. CASE i # 1
    <3>1. PICK k \in DOMAIN open : open2[i] = open[k] BY <1>10, <2>2
    <3>2. p.pending # d BY <1>2, <3>1 DEF Questioned, SameShown
    <3>3. p.pending # NoDir BY <1>9, <3>1, <1>2, DirAssumption DEF Dialogs, IsOverwrite, SameShown
    <3>4. OffersTrue(p, open, W1, A, held) BY <1>5, <3>2, <3>3 DEF Offered
    <3> QED BY <1>2, <1>7, <3>1, <3>4 DEF OffersTrue, SameShown
  <2> QED BY <2>1, <2>2
<1> QED BY <1>6, <1>8, <1>11, <1>12 DEF Now, Good, W2, open2

\* Without one the rows are what was listed.
Done(p, d, listed, free) ==
    [ShowRows(Sent(p, d, free), d, listed) EXCEPT !.raced = @ \/ (d = p.pending /\ d \in p.asked)]

\* The end of the check keeps the shape of the panel,
LEMMA DoneProper ==
    ASSUME NEW p \in Panels, Shaped(p), NEW d \in Dirs, NEW listed \in SUBSET Names,
           NEW free \in SUBSET Names, connected \/ free = {}, NEW q, q = Done(p, d, listed, free)
    PROVE  Proper(p, q)
<1> DEFINE r == Sent(p, d, free)  s == ShowRows(r, d, listed)
<1>1. Proper(p, r) BY SentProper
<1>2. Proper(r, s) BY <1>1, ShowRowsProper DEF Proper
<1>3. q = [s EXCEPT !.raced = @ \/ (d = p.pending /\ d \in p.asked)] BY DEF Done
<1> HIDE DEF r, s
<1>4. Proper(s, q)
  <2>1. s \in Panels /\ Shaped(s) BY <1>2 DEF Proper
  <2> DEFINE b == s.raced \/ (d = p.pending /\ d \in p.asked)
  <2>2. q = [s EXCEPT !.raced = b] /\ b \in BOOLEAN BY <1>3
  <2> HIDE DEF b
  <2> QED BY <2>1, <2>2 DEF Proper, Panels, Shaped
<1> QED BY <1>1, <1>2, <1>4, ProperTwice

\* and what is shown is true, raced, or about to be refreshed.
LEMMA DoneGood ==
    ASSUME NEW p \in Panels, Shaped(p), NEW d \in Dirs, NEW listed \in SUBSET Names,
           NEW open \in Seq(Dialogs),
           NEW W, NEW A, NEW held, Offered(p, open, d, listed, W \cup Outs(p), A, held),
           NEW free \in SUBSET Names, connected \/ free = {}, NEW q, q = Done(p, d, listed, free)
    PROVE  Now(q, open, W, A, held)
<1> DEFINE r == Sent(p, d, free)  s == ShowRows(r, d, listed)
           W1 == W \cup Outs(p)  W2 == W \cup Outs(q)
<1>1. PChanges(p, r, {"out"}) /\ Outs(p) \subseteq Outs(r) /\ Proper(p, r) BY SentIs, SentProper
<1>2. /\ Proper(r, s)
      /\ IF d # r.pending THEN s = r
         ELSE PChanges(r, s, {"rows", "error", "stale", "pending"}) /\ s.pending = NoDir /\ s.rows = In(r.current, listed)
  BY <1>1, ShowRowsProper DEF Proper
<1>3. q = [s EXCEPT !.raced = @ \/ (d = p.pending /\ d \in p.asked)] BY DEF Done
<1>4. Offered(p, open, d, listed, W1, A, held) OBVIOUS
<1> HIDE DEF r, s
<1>5. /\ \A f \in PanelFields \ {"raced"} : q[f] = s[f]
      /\ q.raced = (s.raced \/ (d = p.pending /\ d \in p.asked)) BY <1>2, <1>3 DEF Proper, Panels, PanelFields
<1>6. /\ q.current = p.current /\ q.asked = p.asked /\ q.queue = p.queue /\ q.next = p.next /\ q.grace = p.grace
      /\ q.out = r.out
      /\ q.raced = (p.raced \/ (d = p.pending /\ d \in p.asked))
      /\ d # p.pending => q.pending = p.pending /\ q.rows = p.rows /\ q.error = p.error
      /\ d = p.pending => q.pending = NoDir /\ q.rows = In(p.current, listed)
  BY <1>1, <1>2, <1>5 DEF PChanges, PanelFields
<1>7. W1 \subseteq W2 BY <1>6, <1>1, SameOuts
<1> HIDE DEF W1, W2
<1>8. Awaited(q, W2) BY <1>4, <1>6, <1>7 DEF Offered, Awaited, Listing
<1>9. Coming(p, W1, A) => Coming(q, W2, A) BY <1>6, <1>7 DEF Coming, Wanting
<1>10. CASE d = p.pending
  <2>1. Expected(q, open, W2) BY <1>6, <1>10 DEF Expected
  <2>2. OffersTrue(q, open, W2, A, held)
    <3> SUFFICES ASSUME NEW i \in DOMAIN open, IsOverwrite(open[i], NoDir) PROVE FALSE
      BY <1>6, <1>10 DEF OffersTrue
    <3>1. open[i] \in Dialogs OBVIOUS
    <3>2. open[i].kind = "overwrite" => open[i].dir \in Dirs BY <3>1 DEF Dialogs
    <3> QED BY <3>2, DirAssumption DEF IsOverwrite
  <2>3. RowsTrue(q, W2, A, held)
    <3>1. d = p.current BY <1>10, DirAssumption DEF Shaped
    <3>2. CASE d \in p.asked BY <1>6, <1>10, <3>2 DEF RowsTrue
    <3>3. CASE d \notin p.asked BY <1>4, <1>10, <3>3, <1>6, <1>9, <3>1 DEF Offered, RowsTrue
    <3> QED BY <3>2, <3>3
  <2> QED BY <1>8, <2>1, <2>2, <2>3 DEF Now, Good, W2
<1>11. CASE d # p.pending
  <2>0. p.raced \in BOOLEAN BY DEF Panels
  <2>5. q.raced = p.raced BY <1>6, <1>11, <2>0, Zenon
  <2>1. q.pending = p.pending /\ q.rows = p.rows /\ q.error = p.error /\ q.raced = p.raced BY <1>6, <1>11, <2>5
  <2>2. RowsTrue(q, W2, A, held) BY <1>4, <1>6, <1>9, <2>1 DEF Offered, RowsTrue
  <2>3. CASE p.pending = NoDir
    <3>1. Expected(q, open, W2) BY <2>1, <2>3 DEF Expected
    <3>2. OffersTrue(q, open, W2, A, held)
      <4> SUFFICES ASSUME NEW i \in DOMAIN open, IsOverwrite(open[i], NoDir) PROVE FALSE
        BY <2>1, <2>3 DEF OffersTrue
      <4>1. open[i] \in Dialogs OBVIOUS
      <4>2. open[i].kind = "overwrite" => open[i].dir \in Dirs BY <4>1 DEF Dialogs
      <4> QED BY <4>2, DirAssumption DEF IsOverwrite
    <3> QED BY <1>8, <2>2, <3>1, <3>2 DEF Now, Good, W2
  <2>4. CASE p.pending # NoDir
    <3>1. Expected(p, open, W1) /\ OffersTrue(p, open, W1, A, held) BY <1>4, <1>11, <2>4 DEF Offered
    <3>2. Wanting(W1, "home") => Wanting(W2, "home") BY <1>7 DEF Wanting
    <3>3. Expected(q, open, W2) BY <1>6, <2>1, <3>1, <3>2 DEF Expected
    <3>4. OffersTrue(q, open, W2, A, held) BY <1>6, <1>9, <2>1, <3>1 DEF OffersTrue
    <3> QED BY <1>8, <2>2, <3>3, <3>4 DEF Now, Good, W2
  <2> QED BY <2>3, <2>4
<1> QED BY <1>10, <1>11

\* The end of a handler.

Marked(open, stale) ==
    [i \in DOMAIN open |-> IF open[i].kind = "remove" THEN [open[i] EXCEPT !.stale = @ \/ stale] ELSE open[i]]
Requested(p) == [i \in DOMAIN p.out |-> [call |-> p.out[i], gen |-> gen, host |-> target]]

\* The marking of removals whose rows are gone touches no other question.
LEMMA MarkedIs ==
    ASSUME NEW open \in Seq(Dialogs), NEW stale \in BOOLEAN, NEW m, m = Marked(open, stale)
    PROVE  /\ m \in Seq(Dialogs) /\ DOMAIN m = DOMAIN open
           /\ \A i \in DOMAIN open : /\ m[i].kind = open[i].kind
                                     /\ open[i].kind = "overwrite" => m[i] = open[i]
<1>1. DOMAIN open = 1 .. Len(open) /\ Len(open) \in Nat BY LenProperties
<1>2. ASSUME NEW x \in Dialogs
      PROVE  /\ x.kind = "remove" => [x EXCEPT !.stale = @ \/ stale] \in Dialogs
                                     /\ [x EXCEPT !.stale = @ \/ stale].kind = "remove"
  <2> SUFFICES ASSUME x.kind = "remove"
               PROVE [x EXCEPT !.stale = @ \/ stale] \in Dialogs /\ [x EXCEPT !.stale = @ \/ stale].kind = "remove"
    OBVIOUS
  <2> DEFINE Es == {E \in SUBSET Entries : IsFiniteSet(E) /\ E # {}}
  <2>1. x \in [kind : {"remove"}, entries : Es, stale : BOOLEAN] BY DEF Dialogs
  <2> HIDE DEF Es
  <2>2. [x EXCEPT !.stale = @ \/ stale] \in [kind : {"remove"}, entries : Es, stale : BOOLEAN] BY <2>1
  <2>3. [x EXCEPT !.stale = @ \/ stale].kind = "remove" BY <2>1
  <2> QED BY <2>2, <2>3 DEF Dialogs, Es
<1>3. DOMAIN m = DOMAIN open BY DEF Marked
<1>4. \A i \in DOMAIN open : open[i] \in Dialogs OBVIOUS
<1>5. ASSUME NEW i \in DOMAIN open
      PROVE  m[i] \in Dialogs /\ m[i].kind = open[i].kind /\ (open[i].kind = "overwrite" => m[i] = open[i])
  BY <1>2, <1>4 DEF Marked
<1>6. m \in [1 .. Len(open) -> Dialogs] BY <1>1, <1>5 DEF Marked
<1> QED BY <1>1, <1>3, <1>5, <1>6, SeqDef

\* So the offers of the upload questions stay.
LEMMA MarkedOffers ==
    ASSUME NEW open \in Seq(Dialogs), NEW stale \in BOOLEAN, NEW d, NEW p, NEW q, Apart(p, open), q.uploads \subseteq p.uploads
    PROVE  OffersAlike(open, Marked(open, stale), d) /\ Apart(q, Marked(open, stale))
<1> DEFINE m == Marked(open, stale)
<1>1. /\ m \in Seq(Dialogs) /\ DOMAIN m = DOMAIN open
      /\ \A i \in DOMAIN open : m[i].kind = open[i].kind /\ (open[i].kind = "overwrite" => m[i] = open[i])
  BY MarkedIs
<1> HIDE DEF m
<1>2. OffersAlike(open, m, d) BY <1>1 DEF OffersAlike, Questioned, IsOverwrite
<1>3. Apart(q, m) BY <1>1 DEF Apart
<1> QED BY <1>2, <1>3 DEF m

\* The question that was answered is gone.
LEMMA RestOffers ==
    ASSUME NEW open \in Seq(Dialogs), open # <<>>, NEW d, NEW p, Apart(p, open)
    PROVE  /\ Tail(open) \in Seq(Dialogs) /\ Apart(p, Tail(open))
           /\ ~IsOverwrite(Head(open), d) => OffersAlike(open, Tail(open), d)
           /\ IsOverwrite(Head(open), d) => ~Questioned(Tail(open), d) /\ \A e \in p.uploads : e[1] # d
           /\ OffersAlike(open, Tail(open), d) \/ IsOverwrite(Head(open), d)
<1> DEFINE n == Len(open)  t == Tail(open)  h == Head(open)
<1> HIDE DEF n, t, h
<1>1. /\ n \in Nat \ {0} /\ DOMAIN open = 1 .. n /\ h = open[1]
      /\ t \in Seq(Dialogs) /\ DOMAIN t = 1 .. n - 1 /\ \A i \in 1 .. n - 1 : t[i] = open[i + 1]
  BY FirstAndRest DEF n, t, h
<1>2. \A i \in DOMAIN t : i + 1 \in DOMAIN open /\ t[i] = open[i + 1] /\ i + 1 # 1 BY <1>1
<1>3. \A i \in DOMAIN open : i = 1 \/ (i - 1 \in DOMAIN t /\ t[i - 1] = open[i]) BY <1>1
<1>4. Apart(p, t)
  <2>1. ASSUME NEW i \in DOMAIN t, NEW k \in DOMAIN t,
               t[i].kind = "overwrite" /\ t[k].kind = "overwrite" /\ t[i].dir = t[k].dir
        PROVE  i = k
    <3>1. i + 1 = k + 1 BY <1>2, <2>1 DEF Apart
    <3>2. i \in Nat /\ k \in Nat BY <1>1
    <3> QED BY <3>1, <3>2
  <2>2. \A i \in DOMAIN t : t[i].kind = "overwrite" => \A e \in p.uploads : e[1] # t[i].dir BY <1>2 DEF Apart
  <2> QED BY <2>1, <2>2 DEF Apart
<1>5. ASSUME ~IsOverwrite(h, d) PROVE OffersAlike(open, t, d)
  <2>1. ASSUME NEW i \in DOMAIN open, IsOverwrite(open[i], d) PROVE Questioned(t, d)
    BY <1>1, <1>5, <2>1, <1>3 DEF Questioned
  <2>2. ASSUME NEW i \in DOMAIN t, IsOverwrite(t[i], d)
        PROVE  \E k \in DOMAIN open : IsOverwrite(open[k], d) /\ open[k].listed = t[i].listed BY <1>2, <2>2
  <2> QED BY <2>1, <2>2 DEF OffersAlike, Questioned
<1>6. ASSUME IsOverwrite(h, d) PROVE ~Questioned(t, d) /\ \A e \in p.uploads : e[1] # d
  <2>1. 1 \in DOMAIN open /\ open[1].kind = "overwrite" /\ open[1].dir = d BY <1>1, <1>6 DEF IsOverwrite
  <2>2. ASSUME NEW i \in DOMAIN t, IsOverwrite(t[i], d) PROVE FALSE BY <1>2, <2>2, <2>1 DEF IsOverwrite, Apart
  <2> QED BY <2>1, <2>2 DEF Questioned, Apart
<1> QED BY <1>1, <1>4, <1>5, <1>6 DEF t, h

\* The requests of a handler, as calls of the session.
LEMMA RequestedIs ==
    ASSUME NEW p, p.out \in Seq(Wishes), gen \in Gens, target \in Hosts
    PROVE  /\ Requested(p) \in Seq(PanelCalls)
           /\ \A i \in DOMAIN Requested(p) : LET c == Requested(p)[i] IN c.gen = gen /\ c.host = target /\ c.call \in Wishes
           /\ Given(Requested(p)) = Outs(p)
           /\ p.out = <<>> => Requested(p) = <<>>
<1> DEFINE r == Requested(p)
<1>1. DOMAIN p.out = 1 .. Len(p.out) /\ Len(p.out) \in Nat BY LenProperties
<1>2. DOMAIN r = DOMAIN p.out BY DEF Requested
<1>3. ASSUME NEW i \in DOMAIN p.out
      PROVE  r[i] \in PanelCalls /\ r[i].gen = gen /\ r[i].host = target /\ r[i].call = p.out[i] /\ r[i].call \in Wishes
  BY DEF Requested, PanelCalls
<1>4. r \in Seq(PanelCalls)
  <2>1. r = [i \in 1 .. Len(p.out) |-> r[i]] BY <1>1 DEF Requested
  <2>2. r \in [1 .. Len(p.out) -> PanelCalls] BY <1>1, <1>3, <2>1
  <2> QED BY <1>1, <2>2, SeqDef
<1>5. Given(r) = Outs(p) BY <1>2, <1>3 DEF Given, Outs
<1>6. p.out = <<>> => r = <<>>
  <2> HAVE p.out = <<>>
  <2>1. Len(p.out) = 0 OBVIOUS
  <2>2. DOMAIN r = {} BY <1>1, <1>2, <2>1
  <2> QED BY <1>4, <2>2, EmptySeq, LenProperties
<1> QED BY <1>2, <1>3, <1>4, <1>5, <1>6

\* The requests and answers of two queues in a row.
LEMMA GivenJoined ==
    ASSUME NEW V, NEW q \in Seq(V), NEW r \in Seq(V)
    PROVE  Given(q \o r) = Given(q) \cup Given(r)
<1> DEFINE m == Len(q)  n == Len(r)  s == q \o r
<1> HIDE DEF m, n, s
<1>1. /\ m \in Nat /\ n \in Nat /\ DOMAIN q = 1 .. m /\ DOMAIN r = 1 .. n /\ DOMAIN s = 1 .. m + n
      /\ (\A i \in 1 .. m : s[i] = q[i]) /\ \A i \in 1 .. n : s[m + i] = r[i] BY BothParts DEF m, n, s
<1>2. \A i \in DOMAIN q : i \in DOMAIN s /\ s[i] = q[i] BY <1>1
<1>3. \A i \in DOMAIN r : m + i \in DOMAIN s /\ s[m + i] = r[i] BY <1>1
<1>4. ASSUME NEW i \in DOMAIN s
      PROVE  (i \in DOMAIN q /\ s[i] = q[i]) \/ \E k \in DOMAIN r : s[i] = r[k]
  <2>1. CASE i <= m BY <1>1, <2>1
  <2>2. CASE i > m
    <3>1. i - m \in DOMAIN r /\ m + (i - m) = i BY <1>1, <2>2
    <3>2. s[i] = r[i - m] BY <1>3, <3>1
    <3> QED BY <3>1, <3>2
  <2>3. i \in 1 .. m + n /\ m \in Nat /\ n \in Nat BY <1>1
  <2>4. i <= m \/ i > m BY <2>3
  <2> QED BY <2>1, <2>2, <2>4
<1>5. Given(q) \subseteq Given(s) BY <1>2 DEF Given
<1>6. Given(r) \subseteq Given(s)
  <2> SUFFICES ASSUME NEW i \in DOMAIN r, r[i].gen = gen PROVE r[i].call \in Given(s) BY DEF Given
  <2>1. m + i \in DOMAIN s /\ s[m + i] = r[i] BY <1>3
  <2> QED BY <2>1 DEF Given
<1>7. Given(s) \subseteq Given(q) \cup Given(r)
  <2> SUFFICES ASSUME NEW i \in DOMAIN s, s[i].gen = gen PROVE s[i].call \in Given(q) \cup Given(r) BY DEF Given
  <2>1. CASE i \in DOMAIN q /\ s[i] = q[i] BY <2>1 DEF Given
  <2>2. CASE \E k \in DOMAIN r : s[i] = r[k]
    <3>1. PICK k \in DOMAIN r : s[i] = r[k] BY <2>2
    <3> QED BY <3>1 DEF Given
  <2> QED BY <1>4, <2>1, <2>2
<1> QED BY <1>5, <1>6, <1>7 DEF s

\* The first of a queue is taken: what is given loses at most it.
LEMMA GivenTaken ==
    ASSUME NEW V, NEW q \in Seq(V), q # <<>>
    PROVE  /\ Given(Tail(q)) \subseteq Given(q)
           /\ Given(q) \subseteq Given(Tail(q)) \cup {Head(q).call}
           /\ Head(q).gen # gen => Given(Tail(q)) = Given(q)
<1> DEFINE n == Len(q)  h == Head(q)  t == Tail(q)
<1> HIDE DEF n, h, t
<1>1. /\ n \in Nat \ {0} /\ DOMAIN q = 1 .. n /\ h = q[1]
      /\ DOMAIN t = 1 .. n - 1 /\ \A i \in 1 .. n - 1 : t[i] = q[i + 1] BY FirstAndRest DEF n, h, t
<1>2. \A i \in DOMAIN t : i + 1 \in DOMAIN q /\ t[i] = q[i + 1] BY <1>1
<1>3. \A i \in DOMAIN q : i = 1 \/ (i - 1 \in DOMAIN t /\ t[i - 1] = q[i]) BY <1>1
<1>4. Given(t) \subseteq Given(q) BY <1>2 DEF Given
<1>5. ASSUME NEW i \in DOMAIN q, q[i].gen = gen PROVE q[i].call \in Given(t) \/ (q[i].call = h.call /\ h.gen = gen)
  <2>1. CASE i = 1 BY <1>1, <1>5, <2>1
  <2>2. CASE i # 1 BY <1>3, <2>2, <1>5 DEF Given
  <2> QED BY <2>1, <2>2
<1> QED BY <1>4, <1>5 DEF Given, t, h

\* What a single event gives.
LEMMA GivenOne ==
    ASSUME NEW a
    PROVE  Given(<<a>>) = IF a.gen = gen THEN {a.call} ELSE {}
BY DEF Given

\* The order of the session.

\* Requests of a connected session.
LEMMA TurnsAsk ==
    ASSUME NEW cs \in Seq(PanelCalls), NEW rs, NEW S, NEW T, TurnsOf(cs, rs, S), gen \in Nat,
           NEW new \in Seq(PanelCalls), connected,
           \A i \in DOMAIN new : new[i].gen = gen /\ new[i].host = target /\ new[i].call \in Wishes
    PROVE  TurnsOf(cs \o new, rs, T)
<1>1. \A i \in DOMAIN new : new[i].call \notin Turns BY WishKinds
<1>2. /\ NoneOf(new, LaterThan(gen)) /\ NoneOf(new, OpensOf(gen)) /\ NoneOf(new, ForeignTo(gen))
      /\ NoneOf(new, ElsewhereThan(gen, target))
  BY <1>1 DEF NoneOf, LaterThan, OpensOf, ForeignTo, ElsewhereThan
<1>3. NoneOf(new, ConnectsOf(gen)) BY WishKinds DEF NoneOf, ConnectsOf, Ops
<1>4. ~Begun(cs, rs) BY DEF TurnsOf
<1>5. NoneOf(cs, ConnectsOf(gen)) BY <1>4 DEF Begun
<1>6. NoneOf(cs \o new, ConnectsOf(gen)) BY <1>3, <1>5, JoinNone
<1>7. ~Begun(cs \o new, rs) BY <1>4, <1>6 DEF Begun
<1>8. Ordered(new, OpensOf(gen), ForeignTo(gen)) BY <1>2, NoneFollowed
<1>9. Ordered(cs \o new, OpensOf(gen), ForeignTo(gen)) BY <1>2, <1>8, JoinOrdered DEF TurnsOf
<1>10. /\ NoneOf(cs \o new, LaterThan(gen)) /\ NoneOf(cs \o new, ForeignTo(gen))
       /\ NoneOf(cs \o new, ElsewhereThan(gen, target)) BY <1>2, JoinNone DEF TurnsOf
<1> QED BY <1>7, <1>9, <1>10 DEF TurnsOf

\* A report that is taken and does not change the session.
LEMMA TurnsTake ==
    ASSUME NEW cs, NEW rs \in Seq(PanelReports), rs # <<>>, NEW S, NEW T, T \subseteq S, TurnsOf(cs, rs, S),
           Head(rs) \notin NewsOf(gen, "up") \cup NewsOf(gen, "down")
    PROVE  TurnsOf(cs, Tail(rs), T)
<1> DEFINE t == Tail(rs)  up == NewsOf(gen, "up")  down == NewsOf(gen, "down")
<1>1. /\ NoneOf(rs, LaterNews(gen)) /\ Ordered(rs, up, up) /\ (Followed(rs, up, down) \/ Linked)
      /\ connected => NoneOf(rs, up) /\ (Linked \/ ~NoneOf(rs, down)) BY DEF TurnsOf
<1>2. NoneOf(t, LaterNews(gen)) BY <1>1, TakeNone
<1>3. Ordered(t, up, up) BY <1>1, TakeOrdered
<1>4. Followed(t, up, down) \/ Linked BY <1>1, TakeFollowed
<1>5. (NoneOf(t, up) <=> NoneOf(rs, up)) /\ (NoneOf(t, down) <=> NoneOf(rs, down)) BY TakeNone
<1>6. NoneOf(rs, AnswersOf(gen)) => NoneOf(t, AnswersOf(gen)) BY TakeNone
<1> HIDE DEF t
<1>7. Begun(cs, t) <=> Begun(cs, rs) BY <1>5 DEF Begun
<1> HIDE DEF up, down
<1>8. /\ connected \/ ~NoneOf(t, up) => NoneOf(cs, ForeignTo(gen))
      /\ Begun(cs, t) => /\ ~connected /\ T = {} /\ NoneOf(cs, AsksOf(gen))
                         /\ NoneOf(t, AnswersOf(gen)) /\ \A c \in deferred : c.gen # gen
  BY <1>5, <1>6, <1>7 DEF TurnsOf, up
<1> QED BY <1>1, <1>2, <1>3, <1>4, <1>5, <1>8 DEF TurnsOf, t, up, down

\* What a handler that asks nothing leaves behind.
LEMMA TurnsLess ==
    ASSUME NEW cs, NEW rs, NEW S, NEW T, T \subseteq S, TurnsOf(cs, rs, S)
    PROVE  TurnsOf(cs, rs, T) BY DEF TurnsOf

\* The listings that come.

\* A report is taken: the listings behind it are as true as before.
LEMMA ListingsTaken ==
    ASSUME NEW rs \in Seq(PanelReports), rs # <<>>, NEW held, ListingsTrue(rs, held)
    PROVE  /\ ListingsTrue(Tail(rs), held)
           /\ \A d \in Dirs : Head(rs) \in OldListings(d, held) => ~NoneOf(Tail(rs), Refreshers(d))
  BY TakeFollowed DEF ListingsTrue

\* An answer joins: a directory it changes is refreshed behind its old listings.
LEMMA ListingsAdded ==
    ASSUME NEW rs \in Seq(PanelReports), NEW a \in PanelReports, NEW held, NEW held2, ListingsTrue(rs, held),
           \A d \in Dirs : Held(held2, d) = Held(held, d) \/ a \in Refreshers(d),
           \A d \in Dirs : a \notin OldListings(d, held2)
    PROVE  ListingsTrue(rs \o <<a>>, held2)
<1> SUFFICES ASSUME NEW d \in Dirs PROVE Followed(rs \o <<a>>, OldListings(d, held2), Refreshers(d))
  BY DEF ListingsTrue
<1>1. Followed(rs, OldListings(d, held2), Refreshers(d)) \/ a \in Refreshers(d)
  <2>1. CASE Held(held2, d) = Held(held, d) BY <2>1 DEF OldListings, ListingsTrue
  <2> QED BY <2>1
<1> QED BY <1>1, AddFollowed

\* A listing that is not followed by the answer to a change is what the
\* server has.
LEMMA ListingIsTrue ==
    ASSUME NEW rs \in Seq(PanelReports), rs # <<>>, NEW held, ListingsTrue(rs, held),
           Head(rs).gen = gen, Head(rs).call.op = "list", Head(rs).call.ok, Head(rs).call.dir \in Dirs
    PROVE  \/ Head(rs).call.listed = Held(held, Head(rs).call.dir)
           \/ \E x \in Given(Tail(rs)) : Refreshes(x, Head(rs).call.dir)
<1> DEFINE h == Head(rs)  t == Tail(rs)  d == h.call.dir
<1>1. h \in PanelReports BY FirstAndRest
<1>2. \A e \in Dirs : h \in OldListings(e, held) => ~NoneOf(t, Refreshers(e)) BY ListingsTaken
<1> HIDE DEF h, t
<1> SUFFICES ASSUME h.call.listed # Held(held, d) PROVE \E x \in Given(t) : Refreshes(x, d) BY DEF h, t
<1>3. h.gen = gen /\ h.call.op = "list" /\ h.call.ok /\ d \in Dirs BY DEF h
<1>4. h \in OldListings(d, held) BY <1>1, <1>3 DEF OldListings
<1>5. ~NoneOf(t, Refreshers(d)) BY <1>2, <1>3, <1>4
<1>6. PICK k \in DOMAIN t : t[k] \in Refreshers(d) BY <1>5 DEF NoneOf
<1>7. t[k].gen = gen /\ Refreshes(t[k].call, d) BY <1>6 DEF Refreshers
<1> QED BY <1>7 DEF Given

\* The handlers as steps.

Taking(rs) ==
    \/ rs = reports
    \/ reports # <<>> /\ rs = Tail(reports) /\ Head(reports).gen = gen /\ Head(reports).call \in Results
Handled(q, open, rs) ==
    /\ q \in Panels /\ Shaped(q) /\ open \in Seq(Dialogs) /\ Apart(q, open)
    /\ connected \/ (q.out = <<>> /\ q.asked \subseteq panel.asked)
    /\ Live => Now(q, open, Under(rs), Given(rs), panelDisk[target])

\* The order of the session after a step that leaves session and worker.
LEMMA TurnsSame ==
    ASSUME UNCHANGED <<session, worker>>, TurnsOf(calls', reports', panel'.asked)
    PROVE  InTurns'
BY DEF session, worker, Linked, Begun, InTurns, TurnsOf

\* What queues give depends on the generation alone.
LEMMA GivenNext ==
    ASSUME gen' = gen
    PROVE  Given(calls)' = Given(calls') /\ Given(reports)' = Given(reports') BY DEF Given

\* The end of a handler keeps the shapes.
LEMMA CommitTypes ==
    ASSUME NEW q \in Panels, Shaped(q), NEW open \in Seq(Dialogs), Commit(q, open)
    PROVE  /\ PaneTypes' /\ PChanges(q, panel', {"out", "stale"}) /\ Outs(panel') = {}
           /\ calls' = calls \o Requested(q) /\ dialogs' = Marked(open, q.stale) /\ q.stale \in BOOLEAN
<1>1. /\ panel' = [q EXCEPT !.out = <<>>, !.stale = FALSE]
      /\ calls' = calls \o Requested(q) /\ dialogs' = Marked(open, q.stale)
  BY Zenon DEF Commit, Requested, Marked
<1>2. <<>> \in Seq(Wishes) BY EmptySeq
<1>3. panel' \in Panels /\ panel'.out = <<>> BY <1>1, <1>2 DEF Panels
<1>4. PChanges(q, panel', {"out", "stale"}) BY <1>1, <1>3 DEF PChanges, PanelFields, Panels
<1>5. Shaped(panel') BY <1>4 DEF PChanges, PanelFields, Shaped
<1>6. q.stale \in BOOLEAN BY DEF Panels
<1>7. dialogs' \in Seq(Dialogs) BY <1>1, <1>6, MarkedIs
<1>8. Shaped(panel)' BY <1>5 DEF Shaped
<1>9. Outs(panel') = {} BY <1>3 DEF Outs
<1> QED BY <1>1, <1>3, <1>4, <1>6, <1>7, <1>8, <1>9 DEF PaneTypes

\* A handler that keeps the promises keeps the invariant.
LEMMA Commits ==
    ASSUME PanelInv, NEW q, NEW open, Commit(q, open), Handled(q, open, reports'), Taking(reports'),
           UNCHANGED <<session, worker, panelDisk>>, clicks' \in 0 .. MaxClicks, faults' \in 0 .. MaxFaults
    PROVE  PanelInv'
<1> USE DEF PanelInv, PanelTypes
<1>1. q \in Panels /\ Shaped(q) /\ open \in Seq(Dialogs) /\ Apart(q, open) BY DEF Handled
<1>2. /\ PaneTypes' /\ PChanges(q, panel', {"out", "stale"}) /\ Outs(panel') = {}
      /\ calls' = calls \o Requested(q) /\ dialogs' = Marked(open, q.stale) /\ q.stale \in BOOLEAN
  BY <1>1, CommitTypes
<1>3. calls \in Seq(PanelCalls) /\ reports \in Seq(PanelReports) /\ gen \in Gens /\ target \in Hosts
  BY DEF BaseTypes, QueueTypes
<1>4. /\ Requested(q) \in Seq(PanelCalls) /\ Given(Requested(q)) = Outs(q) /\ (q.out = <<>> => Requested(q) = <<>>)
      /\ \A i \in DOMAIN Requested(q) : Requested(q)[i].gen = gen /\ Requested(q)[i].host = target
                                        /\ Requested(q)[i].call \in Wishes BY <1>1, <1>3, RequestedIs DEF Panels
<1>5. BaseTypes' BY DEF BaseTypes, session, worker
<1>6. reports' \in Seq(PanelReports) BY <1>3, FirstAndRest DEF Taking
<1>7. QueueTypes' BY <1>2, <1>3, <1>4, <1>6, BothParts DEF worker, QueueTypes
<1>8. panel'.asked = q.asked /\ panel'.uploads = q.uploads BY <1>2 DEF PChanges, PanelFields
<1>9. InTurns'
  <2>1. TurnsOf(calls', reports, panel'.asked)
    <3>1. TurnsOf(calls, reports, panel.asked) BY DEF InTurns
    <3>2. CASE connected BY <1>3, <1>2, <1>4, <3>1, <3>2, TurnsAsk DEF Gens
    <3>3. CASE ~connected
      <4>1. Requested(q) = <<>> /\ q.asked \subseteq panel.asked BY <1>4, <3>3 DEF Handled
      <4>2. calls' = calls BY <1>2, <1>3, <4>1
      <4> QED BY <1>8, <3>1, <4>1, <4>2, TurnsLess
    <3> QED BY <3>2, <3>3
  <2>2. TurnsOf(calls', reports', panel'.asked)
    <3>1. CASE reports' = reports BY <2>1, <3>1
    <3>2. CASE reports # <<>> /\ reports' = Tail(reports) /\ Head(reports).gen = gen /\ Head(reports).call \in Results
      BY <3>2, <1>3, <2>1, ResultKinds, TurnsTake DEF NewsOf, Ops
    <3> QED BY <3>1, <3>2 DEF Taking
  <2> QED BY <2>2, TurnsSame
<1>10. Apart(panel', dialogs') BY <1>8, <1>1, <1>2, MarkedOffers
<1>11. Fresh'
  <2>1. gen' = gen /\ panelDisk'[target'] = panelDisk[target] /\ deferred' = deferred /\ (Live' <=> Live)
    BY DEF session, worker, Live, Linked
  <2> SUFFICES ASSUME Live
               PROVE  /\ Good(panel', dialogs', Given(calls') \cup PutOff' \cup Given(reports'), Given(reports'), panelDisk[target])
                      /\ ListingsTrue(reports, panelDisk[target])' BY <2>1, GivenNext DEF Fresh, Under
  <2>2. PutOff' = PutOff BY <2>1 DEF PutOff
  <2>3. Given(calls') = Given(calls) \cup Outs(q) BY <1>2, <1>3, <1>4, GivenJoined
  <2> DEFINE A == Given(reports')  W1 == (Given(calls) \cup PutOff \cup A) \cup Outs(q)
             W2 == Given(calls') \cup PutOff' \cup A  held == panelDisk[target]
  <2>4. Good(q, open, W1, A, held) BY DEF Handled, Now, Under
  <2>5. W2 = W1 BY <2>2, <2>3
  <2>6. ListingsTrue(reports', held) BY <1>3, ListingsTaken DEF Fresh, Taking
  <2> HIDE DEF A, W1, W2, held
  <2>7. SameShown(q, panel') /\ Keeps(q, panel') /\ panel'.asked = q.asked
    BY <1>2 DEF PChanges, PanelFields, SameShown, Keeps
  <2>8. Awaited(panel', W1) BY <2>4, <2>7 DEF Good, Awaited
  <2>9. OffersAlike(open, dialogs', q.pending) BY <1>1, <1>2, MarkedOffers
  <2>10. W1 \subseteq W1 OBVIOUS
  <2>11. Good(panel', dialogs', W1, A, held) BY <2>4, <2>7, <2>8, <2>9, <2>10, GoodMore
  <2>12. ListingsTrue(reports, panelDisk[target])' <=> ListingsTrue(reports', held)
    BY <2>1 DEF ListingsTrue, OldListings, Refreshers, held
  <2> QED BY <2>5, <2>6, <2>11, <2>12 DEF W2, A, held
<1>12. Apart(panel, dialogs)' BY <1>10 DEF Apart
<1> QED BY <1>2, <1>5, <1>7, <1>9, <1>11, <1>12

\* What the invariant says of the panel.
LEMMA PanelFacts ==
    ASSUME PanelInv
    PROVE  /\ connected \in BOOLEAN /\ gen \in Gens /\ gen \in Nat /\ target \in Hosts /\ panelDisk[target] \in SUBSET Entries
           /\ panel \in Panels /\ Shaped(panel) /\ panel.out = <<>> /\ panel.current \in Dirs
           /\ dialogs \in Seq(Dialogs) /\ Apart(panel, dialogs)
           /\ calls \in Seq(PanelCalls) /\ reports \in Seq(PanelReports)
           /\ Outs(panel) = {}
           /\ Live => /\ Good(panel, dialogs, Under(reports), Given(reports), panelDisk[target])
                      /\ Now(panel, dialogs, Under(reports), Given(reports), panelDisk[target])
                      /\ Awaited(panel, Under(reports) \cup Outs(panel))
<1> USE DEF PanelInv, PanelTypes, BaseTypes, PaneTypes, QueueTypes
<1>1. gen \in Nat BY DEF Gens
<1>2. panel.current \in Dirs BY DEF Panels
<1>3. Outs(panel) = {} BY DEF Outs
<1>4. Under(reports) \cup Outs(panel) = Under(reports) BY <1>3
<1>5. Live => Good(panel, dialogs, Under(reports), Given(reports), panelDisk[target]) BY DEF Fresh
<1>6. panelDisk[target] \in SUBSET Entries OBVIOUS
<1>7. Live => Awaited(panel, Under(reports)) BY <1>5 DEF Good
<1> QED BY <1>1, <1>2, <1>3, <1>4, <1>5, <1>6, <1>7 DEF Now

\* The counter of the bound stays within it.
LEMMA Counted ==
    ASSUME PanelInv, Act \/ UNCHANGED clicks
    PROVE  clicks' \in 0 .. MaxClicks BY BoundAssumption DEF PanelInv, PanelTypes, BaseTypes, Act

\* A handler of the user, or of a timer.
LEMMA UserCommits ==
    ASSUME PanelInv, NEW q, NEW open, Commit(q, open), Still, Act \/ UNCHANGED clicks, Handled(q, open, reports)
    PROVE  PanelInv'
BY Counted, Commits DEF Still, PanelInv, PanelTypes, BaseTypes, Taking

\* A handler of an answer.
LEMMA ReportCommits ==
    ASSUME PanelInv, NEW q, NEW open, Commit(q, open), NEW op, op \notin {"up", "down"}, Handles(op),
           Handled(q, open, Tail(reports))
    PROVE  PanelInv'
<1>1. /\ reports # <<>> /\ reports' = Tail(reports) /\ Head(reports).gen = gen /\ Head(reports).call.op = op
      /\ UNCHANGED <<session, worker, panelDisk>> /\ clicks' = clicks /\ faults' = faults
  BY DEF Handles, NextReport
<1>2. clicks' \in 0 .. MaxClicks /\ faults' \in 0 .. MaxFaults BY <1>1 DEF PanelInv, PanelTypes, BaseTypes
<1>3. Head(reports) \in PanelReports BY <1>1, PanelFacts, FirstAndRest
<1>4. Head(reports).call \in Results BY <1>1, <1>3 DEF PanelReports, Changes
<1>5. Taking(reports') /\ Handled(q, open, reports') BY <1>1, <1>4 DEF Taking
<1> QED BY <1>1, <1>2, <1>5, Commits

\* What a handler has to show for its panel.
LEMMA HandledBy ==
    ASSUME PanelInv, NEW p, p.out = <<>>, p.asked \subseteq panel.asked, p.uploads \subseteq panel.uploads,
           NEW q, Proper(p, q), NEW open \in Seq(Dialogs), Apart(panel, open), NEW rs,
           Live => Now(q, open, Under(rs), Given(rs), panelDisk[target])
    PROVE  Handled(q, open, rs)
BY DEF Proper, Apart, Handled

\* The panel itself is a proper outcome.
LEMMA SameProper ==
    ASSUME PanelInv
    PROVE  Proper(panel, panel) BY PanelFacts DEF Proper

\* What the user does.

\* A directory is opened.
LEMMA StepNavigate ==
    ASSUME PanelInv, NEW d \in Dirs, Navigate(d) \/ FollowTerminal(d)
    PROVE  PanelInv'
<1> DEFINE q == NavigateTo(panel, d)
<1>1. Act /\ connected /\ Commit(q, dialogs) /\ Still BY DEF Navigate, FollowTerminal, PanelUser, Simply
<1>2. Proper(panel, q) BY PanelFacts, NavigateProper
<1>3. Live => Now(q, dialogs, Under(reports), Given(reports), panelDisk[target])
  BY <1>1, PanelFacts, NavigateGood
<1> HIDE DEF q
<1>4. Handled(q, dialogs, reports) BY <1>2, <1>3, PanelFacts, HandledBy
<1> QED BY <1>1, <1>4, UserCommits

\* A node of the tree is expanded.
LEMMA StepExpand ==
    ASSUME PanelInv, NEW d \in Dirs, Expand(d)
    PROVE  PanelInv'
<1> DEFINE q == List(panel, d)
<1>1. Act /\ connected /\ Commit(q, dialogs) /\ Still BY DEF Expand, PanelUser, Simply
<1>2. Proper(panel, q) BY PanelFacts, ListProper
<1>3. Live => Now(q, dialogs, Under(reports), Given(reports), panelDisk[target]) BY <1>1, PanelFacts, ListGood
<1> HIDE DEF q
<1>4. Handled(q, dialogs, reports) BY <1>2, <1>3, PanelFacts, HandledBy
<1> QED BY <1>1, <1>4, UserCommits

\* Files are dropped: they wait for the listing of their directory.
LEMMA StepDropFiles ==
    ASSUME PanelInv, NEW d \in Dirs, NEW names \in SUBSET Names, DropFiles(names, d)
    PROVE  PanelInv'
<1> DEFINE p == [panel EXCEPT !.uploads = @ \cup In(d, names)]  q == List(p, d)
<1>1. Act /\ connected /\ dialogs = <<>> /\ Commit(q, dialogs) /\ Still BY DEF DropFiles, PanelUser, Simply
<1>2. In(d, names) \in SUBSET Entries BY DEF In, Entries
<1>3. p \in Panels /\ PChanges(panel, p, {"uploads"}) BY <1>2, PanelFacts DEF Panels, PChanges, PanelFields
<1> HIDE DEF p
<1>4. Shaped(p) /\ SameShown(panel, p) /\ Keeps(panel, p) /\ p.asked = panel.asked /\ p.out = panel.out
  BY <1>3, PanelFacts DEF PChanges, PanelFields, Shaped, SameShown, Keeps
<1>5. Proper(p, q) BY <1>3, <1>4, PanelFacts, ListProper
<1>6. Live => Now(q, dialogs, Under(reports), Given(reports), panelDisk[target])
  <2> HAVE Live
  <2> DEFINE W == Under(reports)  A == Given(reports)  held == panelDisk[target]
  <2>1. Good(panel, dialogs, W, A, held) BY PanelFacts
  <2>2. Outs(p) = {} BY <1>4, PanelFacts, SameOuts
  <2> HIDE DEF W, A, held
  <2>3. Awaited(p, W) BY <1>4, <2>1 DEF Good, Awaited
  <2>4. W \subseteq W OBVIOUS
  <2>5. Good(p, dialogs, W, A, held) BY <1>4, <2>1, <2>3, <2>4, GoodMore, SameOffers
  <2>6. W = W \cup Outs(p) BY <2>2
  <2>7. Now(p, dialogs, W, A, held) BY <2>5, <2>6 DEF Now
  <2>8. Now(q, dialogs, W, A, held) BY <1>1, <1>3, <1>4, <2>7, ListGood
  <2> QED BY <2>8 DEF W, A, held
<1> HIDE DEF q
<1>7. Handled(q, dialogs, reports) BY <1>1, <1>5, <1>6, PanelFacts DEF Apart, Handled, Proper
<1> QED BY <1>1, <1>7, UserCommits

\* A question is shown.
LEMMA OpenQuestion ==
    ASSUME PanelInv, dialogs = <<>>, NEW dlg \in Dialogs, dlg.kind # "overwrite"
    PROVE  Handled(panel, <<dlg>>, reports)
<1> DEFINE open == <<dlg>>
<1>1. open \in Seq(Dialogs) /\ DOMAIN open = {1} /\ open[1] = dlg /\ DOMAIN <<>> = {} OBVIOUS
<1> HIDE DEF open
<1>2. Apart(panel, open) BY <1>1 DEF Apart
<1>3. ASSUME NEW d PROVE OffersAlike(dialogs, open, d) BY <1>1 DEF OffersAlike, Questioned, IsOverwrite
<1>4. Live => Now(panel, open, Under(reports), Given(reports), panelDisk[target])
  <2> HAVE Live
  <2> DEFINE W == Under(reports) \cup Outs(panel)  A == Given(reports)  held == panelDisk[target]
  <2>1. Good(panel, dialogs, W, A, held) /\ Awaited(panel, W) BY PanelFacts DEF Now
  <2>2. SameShown(panel, panel) /\ Keeps(panel, panel) /\ W \subseteq W BY DEF SameShown, Keeps
  <2> HIDE DEF W, A, held
  <2>3. Good(panel, open, W, A, held) BY <1>3, <2>1, <2>2, GoodMore
  <2> QED BY <2>3 DEF Now, W, A, held
<1>5. Handled(panel, open, reports) BY <1>1, <1>2, <1>4, PanelFacts, SameProper, HandledBy
<1> QED BY <1>5 DEF open

\* A question is asked about a name, removal or permissions.
LEMMA StepQuestions ==
    ASSUME PanelInv,
           \/ AskName
           \/ \E entries \in SUBSET panel.rows : AskRemove(entries)
           \/ \E e \in panel.rows : AskPermissions(e)
    PROVE  PanelInv'
<1>1. ASSUME NEW dlg \in Dialogs, dlg.kind # "overwrite", PanelUser, Commit(panel, <<dlg>>), Still
      PROVE  PanelInv' BY <1>1, OpenQuestion, UserCommits DEF PanelUser
<1>2. CASE AskName
  <2>1. [kind |-> "create"] \in Dialogs BY DEF Dialogs
  <2> DEFINE dlg == [kind |-> "create"]
  <2>2. dlg.kind # "overwrite" OBVIOUS
  <2>3. dlg \in Dialogs /\ PanelUser /\ Commit(panel, <<dlg>>) /\ Still BY <1>2, <2>1 DEF AskName
  <2> HIDE DEF dlg
  <2> QED BY <1>1, <2>2, <2>3
<1>3. CASE \E entries \in SUBSET panel.rows : AskRemove(entries)
  <2>1. PICK entries \in SUBSET panel.rows : AskRemove(entries) BY <1>3
  <2>2. panel.rows \subseteq In(panel.current, Names) /\ panel.rows \subseteq Entries
    BY PanelFacts DEF Shaped, Panels
  <2>3. IsFiniteSet(entries) BY <2>2, FiniteRows
  <2> DEFINE dlg == [kind |-> "remove", entries |-> entries, stale |-> FALSE]
  <2>4. dlg \in Dialogs BY <2>1, <2>2, <2>3 DEF Dialogs, AskRemove
  <2>5. dlg.kind # "overwrite" OBVIOUS
  <2>6. PanelUser /\ Commit(panel, <<dlg>>) /\ Still BY <2>1 DEF AskRemove
  <2> HIDE DEF dlg
  <2> QED BY <1>1, <2>4, <2>5, <2>6
<1>4. CASE \E e \in panel.rows : AskPermissions(e)
  <2>1. PICK e \in panel.rows : AskPermissions(e) BY <1>4
  <2>2. e \in Entries BY PanelFacts DEF Panels
  <2> DEFINE dlg == [kind |-> "permissions", entry |-> e]
  <2>3. dlg \in Dialogs BY <2>2 DEF Dialogs
  <2>4. dlg.kind # "overwrite" OBVIOUS
  <2>5. PanelUser /\ Commit(panel, <<dlg>>) /\ Still BY <2>1 DEF AskPermissions
  <2> HIDE DEF dlg
  <2> QED BY <1>1, <2>3, <2>4, <2>5
<1> QED BY <1>2, <1>3, <1>4

\* An entry is renamed.
LEMMA StepRename ==
    ASSUME PanelInv, NEW e \in panel.rows, NEW n \in Names, Rename(e, n)
    PROVE  PanelInv'
<1> DEFINE x == [op |-> "rename", entry |-> e, to |-> <<panel.current, n>>]  q == Mutate(panel, x)
<1>1. Act /\ connected /\ Commit(q, dialogs) /\ Still BY DEF Rename, PanelUser, Simply, CanMutate
<1>2. x \in Wishes BY PanelFacts DEF Panels, Entries, Wishes, Renamings
<1> HIDE DEF x
<1>3. Proper(panel, q) BY <1>2, PanelFacts, MutateProper
<1>4. Live => Now(q, dialogs, Under(reports), Given(reports), panelDisk[target])
  BY <1>1, <1>2, PanelFacts, MutateGood
<1> HIDE DEF q
<1>5. Handled(q, dialogs, reports) BY <1>3, <1>4, PanelFacts, HandledBy
<1> QED BY <1>1, <1>5, UserCommits

\* The editor writes a file that is listed.
LEMMA StepEditorSaves ==
    ASSUME PanelInv, NEW e \in panel.rows, EditorSaves(e)
    PROVE  PanelInv'
<1> DEFINE x == [op |-> "write", entry |-> e, fresh |-> FALSE]  q == Out(panel, x)
<1>1. Act /\ connected /\ Commit(q, dialogs) /\ Still BY DEF EditorSaves, Simply
<1>2. x \in Wishes BY PanelFacts DEF Panels, Wishes, Makings
<1> HIDE DEF x
<1>3. Proper(panel, q) BY <1>1, <1>2, PanelFacts, OperationProper DEF Operation
<1>4. Live => Now(q, dialogs, Under(reports), Given(reports), panelDisk[target]) BY <1>2, PanelFacts, OutGood
<1> HIDE DEF q
<1>5. Handled(q, dialogs, reports) BY <1>3, <1>4, PanelFacts, HandledBy
<1> QED BY <1>1, <1>5, UserCommits

\* The answers.

\* What the answer to a question other than an upload's leaves promised.
LEMMA AnswerFacts ==
    ASSUME PanelInv, dialogs # <<>>, Top.kind # "overwrite"
    PROVE  /\ Tail(dialogs) \in Seq(Dialogs) /\ Apart(panel, Tail(dialogs)) /\ Top \in Dialogs
           /\ Live => Now(panel, Tail(dialogs), Under(reports), Given(reports), panelDisk[target])
<1>1. dialogs \in Seq(Dialogs) /\ Apart(panel, dialogs) BY PanelFacts
<1>2. ASSUME NEW d PROVE OffersAlike(dialogs, Tail(dialogs), d) BY <1>1, RestOffers DEF IsOverwrite, Top
<1>3. Tail(dialogs) \in Seq(Dialogs) /\ Apart(panel, Tail(dialogs)) BY <1>1, RestOffers
<1>4. Top \in Dialogs BY <1>1, FirstAndRest DEF Top
<1>5. Live => Now(panel, Tail(dialogs), Under(reports), Given(reports), panelDisk[target])
  <2> HAVE Live
  <2> DEFINE W == Under(reports) \cup Outs(panel)  A == Given(reports)  held == panelDisk[target]  open == Tail(dialogs)
  <2>1. Good(panel, dialogs, W, A, held) /\ Awaited(panel, W) BY PanelFacts DEF Now
  <2>2. SameShown(panel, panel) /\ Keeps(panel, panel) /\ W \subseteq W BY DEF SameShown, Keeps
  <2>3. OffersAlike(dialogs, open, panel.pending) BY <1>2
  <2> HIDE DEF W, A, held, open
  <2>4. Good(panel, open, W, A, held) BY <2>1, <2>2, <2>3, GoodMore
  <2> QED BY <2>4 DEF Now, W, A, held, open
<1> QED BY <1>3, <1>4, <1>5

\* A question is refused.
LEMMA StepRefuse ==
    ASSUME PanelInv, Refuse
    PROVE  PanelInv'
BY AnswerFacts, PanelFacts, SameProper, HandledBy, UserCommits DEF Refuse, OnTop

\* A change that the user has confirmed.
LEMMA MutateCommits ==
    ASSUME PanelInv, dialogs # <<>>, Top.kind # "overwrite", UNCHANGED clicks, NEW x \in Wishes,
           Commit(Mutate(panel, x), Tail(dialogs)), Still
    PROVE  PanelInv'
<1> DEFINE q == Mutate(panel, x)
<1>1. Proper(panel, q) BY PanelFacts, MutateProper
<1>2. Live => Now(q, Tail(dialogs), Under(reports), Given(reports), panelDisk[target])
  <2> HAVE Live
  <2>1. connected BY DEF Live
  <2>2. Now(panel, Tail(dialogs), Under(reports), Given(reports), panelDisk[target]) BY AnswerFacts
  <2> QED BY <2>1, <2>2, PanelFacts, MutateGood
<1>3. Commit(q, Tail(dialogs)) OBVIOUS
<1> HIDE DEF q
<1>4. Handled(q, Tail(dialogs), reports) BY <1>1, <1>2, AnswerFacts, PanelFacts, HandledBy
<1> QED BY <1>3, <1>4, UserCommits

\* A file or directory is made.
LEMMA StepCreate ==
    ASSUME PanelInv, NEW n \in Names, NEW op \in {"write", "mkdir"}, Create(n, op)
    PROVE  PanelInv'
<1> DEFINE x == [op |-> op, entry |-> <<panel.current, n>>, fresh |-> TRUE]
<1>1. x \in Wishes BY PanelFacts DEF Entries, Wishes, Makings
<1>2. /\ dialogs # <<>> /\ Top.kind # "overwrite" /\ UNCHANGED clicks
      /\ Commit(Mutate(panel, x), Tail(dialogs)) /\ Still BY DEF Create, OnTop
<1> HIDE DEF x
<1> QED BY <1>1, <1>2, MutateCommits

\* Permissions are set.
LEMMA StepSetPermissions ==
    ASSUME PanelInv, SetPermissions
    PROVE  PanelInv'
<1> DEFINE x == [op |-> "chmod", entry |-> Top.entry]
<1>1. /\ dialogs # <<>> /\ Top.kind = "permissions" /\ UNCHANGED clicks
      /\ Commit(Mutate(panel, x), Tail(dialogs)) /\ Still BY DEF SetPermissions, OnTop
<1>2. x \in Wishes BY <1>1, AnswerFacts DEF Dialogs, Wishes, Others
<1> HIDE DEF x
<1>3. Top.kind # "overwrite" BY <1>1
<1> QED BY <1>1, <1>2, <1>3, MutateCommits

\* Nothing happens.
LEMMA PanelStill ==
    ASSUME PanelInv, UNCHANGED <<session, worker, calls, reports, panelDisk, panel, dialogs, clicks, faults>>
    PROVE  PanelInv'
<1>1. /\ connected' = connected /\ target' = target /\ gen' = gen /\ link' = link /\ deferred' = deferred
      /\ calls' = calls /\ reports' = reports /\ panelDisk' = panelDisk /\ panel' = panel /\ dialogs' = dialogs
      /\ clicks' = clicks /\ faults' = faults BY DEF session, worker
<1>2. PanelTypes' BY <1>1 DEF PanelInv, PanelTypes, BaseTypes, QueueTypes, PaneTypes, Shaped
<1>3. InTurns' BY <1>1, TurnsSame DEF PanelInv, InTurns
<1>4. Apart(panel, dialogs)' BY <1>1 DEF PanelInv, Apart
<1>5. Fresh'
  <2>1. (Live' <=> Live) /\ PutOff' = PutOff BY <1>1 DEF Live, Linked, PutOff
  <2>2. Under(reports)' = Under(reports) /\ Given(reports)' = Given(reports) BY <1>1, <2>1 DEF Under, Given
  <2>3. ListingsTrue(reports, panelDisk[target])' <=> ListingsTrue(reports, panelDisk[target])
    BY <1>1 DEF ListingsTrue, OldListings, Refreshers
  <2> QED BY <1>1, <2>1, <2>2, <2>3 DEF PanelInv, Fresh
<1> QED BY <1>2, <1>3, <1>4, <1>5 DEF PanelInv

\* The removals begin, with whatever entries are read from the rows.
LEMMA StepRemoveSelected ==
    ASSUME PanelInv, RemoveSelected
    PROVE  PanelInv'
<1>1. /\ dialogs # <<>> /\ Top.kind = "remove" /\ UNCHANGED clicks
      /\ UNCHANGED <<session, worker, reports, panelDisk, faults>> BY DEF RemoveSelected, OnTop
<1>2. CASE UNCHANGED <<panel, calls, dialogs>> BY <1>1, <1>2, PanelStill
<1>3. CASE /\ UNCHANGED died
           /\ \E read \in {Top.entries} \cup (SUBSET panel.rows \ {{}}) :
                 \E s \in Orders(read) : Commit(StartBatch(panel, s), Tail(dialogs))
  <2>0. PICK read \in {Top.entries} \cup (SUBSET panel.rows \ {{}}) :
              \E s \in Orders(read) : Commit(StartBatch(panel, s), Tail(dialogs)) BY <1>3
  <2>1. PICK s \in Orders(read) : Commit(StartBatch(panel, s), Tail(dialogs)) BY <2>0
  <2>2. read \in SUBSET Entries /\ IsFiniteSet(read)
    <3>1. CASE read = Top.entries BY <1>1, <3>1, AnswerFacts DEF Dialogs
    <3>2. CASE read \in SUBSET panel.rows BY <3>2, PanelFacts, FiniteRows DEF Shaped, Panels
    <3> QED BY <3>1, <3>2
  <2>3. s \in Seq(Entries) BY <2>2, OrdersAre
  <2> DEFINE q == StartBatch(panel, s)
  <2>4. Proper(panel, q) BY <2>3, PanelFacts, BatchProper
  <2>5. Live => Now(q, Tail(dialogs), Under(reports), Given(reports), panelDisk[target])
    <3> HAVE Live
    <3>1. connected BY DEF Live
    <3>2. Now(panel, Tail(dialogs), Under(reports), Given(reports), panelDisk[target]) BY <1>1, AnswerFacts
    <3> QED BY <2>3, <3>1, <3>2, PanelFacts, BatchGood
  <2>6. Commit(q, Tail(dialogs)) BY <2>1
  <2> HIDE DEF q
  <2>7. Handled(q, Tail(dialogs), reports) BY <1>1, <2>4, <2>5, AnswerFacts, PanelFacts, HandledBy
  <2>8. Still BY <1>1, <1>3 DEF Still
  <2> QED BY <1>1, <2>6, <2>7, <2>8, UserCommits
<1>4. \/ UNCHANGED <<panel, calls, dialogs>>
      \/ /\ UNCHANGED died
         /\ \E read \in {Top.entries} \cup (SUBSET panel.rows \ {{}}) :
               \E s \in Orders(read) : Commit(StartBatch(panel, s), Tail(dialogs)) BY Zenon DEF RemoveSelected
<1> QED BY <1>2, <1>3, <1>4

\* The check of the uploads.

\* A new question is about a directory that no other is about.
LEMMA ApartMore ==
    ASSUME NEW p, NEW q, q.uploads \subseteq p.uploads, NEW open \in Seq(Dialogs), Apart(p, open),
           NEW dlg \in Dialogs, NEW d, dlg.kind = "overwrite", dlg.dir = d, ~Questioned(open, d), \A e \in p.uploads : e[1] # d
    PROVE  <<dlg>> \o open \in Seq(Dialogs) /\ Apart(q, <<dlg>> \o open)
<1> DEFINE n == Len(open)  open2 == <<dlg>> \o open
<1>1. <<dlg>> \in Seq(Dialogs) /\ Len(<<dlg>>) = 1 /\ <<dlg>>[1] = dlg /\ 1 \in 1 .. 1 OBVIOUS
<1>2. /\ open2 \in Seq(Dialogs) /\ DOMAIN open = 1 .. n /\ n \in Nat /\ DOMAIN open2 = 1 .. 1 + n
      /\ open2[1] = dlg /\ \A i \in 1 .. n : open2[1 + i] = open[i] BY <1>1, BothParts
<1> HIDE DEF n, open2
<1>3. \A i \in DOMAIN open2 : i = 1 \/ (i - 1 \in DOMAIN open /\ open2[i] = open[i - 1])
  <2> TAKE i \in DOMAIN open2
  <2>1. i = 1 \/ (i - 1 \in 1 .. n /\ 1 + (i - 1) = i) BY <1>2
  <2> QED BY <1>2, <2>1
<1>4. ASSUME NEW i \in DOMAIN open2, open2[i].kind = "overwrite", i # 1
      PROVE  i - 1 \in DOMAIN open /\ open[i - 1].kind = "overwrite" /\ open2[i] = open[i - 1] /\ open2[i].dir # d
  BY <1>3, <1>4 DEF Questioned, IsOverwrite
<1>5. ASSUME NEW i \in DOMAIN open2, NEW k \in DOMAIN open2,
             open2[i].kind = "overwrite" /\ open2[k].kind = "overwrite" /\ open2[i].dir = open2[k].dir
      PROVE  i = k
  <2>1. CASE i = 1 /\ k = 1 BY <2>1
  <2>2. CASE i = 1 /\ k # 1 BY <1>2, <1>4, <1>5, <2>2
  <2>3. CASE i # 1 /\ k = 1 BY <1>2, <1>4, <1>5, <2>3
  <2>4. CASE i # 1 /\ k # 1
    <3>1. i - 1 = k - 1 BY <1>4, <1>5, <2>4 DEF Apart
    <3>2. i \in Nat /\ k \in Nat BY <1>2
    <3> QED BY <3>1, <3>2
  <2> QED BY <2>1, <2>2, <2>3, <2>4
<1>6. ASSUME NEW i \in DOMAIN open2, open2[i].kind = "overwrite", NEW e \in q.uploads PROVE e[1] # open2[i].dir
  <2>1. CASE i = 1 BY <1>2, <2>1
  <2>2. CASE i # 1 BY <1>4, <1>6, <2>2 DEF Apart
  <2> QED BY <2>1, <2>2
<1>7. Apart(q, open2) BY <1>5, <1>6 DEF Apart
<1> QED BY <1>2, <1>7 DEF open2

\* The check of the uploads goes on, or ends, as a handler that keeps the promises.
LEMMA ContinueHandled ==
    ASSUME PanelInv, NEW p \in Panels, Shaped(p), p.uploads \subseteq panel.uploads, p.asked \subseteq panel.asked,
           connected \/ p.out = <<>>, NEW d \in Dirs, NEW listed \in SUBSET Names, NEW left \in SUBSET Names,
           NEW open \in Seq(Dialogs), Apart(p, open), ~Questioned(open, d), \A e \in p.uploads : e[1] # d,
           NEW rs, Live => Offered(p, open, d, listed, Under(rs) \cup Outs(p), Given(rs), panelDisk[target]),
           Continue(p, d, listed, left, open)
    PROVE  \E q, open2 : Commit(q, open2) /\ Handled(q, open2, rs)
<1> DEFINE clash == left \cap listed  free == IF connected THEN left \ listed ELSE {}
           dlg == [kind |-> "overwrite", dir |-> d, listed |-> listed,
                   name |-> CHOOSE n \in clash : TRUE, left |-> clash]
<1>1. \/ connected /\ clash # {} /\ Commit(Sent(p, d, free), <<dlg>> \o open)
      \/ ~(connected /\ clash # {}) /\ Commit(Done(p, d, listed, free), open) BY DEF Continue, Sent, Done
<1>2. free \in SUBSET Names /\ (connected \/ free = {}) /\ connected \in BOOLEAN BY PanelFacts
<1>3. clash # {} => dlg \in Dialogs
  <2> HAVE clash # {}
  <2>1. (CHOOSE n \in clash : TRUE) \in Names /\ clash \in SUBSET Names OBVIOUS
  <2> DEFINE c == CHOOSE n \in clash : TRUE
  <2>2. dlg = [kind |-> "overwrite", dir |-> d, listed |-> listed, name |-> c, left |-> clash] OBVIOUS
  <2>3. c \in Names BY <2>1
  <2> HIDE DEF c, clash
  <2> QED BY <2>1, <2>2, <2>3 DEF Dialogs
<1>4. dlg.kind = "overwrite" /\ dlg.dir = d /\ dlg.listed = listed OBVIOUS
<1> HIDE DEF clash, free, dlg
<1>5. CASE connected /\ clash # {} /\ Commit(Sent(p, d, free), <<dlg>> \o open)
  <2> DEFINE q == Sent(p, d, free)  open2 == <<dlg>> \o open
  <2>1. dlg \in Dialogs BY <1>3, <1>5
  <2>2. Proper(p, q) BY <1>2, SentProper
  <2>3. q \in Panels /\ Shaped(q) /\ q.uploads \subseteq p.uploads BY <2>2 DEF Proper
  <2>4. open2 \in Seq(Dialogs) /\ Apart(q, open2) BY <1>4, <2>1, <2>3, ApartMore
  <2>5. Live => Now(q, open2, Under(rs), Given(rs), panelDisk[target])
    <3> HAVE Live
    <3> DEFINE W == Under(rs)  A == Given(rs)  held == panelDisk[target]
    <3>1. Offered(p, open, d, listed, W \cup Outs(p), A, held) OBVIOUS
    <3> HIDE DEF W, A, held
    <3>2. Now(q, open2, W, A, held) BY <1>2, <1>4, <2>1, <3>1, AskGood
    <3> QED BY <3>2 DEF W, A, held
  <2>6. Commit(q, open2) BY <1>5
  <2> HIDE DEF q, open2
  <2>7. Handled(q, open2, rs) BY <1>5, <2>3, <2>4, <2>5 DEF Handled
  <2> QED BY <2>6, <2>7
<1>6. CASE ~(connected /\ clash # {}) /\ Commit(Done(p, d, listed, free), open)
  <2> DEFINE q == Done(p, d, listed, free)
  <2>1. Proper(p, q) BY <1>2, DoneProper
  <2>2. q \in Panels /\ Shaped(q) /\ q.uploads \subseteq p.uploads BY <2>1 DEF Proper
  <2>3. Live => Now(q, open, Under(rs), Given(rs), panelDisk[target])
    <3> HAVE Live
    <3> DEFINE W == Under(rs)  A == Given(rs)  held == panelDisk[target]
    <3>1. Offered(p, open, d, listed, W \cup Outs(p), A, held) OBVIOUS
    <3> HIDE DEF W, A, held
    <3>2. Now(q, open, W, A, held) BY <1>2, <3>1, DoneGood
    <3> QED BY <3>2 DEF W, A, held
  <2>4. Commit(q, open) BY <1>6
  <2> HIDE DEF q
  <2>5. Apart(q, open) BY <2>2 DEF Apart
  <2>6. connected \/ (q.out = <<>> /\ q.asked \subseteq panel.asked) BY <2>1 DEF Proper
  <2>7. Handled(q, open, rs) BY <2>2, <2>3, <2>5, <2>6 DEF Handled
  <2> QED BY <2>4, <2>7
<1> QED BY <1>1, <1>5, <1>6

\* The answer about one of the names.
LEMMA OverwriteCommits ==
    ASSUME PanelInv, dialogs # <<>>, Top.kind = "overwrite", UNCHANGED clicks, Still,
           NEW p, NEW left \in SUBSET Names, p = panel \/ (connected /\ p = Out(panel, [op |-> "upload", entry |-> <<Top.dir, Top.name>>])),
           Continue(p, Top.dir, Top.listed, left, Tail(dialogs))
    PROVE  PanelInv'
<1> DEFINE d == Top.dir  listed == Top.listed  open == Tail(dialogs)  x == [op |-> "upload", entry |-> <<d, Top.name>>]
<1>1. dialogs \in Seq(Dialogs) /\ Apart(panel, dialogs) /\ panel \in Panels /\ Shaped(panel) BY PanelFacts
<1>2. Top \in Dialogs /\ d \in Dirs /\ listed \in SUBSET Names /\ Top.name \in Names
  BY <1>1, FirstAndRest DEF Top, Dialogs
<1>3. IsOverwrite(Head(dialogs), d) BY DEF IsOverwrite, Top
<1>4. open \in Seq(Dialogs) /\ Apart(panel, open) /\ ~Questioned(open, d) /\ \A e \in panel.uploads : e[1] # d
  BY <1>1, <1>3, RestOffers
<1>5. ASSUME NEW e, e # d PROVE OffersAlike(dialogs, open, e) BY <1>3, <1>5, <1>1, RestOffers DEF IsOverwrite
<1>6. x \in Wishes BY <1>2 DEF Entries, Wishes, Others
<1>7. p \in Panels /\ Shaped(p) /\ PChanges(panel, p, {"out"}) /\ Outs(panel) \subseteq Outs(p) /\ (connected \/ p.out = <<>>)
  <2>1. CASE p = panel BY <2>1, PanelFacts DEF PChanges
  <2>2. CASE connected /\ p = Out(panel, x) BY <1>1, <1>6, <2>2, OutIs DEF PChanges, PanelFields, Shaped
  <2> QED BY <2>1, <2>2
<1>8. /\ p.uploads = panel.uploads /\ p.asked = panel.asked /\ p.pending = panel.pending /\ p.current = panel.current
      /\ p.rows = panel.rows /\ p.error = panel.error /\ p.raced = panel.raced
      /\ p.queue = panel.queue /\ p.next = panel.next /\ p.grace = panel.grace BY <1>7 DEF PChanges, PanelFields
<1>9. Live => Offered(p, open, d, listed, Under(reports) \cup Outs(p), Given(reports), panelDisk[target])
  <2> HAVE Live
  <2> DEFINE W == Under(reports)  W2 == W \cup Outs(p)  A == Given(reports)  held == panelDisk[target]
  <2>1. Good(panel, dialogs, W, A, held) BY PanelFacts
  <2>2. W \subseteq W2 OBVIOUS
  <2> HIDE DEF W, W2, A, held
  <2>3. Awaited(p, W2) BY <1>8, <2>1, <2>2 DEF Good, Awaited, Listing
  <2>4. Coming(panel, W, A) => Coming(p, W2, A) BY <1>8, <2>2 DEF Coming, Wanting
  <2>5. RowsTrue(p, W2, A, held) BY <1>8, <2>1, <2>4 DEF Good, RowsTrue
  <2>6. p.pending \notin {NoDir, d} => Expected(p, open, W2) /\ OffersTrue(p, open, W2, A, held)
    <3> HAVE p.pending \notin {NoDir, d}
    <3>1. OffersAlike(dialogs, open, panel.pending) BY <1>5, <1>8
    <3>2. SameShown(panel, p) /\ Keeps(panel, p) /\ (panel.pending \in panel.asked => panel.pending \in p.asked)
      BY <1>8 DEF SameShown, Keeps
    <3>3. Good(p, open, W2, A, held) BY <2>1, <2>2, <2>3, <3>1, <3>2, GoodMore
    <3> QED BY <3>3 DEF Good
  <2>7. p.pending = d /\ d \notin p.asked => listed = Held(held, d) \/ p.raced \/ Coming(p, W2, A)
    <3> HAVE p.pending = d /\ d \notin p.asked
    <3>1. 1 \in DOMAIN dialogs /\ dialogs[1] = Top BY <1>1, FirstAndRest DEF Top
    <3>2. IsOverwrite(dialogs[1], panel.pending) /\ panel.pending \notin panel.asked /\ dialogs[1].listed = listed
      BY <1>3, <1>8, <3>1 DEF Top
    <3>3. listed = Held(held, d) \/ panel.raced \/ Coming(panel, W, A)
      BY <1>8, <2>1, <3>1, <3>2 DEF Good, OffersTrue
    <3> QED BY <1>8, <2>4, <3>3
  <2> QED BY <2>3, <2>5, <2>6, <2>7 DEF Offered, W, W2, A, held
<1>10. Continue(p, d, listed, left, open) OBVIOUS
<1> HIDE DEF d, listed, open, x
<1>11. p.uploads \subseteq panel.uploads /\ p.asked \subseteq panel.asked BY <1>8
<1>12. Apart(p, open) /\ \A e \in p.uploads : e[1] # d BY <1>4, <1>8 DEF Apart
<1>13. \E q, open2 : Commit(q, open2) /\ Handled(q, open2, reports)
  BY <1>2, <1>4, <1>7, <1>9, <1>10, <1>11, <1>12, ContinueHandled
<1>14. PICK q, open2 : Commit(q, open2) /\ Handled(q, open2, reports) BY <1>13
<1> QED BY <1>14, UserCommits

\* A question about an upload is answered or given up.
LEMMA StepOverwrite ==
    ASSUME PanelInv, (\E yes \in BOOLEAN : Overwrite(yes)) \/ CancelUploads
    PROVE  PanelInv'
<1>1. CASE CancelUploads BY <1>1, OverwriteCommits DEF CancelUploads, OnTop
<1>2. CASE \E yes \in BOOLEAN : Overwrite(yes)
  <2>1. PICK yes \in BOOLEAN : Overwrite(yes) BY <1>2
  <2> DEFINE p == IF yes /\ connected
                  THEN Out(panel, [op |-> "upload", entry |-> <<Top.dir, Top.name>>]) ELSE panel
             left == Top.left \ {Top.name}
  <2>2. /\ dialogs # <<>> /\ Top.kind = "overwrite" /\ UNCHANGED clicks /\ Still
        /\ Continue(p, Top.dir, Top.listed, left, Tail(dialogs)) BY <2>1 DEF Overwrite, OnTop
  <2>3. p = panel \/ (connected /\ p = Out(panel, [op |-> "upload", entry |-> <<Top.dir, Top.name>>])) OBVIOUS
  <2>4. left \in SUBSET Names BY <2>2, PanelFacts, FirstAndRest DEF Top, Dialogs
  <2> HIDE DEF p, left
  <2> QED BY <2>2, <2>3, <2>4, OverwriteCommits
<1> QED BY <1>1, <1>2

\* Reports and timers.

\* What is under way loses at most the answer that is taken.
LEMMA UnderTaken ==
    ASSUME PanelInv, NEW op, Handles(op)
    PROVE  /\ reports # <<>> /\ Head(reports).gen = gen /\ Answer.op = op
           /\ Head(reports) \in PanelReports /\ (op \notin {"up", "down"} => Answer \in Results)
           /\ Under(reports) \subseteq Under(Tail(reports)) \cup {Answer}
           /\ Given(reports) \subseteq Given(Tail(reports)) \cup {Answer}
<1>1. reports # <<>> /\ Head(reports).gen = gen /\ Answer.op = op BY DEF Handles, NextReport, Answer
<1>2. reports \in Seq(PanelReports) BY PanelFacts
<1>3. Head(reports) \in PanelReports BY <1>1, <1>2, FirstAndRest
<1>4. op \notin {"up", "down"} => Answer \in Results BY <1>1, <1>3 DEF PanelReports, Changes, Answer
<1>5. Given(reports) \subseteq Given(Tail(reports)) \cup {Answer} BY <1>1, <1>2, GivenTaken DEF Answer
<1>6. Under(reports) \subseteq Under(Tail(reports)) \cup {Answer} BY <1>5 DEF Under
<1> QED BY <1>1, <1>3, <1>4, <1>5, <1>6

\* What a listing that has come offers.
LEMMA ListedOffered ==
    ASSUME PanelInv, Handles("list"), Live, Answer.ok,
           NEW p \in Panels, PChanges(panel, p, {"asked", "uploads"}), p.asked = panel.asked \ {Answer.dir}
    PROVE  Offered(p, dialogs, Answer.dir, Answer.listed, Under(Tail(reports)) \cup Outs(p),
                   Given(Tail(reports)), panelDisk[target])
<1> DEFINE x == Answer  d == x.dir  W == Under(reports)  W2 == Under(Tail(reports)) \cup Outs(p)
           A == Given(reports)  A2 == Given(Tail(reports))  held == panelDisk[target]  X == {x}
<1>1. /\ reports # <<>> /\ Head(reports).gen = gen /\ x.op = "list" /\ x \in Results
      /\ W \subseteq W2 \cup X /\ A \subseteq A2 \cup X BY UnderTaken
<1>2. Good(panel, dialogs, W, A, held) /\ panel \in Panels /\ Shaped(panel) /\ reports \in Seq(PanelReports)
  BY PanelFacts
<1>3. d \in Dirs /\ x.listed \in SUBSET Names BY <1>1, ResultKinds
<1>4. \A y \in X : Harmless(panel, y) BY <1>1 DEF Harmless, Refreshes, Ops
<1>5. x.listed = Held(held, d) \/ \E y \in A2 : Refreshes(y, d)
  BY <1>1, <1>2, <1>3, ListingIsTrue DEF PanelInv, Fresh, Answer
<1>6. \A y \in X : y = x OBVIOUS
<1>7. p.asked = panel.asked \ {d} OBVIOUS
<1> HIDE DEF d, W, W2, A, A2, held, X
<1>8. SameShown(panel, p) /\ Keeps(panel, p) BY DEF PChanges, PanelFields, SameShown, Keeps
<1>9. Awaited(p, W2)
  <2>1. Awaited(panel, W) BY <1>2 DEF Good
  <2>2. p.asked \subseteq panel.asked BY <1>7
  <2>3. \A y \in X : y.op = "list" => y.dir \notin p.asked BY <1>6, <1>7 DEF d
  <2> QED BY <1>1, <2>1, <2>2, <2>3, AwaitedStays
<1>10. Coming(panel, W, A) => Coming(p, W2, A2)
  <2>1. p.current = panel.current /\ Keeps(panel, p) BY <1>8 DEF SameShown
  <2> QED BY <1>1, <1>4, <2>1, ComingStays
<1>11. p.pending \notin {NoDir, d} => Expected(p, dialogs, W2) /\ OffersTrue(p, dialogs, W2, A2, held)
  <2> HAVE p.pending \notin {NoDir, d}
  <2>1. panel.pending \in panel.asked => panel.pending \in p.asked BY <1>7, <1>8 DEF SameShown
  <2>3. OffersAlike(dialogs, dialogs, panel.pending) BY SameOffers
  <2>4. Good(panel, dialogs, W, A, held) BY <1>2
  <2>5. W \subseteq W2 \cup X /\ A \subseteq A2 \cup X BY <1>1
  <2>2. Good(p, dialogs, W2, A2, held) BY <1>4, <1>8, <1>9, <2>1, <2>3, <2>4, <2>5, GoodStays
  <2> QED BY <2>2 DEF Good
<1>12. RowsTrue(p, W2, A2, held) BY <1>2, <1>8, <1>10 DEF Good, RowsTrue, SameShown
<1>13. p.pending = d => x.listed = Held(held, d) \/ Coming(p, W2, A2)
  <2> HAVE p.pending = d
  <2>1. p.current = d BY <1>2, <1>3, <1>8, DirAssumption DEF Shaped, SameShown
  <2> QED BY <1>5, <2>1 DEF Coming
<1> QED BY <1>9, <1>11, <1>12, <1>13 DEF Offered, d, W2, A2, held

\* A listing that was not asked for, or that failed.
LEMMA ListedPlain ==
    ASSUME PanelInv, Handles("list"), NEW q,
           \/ Answer.dir \notin panel.asked /\ q = panel
           \/ q = ShowError([panel EXCEPT !.asked = @ \ {Answer.dir}], Answer.dir)
    PROVE  Handled(q, dialogs, Tail(reports))
<1> DEFINE x == Answer  d == x.dir  W == Under(reports)  W2 == Under(Tail(reports)) \cup Outs(q)
           A == Given(reports)  A2 == Given(Tail(reports))  held == panelDisk[target]  X == {x}
           p == [panel EXCEPT !.asked = @ \ {d}]
<1>1. x.op = "list" /\ x \in Results /\ W \subseteq W2 \cup X /\ A \subseteq A2 \cup X BY UnderTaken
<1>2. panel \in Panels /\ Shaped(panel) /\ (Live => Good(panel, dialogs, W, A, held))
      /\ panel.out = <<>> /\ dialogs \in Seq(Dialogs) /\ Apart(panel, dialogs) BY PanelFacts
<1>3. d \in Dirs BY <1>1, ResultKinds
<1>4. \A y \in X : Harmless(panel, y) BY <1>1 DEF Harmless, Refreshes, Ops
<1>5. p \in Panels /\ PChanges(panel, p, {"asked"}) /\ p.asked = panel.asked \ {d}
  BY <1>2 DEF Panels, PChanges, PanelFields
<1>6. Shaped(p) /\ p.out = <<>> /\ p.uploads = panel.uploads BY <1>2, <1>5 DEF Shaped, PChanges, PanelFields
<1>7. (d \notin panel.asked /\ q = panel) \/ q = ShowError(p, d) OBVIOUS
<1>8. \A y \in X : y = x OBVIOUS
<1> HIDE DEF d, W, W2, A, A2, held, X, p
<1>9. /\ Proper(p, q) \/ Proper(panel, q)
      /\ q.asked = panel.asked \ {d}
      /\ \/ PChanges(panel, q, {"uploads", "asked"}) /\ (d # panel.pending \/ d \notin panel.asked)
         \/ q.pending = NoDir /\ q.error
  <2>1. CASE d \notin panel.asked /\ q = panel BY <1>2, <2>1, SameProper DEF PChanges
  <2>2. CASE q = ShowError(p, d) BY <1>3, <1>5, <1>6, <2>2, ShowErrorProper DEF PChanges, PanelFields
  <2> QED BY <1>7, <2>1, <2>2
<1>10. Live => Now(q, dialogs, Under(Tail(reports)), Given(Tail(reports)), panelDisk[target])
  <2> HAVE Live
  <2>1. Awaited(q, W2)
    <3>1. Awaited(panel, W) BY <1>2 DEF Good
    <3>2. q.asked \subseteq panel.asked BY <1>9
    <3>3. \A y \in X : y.op = "list" => y.dir \notin q.asked BY <1>8, <1>9 DEF d
    <3> QED BY <1>1, <3>1, <3>2, <3>3, AwaitedStays
  <2>2. CASE q.pending = NoDir /\ q.error
    <3>1. OffersTrue(q, dialogs, W2, A2, held)
      <4> SUFFICES ASSUME NEW i \in DOMAIN dialogs, IsOverwrite(dialogs[i], NoDir) PROVE FALSE
        BY <2>2 DEF OffersTrue
      <4>1. dialogs[i] \in Dialogs BY <1>2
      <4>2. dialogs[i].kind = "overwrite" => dialogs[i].dir \in Dirs BY <4>1 DEF Dialogs
      <4> QED BY <4>2, DirAssumption DEF IsOverwrite
    <3>2. Expected(q, dialogs, W2) /\ RowsTrue(q, W2, A2, held) BY <2>2 DEF Expected, RowsTrue
    <3> QED BY <2>1, <3>1, <3>2 DEF Now, Good, W2, A2, held
  <2>3. CASE PChanges(panel, q, {"uploads", "asked"}) /\ (d # panel.pending \/ d \notin panel.asked)
    <3>1. SameShown(panel, q) /\ Keeps(panel, q) BY <2>3 DEF PChanges, PanelFields, SameShown, Keeps
    <3>2. panel.pending \in panel.asked => panel.pending \in q.asked BY <1>9, <2>3
    <3>3. Good(q, dialogs, W2, A2, held) BY <1>1, <1>2, <1>4, <2>1, <3>1, <3>2, GoodStays, SameOffers
    <3> QED BY <3>3 DEF Now, W2, A2, held
  <2> QED BY <1>9, <2>2, <2>3
<1>11. CASE Proper(panel, q) BY <1>2, <1>10, <1>11, HandledBy
<1>12. CASE Proper(p, q) BY <1>5, <1>6, <1>2, <1>10, <1>12, HandledBy
<1> QED BY <1>9, <1>11, <1>12

\* The end of a check without uploads is the listing alone.
LEMMA DoneIsShow ==
    ASSUME NEW p \in Panels, Shaped(p), NEW d \in Dirs, NEW listed \in SUBSET Names, d \notin p.asked
    PROVE  Done(p, d, listed, {}) = ShowRows(p, d, listed)
<1>1. Sent(p, d, {}) \in Panels /\ PChanges(p, Sent(p, d, {}), {"out"}) /\ Sent(p, d, {}).out = p.out BY SentIs DEF PChanges
<1>2. Sent(p, d, {}) = p BY <1>1 DEF Panels, PChanges, PanelFields
<1> DEFINE s == ShowRows(p, d, listed)
<1>3. s \in Panels BY ShowRowsProper DEF Proper
<1>4. Done(p, d, listed, {}) = [s EXCEPT !.raced = @ \/ FALSE] BY <1>2 DEF Done
<1> HIDE DEF s
<1>5. s.raced \in BOOLEAN BY <1>3 DEF Panels
<1>6. (s.raced \/ FALSE) = s.raced BY <1>5
<1>7. [s EXCEPT !.raced = s.raced] = s BY <1>3 DEF Panels
<1> QED BY <1>4, <1>6, <1>7 DEF s

\* A listing comes.
LEMMA StepListed ==
    ASSUME PanelInv, Listed
    PROVE  PanelInv'
<1> DEFINE d == Answer.dir
           p == [panel EXCEPT !.asked = @ \ {d}, !.uploads = @ \ In(d, Names)]
           left == {n \in Names : <<d, n>> \in panel.uploads}
<1>0. Handles("list") BY DEF Listed
<1>1. \/ d \notin panel.asked /\ Commit(panel, dialogs)
      \/ Commit(ShowError([panel EXCEPT !.asked = @ \ {d}], d), dialogs)
      \/ Answer.ok /\ left = {} /\ Commit(ShowRows(p, d, Answer.listed), dialogs)
      \/ Answer.ok /\ left # {} /\ Continue(p, d, Answer.listed, left, dialogs) BY Zenon DEF Listed
<1>2. Answer.op = "list" /\ Answer \in Results BY <1>0, UnderTaken
<1>3. d \in Dirs /\ Answer.listed \in SUBSET Names BY <1>2, ResultKinds
<1>4. panel \in Panels /\ Shaped(panel) /\ panel.out = <<>> /\ dialogs \in Seq(Dialogs) /\ Apart(panel, dialogs)
  BY PanelFacts
<1>5. /\ p \in Panels /\ PChanges(panel, p, {"asked", "uploads"}) /\ p.asked = panel.asked \ {d}
      /\ p.uploads = panel.uploads \ In(d, Names) BY <1>4 DEF Panels, PChanges, PanelFields
<1>6. /\ Shaped(p) /\ p.out = <<>> /\ Outs(p) = {}
      /\ p.uploads \subseteq panel.uploads /\ p.asked \subseteq panel.asked /\ d \notin p.asked
  BY <1>4, <1>5 DEF Shaped, PChanges, PanelFields, Outs
<1>7. Apart(p, dialogs) BY <1>4, <1>6 DEF Apart
<1> DEFINE rs == Tail(reports)
<1>8. Answer.ok /\ Live => Offered(p, dialogs, d, Answer.listed, Under(rs) \cup Outs(p), Given(rs), panelDisk[target])
  BY <1>0, <1>5, ListedOffered
<1> HIDE DEF p
<1>9. CASE d \notin panel.asked /\ Commit(panel, dialogs) BY <1>0, <1>9, ListedPlain, ReportCommits
<1>10. CASE Commit(ShowError([panel EXCEPT !.asked = @ \ {d}], d), dialogs)
  <2> DEFINE q == ShowError([panel EXCEPT !.asked = @ \ {d}], d)
  <2>1. Handled(q, dialogs, rs) BY <1>0, ListedPlain
  <2>2. Commit(q, dialogs) BY <1>10
  <2> HIDE DEF q
  <2> QED BY <1>0, <2>1, <2>2, ReportCommits
<1>11. CASE Answer.ok /\ left = {} /\ Commit(ShowRows(p, d, Answer.listed), dialogs)
  <2> DEFINE q == ShowRows(p, d, Answer.listed)
  <2>1. Proper(p, q) BY <1>3, <1>5, <1>6, ShowRowsProper
  <2>2. q = Done(p, d, Answer.listed, {}) BY <1>3, <1>5, <1>6, DoneIsShow
  <2>3. Live => Now(q, dialogs, Under(rs), Given(rs), panelDisk[target])
    <3> HAVE Live
    <3> DEFINE W == Under(rs)  A == Given(rs)  held == panelDisk[target]
    <3>1. Offered(p, dialogs, d, Answer.listed, W \cup Outs(p), A, held) BY <1>8, <1>11
    <3>2. connected \/ {} = {} OBVIOUS
    <3> HIDE DEF W, A, held
    <3>3. {} \in SUBSET Names OBVIOUS
    <3>4. Now(q, dialogs, W, A, held) BY <1>3, <1>4, <1>5, <1>6, <2>2, <3>1, <3>2, <3>3, DoneGood
    <3> QED BY <3>4 DEF W, A, held
  <2>4. Commit(q, dialogs) BY <1>11
  <2> HIDE DEF q
  <2>5. Handled(q, dialogs, rs) BY <1>4, <1>6, <2>1, <2>3, HandledBy
  <2> QED BY <1>0, <2>4, <2>5, ReportCommits
<1>12. CASE Answer.ok /\ left # {} /\ Continue(p, d, Answer.listed, left, dialogs)
  <2>1. PICK n \in Names : <<d, n>> \in panel.uploads BY <1>12
  <2>2. ~Questioned(dialogs, d)
    <3> SUFFICES ASSUME NEW i \in DOMAIN dialogs, IsOverwrite(dialogs[i], d) PROVE FALSE BY DEF Questioned
    <3>1. <<d, n>>[1] # dialogs[i].dir BY <1>4, <2>1 DEF Apart, IsOverwrite
    <3>2. <<d, n>>[1] = d OBVIOUS
    <3> QED BY <3>1, <3>2 DEF IsOverwrite
  <2>3. \A e \in p.uploads : e[1] # d
    <3> SUFFICES ASSUME NEW e \in panel.uploads, e[1] = d PROVE e \in In(d, Names) BY <1>5
    <3>1. e \in Dirs \X Names BY <1>4 DEF Panels, Entries
    <3> QED BY <3>1 DEF In
  <2>4. left \in SUBSET Names OBVIOUS
  <2>5. Live => Offered(p, dialogs, d, Answer.listed, Under(rs) \cup Outs(p), Given(rs), panelDisk[target])
    BY <1>8, <1>12
  <2> DEFINE listed == Answer.listed
  <2>6. Continue(p, d, listed, left, dialogs) BY <1>12
  <2>7. listed \in SUBSET Names BY <1>3
  <2>8. Live => Offered(p, dialogs, d, listed, Under(rs) \cup Outs(p), Given(rs), panelDisk[target]) BY <2>5
  <2> HIDE DEF left, d, rs, listed
  <2>9. \E q, open2 : Commit(q, open2) /\ Handled(q, open2, rs)
    BY <1>3, <1>4, <1>5, <1>6, <1>7, <2>2, <2>3, <2>4, <2>6, <2>7, <2>8, ContinueHandled
  <2>10. PICK q, open2 : Commit(q, open2) /\ Handled(q, open2, rs) BY <2>9
  <2>11. "list" \notin {"up", "down"} OBVIOUS
  <2>12. Handled(q, open2, Tail(reports)) BY <2>10 DEF rs
  <2> QED BY <1>0, <2>10, <2>11, <2>12, ReportCommits
<1> QED BY <1>1, <1>9, <1>10, <1>11, <1>12

\* The home directory comes.
LEMMA StepHomeResolved ==
    ASSUME PanelInv, HomeResolved
    PROVE  PanelInv'
<1> DEFINE r == [panel EXCEPT !.resolved = TRUE]  d == IF Answer.ok THEN Home ELSE Root  q == NavigateTo(r, d)
           rs == Tail(reports)
<1>1. Handles("home") /\ Commit(q, dialogs) BY DEF HomeResolved
<1>2. panel \in Panels /\ Shaped(panel) /\ panel.out = <<>> /\ dialogs \in Seq(Dialogs) /\ Apart(panel, dialogs)
      /\ connected \in BOOLEAN BY PanelFacts
<1>3. Answer.op = "home" /\ Under(reports) \subseteq Under(rs) \cup {Answer} BY <1>1, UnderTaken
<1>4. r \in Panels /\ PChanges(panel, r, {"mutating", "resolved"}) BY <1>2 DEF Panels, PChanges, PanelFields
<1>5. d \in Dirs BY DirAssumption
<1> HIDE DEF r, d
<1>6. r.out = <<>> /\ r.asked \subseteq panel.asked /\ r.uploads \subseteq panel.uploads
  BY <1>2, <1>4 DEF PChanges, PanelFields
<1>7. Proper(r, q) BY <1>2, <1>4, <1>5, NavigateProper
<1>8. Live => Now(q, dialogs, Under(rs), Given(rs), panelDisk[target])
  <2> HAVE Live
  <2>1. connected /\ Awaited(panel, Under(reports)) BY PanelFacts DEF Live, Good
  <2>2. Answer.op # "list" BY <1>3
  <2> QED BY <1>2, <1>3, <1>4, <1>5, <2>1, <2>2, AnswerNavigates
<1> HIDE DEF q, rs
<1>9. Handled(q, dialogs, rs) BY <1>2, <1>6, <1>7, <1>8, HandledBy
<1>10. Handled(q, dialogs, Tail(reports)) BY <1>9 DEF rs
<1> QED BY <1>1, <1>10, ReportCommits

\* The answer to a change comes.
LEMMA StepOperationEnds ==
    ASSUME PanelInv, NEW op \in Ops, OperationEnds(op)
    PROVE  PanelInv'
<1> DEFINE x == Answer  q == IF x.ok THEN OperationFinished(panel, x) ELSE OperationFailed(panel, op)
           rs == Tail(reports)
<1>1. Handles(op) /\ Commit(q, dialogs) BY DEF OperationEnds
<1>2. panel \in Panels /\ Shaped(panel) /\ panel.out = <<>> /\ dialogs \in Seq(Dialogs) /\ Apart(panel, dialogs)
      /\ connected \in BOOLEAN BY PanelFacts
<1>3. /\ x.op = op /\ Under(reports) \subseteq Under(rs) \cup {x}
      /\ Given(reports) \subseteq Given(rs) \cup {x} BY <1>1, UnderTaken
<1>4. CASE x.ok
  <2>1. q = OperationFinished(panel, x) BY <1>4
  <2> HIDE DEF q, x, rs
  <2>2. Proper(panel, q) BY <1>2, <2>1, FinishedProper
  <2>3. Live => Now(q, dialogs, Under(rs), Given(rs), panelDisk[target])
    <3> HAVE Live
    <3>1. connected /\ Good(panel, dialogs, Under(reports), Given(reports), panelDisk[target]) BY PanelFacts DEF Live
    <3> QED BY <1>2, <1>3, <2>1, <3>1, FinishedGood
  <2>4. Handled(q, dialogs, rs) BY <1>2, <2>2, <2>3, HandledBy
  <2>5. Handled(q, dialogs, Tail(reports)) /\ op \notin {"up", "down"} BY <2>4 DEF rs, Ops
  <2> QED BY <1>1, <2>5, ReportCommits
<1>5. CASE ~x.ok
  <2>1. q = OperationFailed(panel, x.op) BY <1>3, <1>5
  <2> HIDE DEF q, x, rs
  <2>2. Proper(panel, q) BY <1>2, <2>1, OperationFailedProper
  <2>3. Live => Now(q, dialogs, Under(rs), Given(rs), panelDisk[target])
    <3> HAVE Live
    <3>1. connected /\ Good(panel, dialogs, Under(reports), Given(reports), panelDisk[target]) BY PanelFacts DEF Live
    <3> QED BY <1>2, <1>3, <1>5, <2>1, <3>1, FailedGood
  <2>4. Handled(q, dialogs, rs) BY <1>2, <2>2, <2>3, HandledBy
  <2>5. Handled(q, dialogs, Tail(reports)) /\ op \notin {"up", "down"} BY <2>4 DEF rs, Ops
  <2> QED BY <1>1, <2>5, ReportCommits
<1> QED BY <1>4, <1>5

\* The timer of a batch fires.
LEMMA StepNextRemoval ==
    ASSUME PanelInv, NextRemoval
    PROVE  PanelInv'
<1> DEFINE r == [panel EXCEPT !.next = @ - 1]  q == StartNextRemoval(r)
<1>1. panel.next > 0 /\ Commit(q, dialogs) /\ Still /\ UNCHANGED clicks BY DEF NextRemoval
<1>2. panel \in Panels /\ Shaped(panel) /\ panel.out = <<>> /\ dialogs \in Seq(Dialogs) /\ Apart(panel, dialogs)
      /\ connected \in BOOLEAN BY PanelFacts
<1>3. r \in Panels /\ PChanges(panel, r, {"next"})
  <2> DEFINE n == panel.next - 1
  <2>1. n \in Nat BY <1>1, <1>2 DEF Panels
  <2>2. r = [panel EXCEPT !.next = n] OBVIOUS
  <2> HIDE DEF n
  <2> QED BY <1>2, <2>1, <2>2 DEF Panels, PChanges, PanelFields
<1> HIDE DEF r
<1>4. /\ Shaped(r) /\ r.out = panel.out /\ r.asked = panel.asked /\ r.uploads = panel.uploads
      /\ r.pending = panel.pending /\ r.grace = panel.grace BY <1>2, <1>3 DEF PChanges, PanelFields, Shaped
<1>5. Proper(r, q) BY <1>2, <1>3, <1>4, NextProper
<1>6. Live => Now(q, dialogs, Under(reports), Given(reports), panelDisk[target])
  <2> HAVE Live
  <2>1. connected /\ Now(panel, dialogs, Under(reports), Given(reports), panelDisk[target]) BY PanelFacts DEF Live
  <2>2. Outs(r) = Outs(panel) BY <1>4, SameOuts
  <2>3. Awaited(r, Under(reports) \cup Outs(r)) BY <1>4, <2>1, <2>2 DEF Now, Good, Awaited
  <2>4. Expected(r, dialogs, Under(reports) \cup Outs(r)) BY <1>4, <2>1, <2>2 DEF Now, Good, Expected
  <2> QED BY <1>3, <2>1, <2>3, <2>4, NextGood
<1> HIDE DEF q
<1>7. r.out = <<>> /\ r.asked \subseteq panel.asked /\ r.uploads \subseteq panel.uploads BY <1>2, <1>4
<1>8. Handled(q, dialogs, reports) BY <1>2, <1>5, <1>6, <1>7, HandledBy
<1> QED BY <1>1, <1>8, UserCommits

\* The timer after the connection fires.
LEMMA StepOpenInitialDirectory ==
    ASSUME PanelInv, OpenInitialDirectory
    PROVE  PanelInv'
<1> DEFINE r == [panel EXCEPT !.grace = @ - 1]
           q == IF ~connected THEN r ELSE IF r.resolved THEN NavigateTo(r, r.current) ELSE Out(Cleared(r), [op |-> "home"])
<1>1. panel.grace > 0 /\ Commit(q, dialogs) /\ Still /\ UNCHANGED clicks BY DEF OpenInitialDirectory
<1>2. panel \in Panels /\ Shaped(panel) /\ panel.out = <<>> /\ dialogs \in Seq(Dialogs) /\ Apart(panel, dialogs)
      /\ connected \in BOOLEAN /\ panel.current \in Dirs BY PanelFacts
<1>3. r \in Panels /\ PChanges(panel, r, {"grace"})
  <2> DEFINE n == panel.grace - 1
  <2>1. n \in Nat BY <1>1, <1>2 DEF Panels
  <2>2. r = [panel EXCEPT !.grace = n] OBVIOUS
  <2> HIDE DEF n
  <2> QED BY <1>2, <2>1, <2>2 DEF Panels, PChanges, PanelFields
<1>4. q = IF ~connected THEN r ELSE IF r.resolved THEN NavigateTo(r, r.current) ELSE Out(Cleared(r), [op |-> "home"])
  OBVIOUS
<1> HIDE DEF r, q
<1>5. /\ Shaped(r) /\ r.out = <<>> /\ r.asked = panel.asked /\ r.uploads = panel.uploads
      /\ r.pending = panel.pending /\ r.current = panel.current /\ Outs(r) = Outs(panel)
  BY <1>2, <1>3, SameOuts DEF PChanges, PanelFields, Shaped
<1>6. Live => connected /\ Good(panel, dialogs, Under(reports), Given(reports), panelDisk[target]) /\ Outs(panel) = {}
  BY PanelFacts DEF Live
<1>7. CASE ~connected BY <1>4, <1>7, <1>3, <1>5, <1>2, <1>1, HandledBy, UserCommits DEF Live, Proper
<1>8. CASE connected /\ r.resolved
  <2>1. q = NavigateTo(r, r.current) /\ r.current \in Dirs BY <1>2, <1>4, <1>5, <1>8
  <2>2. Proper(r, q) BY <1>2, <1>3, <2>1, NavigateProper
  <2>3. Live => Now(q, dialogs, Under(reports), Given(reports), panelDisk[target])
    <3> HAVE Live
    <3>1. Awaited(r, Under(reports) \cup Outs(r)) BY <1>5, <1>6 DEF Good, Awaited, Listing
    <3> QED BY <1>3, <1>8, <2>1, <3>1, NavigateGood
  <2>4. r.asked \subseteq panel.asked /\ r.uploads \subseteq panel.uploads BY <1>5
  <2>5. Handled(q, dialogs, reports) BY <1>2, <1>5, <2>2, <2>3, <2>4, HandledBy
  <2> QED BY <1>1, <2>5, UserCommits
<1>9. CASE connected /\ ~r.resolved
  <2> DEFINE s == Cleared(r)  x == [op |-> "home"]
  <2>1. s \in Panels /\ PChanges(r, s, {"rows", "error", "stale"}) /\ s.rows = {}
    BY <1>3 DEF Cleared, Panels, PChanges, PanelFields
  <2>2. q = Out(s, x) /\ x \in Wishes /\ x.op = "home" BY <1>4, <1>9 DEF Wishes, Homes
  <2> HIDE DEF s, x
  <2>3. PChanges(s, q, {"out"}) /\ Outs(q) = Outs(s) \cup {x} BY <2>1, <2>2, OutIs
  <2>4. /\ q.asked = panel.asked /\ q.pending = panel.pending /\ q.current = panel.current /\ q.uploads = panel.uploads
        /\ q.rows = {} /\ q \in Panels BY <1>5, <2>1, <2>3 DEF PChanges, PanelFields
  <2>5. Shaped(q) BY <1>2, <2>4 DEF Shaped
  <2>6. Live => Now(q, dialogs, Under(reports), Given(reports), panelDisk[target])
    <3> HAVE Live
    <3>1. Awaited(q, Under(reports) \cup Outs(q)) BY <1>6, <2>4 DEF Good, Awaited, Listing
    <3>2. Wanting(Under(reports) \cup Outs(q), "home") BY <2>2, <2>3 DEF Wanting
    <3>3. Expected(q, dialogs, Under(reports) \cup Outs(q)) BY <3>2 DEF Expected
    <3>4. Coming(q, Under(reports) \cup Outs(q), Given(reports)) BY <3>2 DEF Coming
    <3> QED BY <3>1, <3>3, <3>4, ComingGood DEF Now
  <2>7. Proper(r, q) BY <1>5, <1>9, <2>4, <2>5 DEF Proper
  <2>8. r.asked \subseteq panel.asked /\ r.uploads \subseteq panel.uploads BY <1>5
  <2>9. Handled(q, dialogs, reports) BY <1>2, <1>5, <2>6, <2>7, <2>8, HandledBy
  <2> QED BY <1>1, <2>9, UserCommits
<1> QED BY <1>2, <1>7, <1>8, <1>9

\* The session and the worker.

\* The panel while session and link stay.
LEMMA FreshSame ==
    ASSUME gen' = gen, connected' = connected, link' = link, target' = target,
           Live => /\ Good(panel', dialogs', Given(calls') \cup PutOff' \cup Given(reports'), Given(reports'), panelDisk'[target])
                   /\ ListingsTrue(reports', panelDisk'[target])
    PROVE  Fresh'
<1>1. Live' <=> Live BY DEF Live, Linked
<1>2. Under(reports)' = Given(calls') \cup PutOff' \cup Given(reports') /\ Given(reports)' = Given(reports')
  BY GivenNext DEF Under
<1>3. ListingsTrue(reports, panelDisk[target])' <=> ListingsTrue(reports', panelDisk'[target])
  BY DEF ListingsTrue, OldListings, Refreshers
<1> QED BY <1>1, <1>2, <1>3 DEF Fresh

\* What is known of the opening and of the requests of the connection.
LEMMA CallKinds ==
    ASSUME NEW c \in PanelCalls
    PROVE  /\ c.gen \in Gens /\ c.gen \in Nat /\ c.host \in Hosts
           /\ c.call.op \in {"connect", "disconnect"} <=> c.call \in Turns
           /\ c.call \in Turns \/ c.call \in Wishes
           /\ ~(c.call \in Turns /\ c.call \in Wishes)
BY WishKinds DEF PanelCalls, Gens, Turns, Ops

\* What the invariant says of the session and the queues.
LEMMA TurnFacts ==
    ASSUME PanelInv
    PROVE  TurnsOf(calls, reports, panel.asked) /\ gen \in Gens /\ gen \in Nat /\ link \in Links \cup {NoLink}
           /\ calls \in Seq(PanelCalls) /\ reports \in Seq(PanelReports)
           /\ deferred \subseteq PanelCalls /\ \A c \in deferred : c.call \in Wishes
           /\ connected \in BOOLEAN
<1>1. deferred \subseteq PanelCalls /\ \A c \in deferred : c.call \in Wishes
  BY DEF PanelInv, PanelTypes, QueueTypes, Wanted
<1>2. connected \in BOOLEAN /\ gen \in Gens /\ gen \in Nat /\ link \in Links \cup {NoLink}
  BY DEF PanelInv, PanelTypes, BaseTypes, Gens
<1>3. calls \in Seq(PanelCalls) /\ reports \in Seq(PanelReports) BY DEF PanelInv, PanelTypes, QueueTypes
<1>4. TurnsOf(calls, reports, panel.asked) BY DEF PanelInv, InTurns
<1> QED BY <1>1, <1>2, <1>3, <1>4

\* The connection is up: what is shown will be refreshed.
LEMMA StepGoesUp ==
    ASSUME PanelInv, PanelGoesUp
    PROVE  PanelInv'
<1> DEFINE up == NewsOf(gen, "up")  down == NewsOf(gen, "down")  t == Tail(reports)
<1>1. /\ reports # <<>> /\ Head(reports).call.op = "up" /\ Head(reports).gen = gen /\ reports' = t
      /\ connected' = TRUE /\ panel' = [panel EXCEPT !.grace = @ + 1]
      /\ target' = target /\ gen' = gen /\ link' = link /\ deferred' = deferred /\ calls' = calls
      /\ panelDisk' = panelDisk /\ dialogs' = dialogs /\ clicks' = clicks /\ faults' = faults
  BY DEF PanelGoesUp, NextReport, worker
<1>2. TurnsOf(calls, reports, panel.asked) /\ calls \in Seq(PanelCalls) /\ reports \in Seq(PanelReports)
  BY TurnFacts
<1>3. Head(reports) \in up BY <1>1, <1>2, FirstAndRest DEF NewsOf
<1>4. ~NoneOf(reports, up) BY <1>1, <1>2, <1>3, TakeNone
<1>5. panel' \in Panels /\ PChanges(panel, panel', {"grace"}) /\ panel'.grace > 0
  <2> DEFINE n == panel.grace + 1
  <2>1. n \in Nat /\ n > 0 /\ panel \in Panels BY PanelFacts DEF Panels
  <2>2. panel' = [panel EXCEPT !.grace = n] BY <1>1
  <2> HIDE DEF n
  <2> QED BY <2>1, <2>2 DEF Panels, PChanges, PanelFields
<1>6. PanelTypes'
  <2>1. Shaped(panel)' /\ panel'.out = <<>> BY <1>5, PanelFacts DEF Shaped, PChanges, PanelFields
  <2>2. t \in Seq(PanelReports) BY <1>1, <1>2, FirstAndRest
  <2> HIDE DEF t
  <2> QED BY <1>1, <1>5, <2>1, <2>2 DEF PanelInv, PanelTypes, BaseTypes, QueueTypes, PaneTypes
<1>7. /\ NoneOf(t, LaterNews(gen)) /\ NoneOf(t, up) /\ Ordered(t, up, up)
      /\ Followed(t, up, down) \/ Linked
      /\ Linked \/ ~NoneOf(t, down) BY <1>2, <1>1, <1>3, TakeNone, TakeOrdered, TakeFollowed DEF TurnsOf
<1>8. NoneOf(calls, ForeignTo(gen)) /\ panel.asked = {} /\ NoneOf(reports, AnswersOf(gen))
  BY <1>4, <1>2 DEF Begun, TurnsOf
<1>9. NoneOf(calls, ConnectsOf(gen)) BY <1>8, CallKinds, FewerNone DEF ConnectsOf, ForeignTo
<1>10. InTurns'
  <2>1. ~Begun(calls, t) BY <1>7, <1>9 DEF Begun
  <2>2. Linked' <=> Linked BY <1>1 DEF Linked
  <2>3. Begun(calls, reports)' <=> Begun(calls, t) BY <1>1 DEF Begun
  <2> HIDE DEF t
  <2> QED BY <1>1, <1>2, <1>7, <1>8, <2>1, <2>2, <2>3 DEF InTurns, TurnsOf, up, down
<1>11. panel'.asked = {} /\ panel'.uploads = panel.uploads BY <1>5, <1>8 DEF PChanges, PanelFields
<1>12. Apart(panel, dialogs)' BY <1>1, <1>11, PanelFacts DEF Apart
<1>13. Fresh'
  <2> DEFINE W == Under(reports)'  A == Given(reports)'  held == panelDisk[target]'
  <2>1. Good(panel', dialogs', W, A, held)
    <3> HIDE DEF W, A, held
    <3>1. Awaited(panel', W) BY <1>11 DEF Awaited
    <3>2. Expected(panel', dialogs', W) /\ Coming(panel', W, A) BY <1>5 DEF Expected, Coming
    <3> QED BY <3>1, <3>2, ComingGood
  <2>2. NoneOf(t, AnswersOf(gen)) BY <1>1, <1>2, <1>8, TakeNone
  <2>3. ASSUME NEW d, NEW h PROVE Followed(t, OldListings(d, h), Refreshers(d))
    BY <2>2, FewerNone, NoneFollowed DEF OldListings, AnswersOf, PanelReports, Changes
  <2>4. ListingsTrue(t, held) BY <2>3 DEF ListingsTrue
  <2>5. ListingsTrue(reports, panelDisk[target])' <=> ListingsTrue(t, held)
    BY <1>1 DEF ListingsTrue, OldListings, Refreshers
  <2> QED BY <2>1, <2>4, <2>5 DEF Fresh
<1> QED BY <1>6, <1>10, <1>12, <1>13 DEF PanelInv

\* The panel without its waiting uploads.
LEMMA LostIs ==
    ASSUME PanelInv, NEW S \in SUBSET Dirs, S \subseteq panel.asked,
           NEW q, q = Lost \/ q = [Lost EXCEPT !.asked = S]
    PROVE  /\ q \in Panels /\ Shaped(q) /\ q.out = <<>> /\ q.asked \subseteq panel.asked
           /\ (q = [Lost EXCEPT !.asked = S] => q.asked = S) /\ Apart(q, dialogs)
<1>1. panel \in Panels BY PanelFacts
<1>2. /\ q \in Panels /\ PChanges(panel, q, {"uploads", "asked"}) /\ q.uploads = {} /\ q.asked \subseteq panel.asked
      /\ (q = [Lost EXCEPT !.asked = S] => q.asked = S) BY <1>1 DEF Lost, Panels, PChanges, PanelFields
<1>3. Shaped(q) /\ q.out = <<>> BY <1>2, PanelFacts DEF Shaped, PChanges, PanelFields
<1>4. Apart(q, dialogs) BY <1>2, PanelFacts DEF Apart
<1> QED BY <1>2, <1>3, <1>4

\* The connection is down.
LEMMA StepGoesDown ==
    ASSUME PanelInv, PanelGoesDown
    PROVE  PanelInv'
<1> DEFINE up == NewsOf(gen, "up")  down == NewsOf(gen, "down")  t == Tail(reports)
<1>1. /\ reports # <<>> /\ reports' = t /\ connected' = FALSE /\ panel' = Lost
      /\ target' = target /\ gen' = gen /\ link' = link /\ deferred' = deferred /\ calls' = calls
      /\ panelDisk' = panelDisk /\ dialogs' = dialogs /\ clicks' = clicks /\ faults' = faults
  BY DEF PanelGoesDown, NextReport, worker
<1>2. TurnsOf(calls, reports, panel.asked) /\ calls \in Seq(PanelCalls) /\ reports \in Seq(PanelReports)
  BY TurnFacts
<1>3. panel' \in Panels /\ Shaped(panel') /\ panel'.out = <<>> /\ panel'.asked \subseteq panel.asked /\ Apart(panel', dialogs)
  <2>1. {} \in SUBSET Dirs /\ {} \subseteq panel.asked OBVIOUS
  <2> QED BY <1>1, <2>1, LostIs
<1>4. PanelTypes'
  <2>1. Shaped(panel)' BY <1>3 DEF Shaped
  <2>2. t \in Seq(PanelReports) BY <1>1, <1>2, FirstAndRest
  <2> HIDE DEF t
  <2> QED BY <1>1, <1>3, <2>1, <2>2 DEF PanelInv, PanelTypes, BaseTypes, QueueTypes, PaneTypes
<1>5. /\ NoneOf(t, LaterNews(gen)) /\ Ordered(t, up, up) /\ (Followed(t, up, down) \/ Linked)
      /\ ~NoneOf(t, up) => ~NoneOf(reports, up)
      /\ NoneOf(reports, AnswersOf(gen)) => NoneOf(t, AnswersOf(gen))
  BY <1>2, <1>1, TakeNone, TakeOrdered, TakeFollowed DEF TurnsOf
<1>6. InTurns'
  <2>1. Begun(calls, t) => Begun(calls, reports) BY <1>5 DEF Begun
  <2>2. Linked' <=> Linked BY <1>1 DEF Linked
  <2>3. Begun(calls, reports)' <=> Begun(calls, t) BY <1>1 DEF Begun
  <2> HIDE DEF t
  <2> QED BY <1>1, <1>2, <1>3, <1>5, <2>1, <2>2, <2>3 DEF InTurns, TurnsOf, up, down
<1>7. Apart(panel, dialogs)' BY <1>1, <1>3 DEF Apart
<1>8. Fresh' BY <1>1 DEF Fresh, Live
<1> QED BY <1>4, <1>6, <1>7, <1>8 DEF PanelInv

\* A report of an older generation is dropped.
LEMMA StepDrops ==
    ASSUME PanelInv, PanelDrops
    PROVE  PanelInv'
<1>1. /\ reports # <<>> /\ Head(reports).gen # gen /\ reports' = Tail(reports)
      /\ UNCHANGED <<session, worker>>
      /\ connected' = connected /\ target' = target /\ gen' = gen /\ link' = link /\ deferred' = deferred /\ calls' = calls
      /\ panel' = panel /\ panelDisk' = panelDisk /\ dialogs' = dialogs /\ clicks' = clicks /\ faults' = faults
  BY DEF PanelDrops, StaleReport, worker, session
<1>2. TurnsOf(calls, reports, panel.asked) /\ reports \in Seq(PanelReports) BY TurnFacts
<1>3. PanelTypes' BY <1>1, <1>2, FirstAndRest DEF PanelInv, PanelTypes, BaseTypes, QueueTypes, PaneTypes, Shaped
<1>4. InTurns' BY <1>1, <1>2, TurnsTake, TurnsSame DEF NewsOf
<1>5. Apart(panel, dialogs)' BY <1>1, PanelFacts DEF Apart
<1>6. Fresh'
  <2>1. PutOff' = PutOff BY <1>1 DEF PutOff
  <2>2. Given(reports') = Given(reports) BY <1>1, <1>2, GivenTaken
  <2>3. Live => ListingsTrue(reports', panelDisk[target]) BY <1>1, <1>2, ListingsTaken DEF PanelInv, Fresh
  <2>4. Live => Good(panel, dialogs, Under(reports), Given(reports), panelDisk[target]) BY PanelFacts
  <2>5. Given(calls') \cup PutOff' \cup Given(reports') = Under(reports) BY <1>1, <2>1, <2>2 DEF Under
  <2> QED BY <1>1, <2>2, <2>3, <2>4, <2>5, FreshSame
<1> QED BY <1>3, <1>4, <1>5, <1>6 DEF PanelInv

\* A new connection, or none.
LEMMA Opened ==
    ASSUME PanelInv, NEW a \in PanelCalls, a.gen = gen + 1, a.call \in Turns,
           gen < MaxGen, gen' = gen + 1, connected' = FALSE, target' \in Hosts, a.host = target',
           calls' = Append(calls, a), panel' = [Lost EXCEPT !.asked = {}],
           UNCHANGED <<worker, reports, panelDisk, dialogs, faults>>, clicks' \in 0 .. MaxClicks
    PROVE  PanelInv'
<1>1. /\ link' = link /\ deferred' = deferred /\ reports' = reports /\ panelDisk' = panelDisk
      /\ dialogs' = dialogs /\ faults' = faults BY DEF worker
<1>2. TurnsOf(calls, reports, panel.asked) /\ calls \in Seq(PanelCalls) /\ reports \in Seq(PanelReports) /\ gen \in Nat
      /\ deferred \subseteq PanelCalls /\ link \in Links \cup {NoLink} BY TurnFacts
<1>3. panel' \in Panels /\ Shaped(panel') /\ panel'.out = <<>> /\ panel'.asked = {} /\ Apart(panel', dialogs) BY LostIs
<1>4. calls' = calls \o <<a>> /\ calls' \in Seq(PanelCalls) BY <1>2, AddNone
<1>5. gen' \in Gens BY <1>2, GenAssumption DEF Gens
<1>6. PanelTypes' BY <1>3, <1>1, <1>4, <1>5 DEF Shaped, PanelInv, PanelTypes, BaseTypes, QueueTypes, PaneTypes
<1> DEFINE g == gen + 1
<1>7. /\ NoneOf(calls, LaterThan(gen)) /\ (\A c \in deferred : c.gen <= gen) /\ NoneOf(reports, LaterNews(gen))
      /\ link # NoLink => link.gen <= gen BY <1>2 DEF TurnsOf
<1>8. ASSUME NEW c \in PanelCalls PROVE c.gen \in Nat BY CallKinds
<1>9. ASSUME NEW r \in PanelReports PROVE r.gen \in Nat BY DEF PanelReports, Gens
<1>10. g > gen /\ g \in Nat /\ g # gen BY <1>2
<1>11. /\ LaterThan(g) \subseteq LaterThan(gen) /\ OpensOf(g) \subseteq LaterThan(gen)
       /\ ElsewhereThan(g, target') \subseteq LaterThan(gen) /\ AsksOf(g) \subseteq LaterThan(gen)
  BY <1>2, <1>8, <1>10 DEF LaterThan, OpensOf, ElsewhereThan, AsksOf
<1>12. /\ LaterNews(g) \subseteq LaterNews(gen) /\ NewsOf(g, "up") \subseteq LaterNews(gen)
       /\ AnswersOf(g) \subseteq LaterNews(gen) BY <1>2, <1>9, <1>10 DEF LaterNews, NewsOf, AnswersOf
<1>13. /\ NoneOf(calls, LaterThan(g)) /\ NoneOf(calls, OpensOf(g)) /\ NoneOf(calls, ElsewhereThan(g, target'))
       /\ NoneOf(calls, AsksOf(g)) /\ NoneOf(reports, LaterNews(g)) /\ NoneOf(reports, NewsOf(g, "up"))
       /\ NoneOf(reports, AnswersOf(g)) BY <1>7, <1>11, <1>12, FewerNone
<1>14. a \notin LaterThan(g) /\ a \notin ElsewhereThan(g, target') /\ a \notin AsksOf(g)
  BY <1>10, CallKinds DEF LaterThan, ElsewhereThan, AsksOf
<1> HIDE DEF g
<1>15. /\ NoneOf(calls', LaterThan(g)) /\ NoneOf(calls', ElsewhereThan(g, target')) /\ NoneOf(calls', AsksOf(g))
  <2>1. ASSUME NEW S, NoneOf(calls, S), a \notin S PROVE NoneOf(calls', S) BY <1>2, <2>1, AddNone
  <2> QED BY <1>13, <1>14, <2>1
<1>16. Ordered(calls', OpensOf(g), ForeignTo(g)) BY <1>13, <1>2, <1>4, NoneFollowed, AddOrdered
<1>17. Ordered(reports, NewsOf(g, "up"), NewsOf(g, "up")) /\ Followed(reports, NewsOf(g, "up"), NewsOf(g, "down"))
  BY <1>13, NoneFollowed
<1>18. link # NoLink => link.gen <= g /\ link.gen # g
  <2> HAVE link # NoLink
  <2>1. link.gen \in Nat /\ link.gen <= gen BY <1>2, <1>7 DEF Links, Gens
  <2> QED BY <1>2, <2>1 DEF g
<1>19. \A c \in deferred : c.gen <= g /\ c.gen # g
  <2> TAKE c \in deferred
  <2>1. c.gen \in Nat /\ c.gen <= gen BY <1>2, <1>7, CallKinds
  <2> QED BY <1>2, <2>1 DEF g
<1>20. InTurns' BY <1>1, <1>18, <1>3, <1>13, <1>15, <1>16, <1>17, <1>19 DEF Linked, g, InTurns, TurnsOf
<1>21. Apart(panel, dialogs)' BY <1>1, <1>3 DEF Apart
<1>22. Fresh' BY DEF Fresh, Live
<1> QED BY <1>6, <1>20, <1>21, <1>22 DEF PanelInv

\* The user connects, or disconnects.
LEMMA StepReconnect ==
    ASSUME PanelInv, (\E h \in Hosts : ReconnectPane(h)) \/ DisconnectPane
    PROVE  PanelInv'
<1>1. gen \in Nat /\ target \in Hosts /\ gen \in Gens BY PanelFacts
<1>2. CASE \E h \in Hosts : ReconnectPane(h)
  <2>1. PICK h \in Hosts : ReconnectPane(h) BY <1>2
  <2> DEFINE a == [call |-> [op |-> "connect"], gen |-> gen + 1, host |-> h]
  <2>2. /\ gen < MaxGen /\ gen' = gen + 1 /\ connected' = FALSE /\ target' = h /\ calls' = Append(calls, a)
        /\ panel' = [Lost EXCEPT !.asked = {}] /\ UNCHANGED <<worker, reports, panelDisk, dialogs, faults>>
        /\ Act BY <2>1 DEF ReconnectPane, BeginConnect, PanelUser
  <2>3. gen + 1 \in Gens BY <1>1, <2>2, GenAssumption DEF Gens
  <2>4. a \in PanelCalls /\ a.gen = gen + 1 /\ a.call \in Turns /\ a.host = target'
    BY <2>2, <2>3 DEF PanelCalls, Turns
  <2> HIDE DEF a
  <2>5. clicks' \in 0 .. MaxClicks BY <2>2, Counted
  <2> QED BY <2>2, <2>4, <2>5, Opened
<1>3. CASE DisconnectPane
  <2> DEFINE a == [call |-> [op |-> "disconnect"], gen |-> gen + 1, host |-> target]
  <2>2. /\ gen < MaxGen /\ gen' = gen + 1 /\ connected' = FALSE /\ target' = target /\ calls' = Append(calls, a)
        /\ panel' = [Lost EXCEPT !.asked = {}] /\ UNCHANGED <<worker, reports, panelDisk, dialogs, faults>>
        /\ Act BY <1>3 DEF DisconnectPane, BeginDisconnect, PanelUser
  <2>3. gen + 1 \in Gens BY <1>1, <2>2, GenAssumption DEF Gens
  <2>4. a \in PanelCalls /\ a.gen = gen + 1 /\ a.call \in Turns /\ a.host = target'
    BY <1>1, <2>2, <2>3 DEF PanelCalls, Turns
  <2> HIDE DEF a
  <2>5. clicks' \in 0 .. MaxClicks BY <2>2, Counted
  <2> QED BY <1>1, <2>2, <2>4, <2>5, Opened
<1> QED BY <1>2, <1>3

\* The calls without the one that the worker takes.
LEMMA CallTaken ==
    ASSUME PanelInv, calls # <<>>
    PROVE  /\ Head(calls) \in PanelCalls /\ Head(calls).gen <= gen /\ Tail(calls) \in Seq(PanelCalls)
           /\ NoneOf(Tail(calls), LaterThan(gen)) /\ NoneOf(Tail(calls), ElsewhereThan(gen, target))
           /\ Ordered(Tail(calls), OpensOf(gen), ForeignTo(gen))
           /\ NoneOf(calls, ForeignTo(gen)) => NoneOf(Tail(calls), ForeignTo(gen)) /\ Head(calls) \notin ForeignTo(gen)
           /\ NoneOf(calls, AsksOf(gen)) => NoneOf(Tail(calls), AsksOf(gen)) /\ Head(calls) \notin AsksOf(gen)
           /\ NoneOf(calls, ConnectsOf(gen)) => NoneOf(Tail(calls), ConnectsOf(gen))
           /\ Head(calls) \in OpensOf(gen) => NoneOf(Tail(calls), ForeignTo(gen))
           /\ Head(calls) \in ConnectsOf(gen) => ~NoneOf(calls, ConnectsOf(gen))
           /\ Head(calls).gen = gen => Head(calls).host = target
<1>1. calls \in Seq(PanelCalls) /\ gen \in Nat BY TurnFacts
<1>2. Head(calls) \in PanelCalls /\ Tail(calls) \in Seq(PanelCalls) BY <1>1, FirstAndRest
<1>3. \A S : NoneOf(calls, S) <=> Head(calls) \notin S /\ NoneOf(Tail(calls), S) BY <1>1, TakeNone
<1>4. /\ NoneOf(calls, LaterThan(gen)) /\ NoneOf(calls, ElsewhereThan(gen, target))
      /\ Ordered(calls, OpensOf(gen), ForeignTo(gen)) BY TurnFacts DEF TurnsOf
<1>5. /\ Ordered(Tail(calls), OpensOf(gen), ForeignTo(gen))
      /\ Head(calls) \in OpensOf(gen) => NoneOf(Tail(calls), ForeignTo(gen)) BY <1>1, <1>4, TakeOrdered
<1>6. Head(calls).gen <= gen BY <1>2, <1>3, <1>4, <1>1, CallKinds DEF LaterThan
<1>7. Head(calls).gen = gen => Head(calls).host = target BY <1>2, <1>3, <1>4 DEF ElsewhereThan
<1> QED BY <1>2, <1>3, <1>4, <1>5, <1>6, <1>7

\* What the worker reports joins the queue of reports.
LEMMA ReportAdded ==
    ASSUME PanelInv, NEW r \in PanelReports, r.gen <= gen, r \notin NewsOf(gen, "up")
    PROVE  LET new == reports \o <<r>> IN
           /\ new \in Seq(PanelReports) /\ Append(reports, r) = new
           /\ NoneOf(new, LaterNews(gen)) /\ Ordered(new, NewsOf(gen, "up"), NewsOf(gen, "up"))
           /\ NoneOf(new, NewsOf(gen, "up")) <=> NoneOf(reports, NewsOf(gen, "up"))
           /\ ~NoneOf(reports, NewsOf(gen, "down")) \/ r \in NewsOf(gen, "down") => ~NoneOf(new, NewsOf(gen, "down"))
           /\ \/ Followed(reports, NewsOf(gen, "up"), NewsOf(gen, "down")) \/ r \in NewsOf(gen, "down")
              => Followed(new, NewsOf(gen, "up"), NewsOf(gen, "down"))
           /\ NoneOf(reports, AnswersOf(gen)) /\ r \notin AnswersOf(gen) => NoneOf(new, AnswersOf(gen))
<1> DEFINE new == reports \o <<r>>  up == NewsOf(gen, "up")  down == NewsOf(gen, "down")
<1>1. reports \in Seq(PanelReports) /\ gen \in Nat BY TurnFacts
<1>2. new \in Seq(PanelReports) /\ Append(reports, r) = new /\ \A S : NoneOf(new, S) <=> NoneOf(reports, S) /\ r \notin S
  <2>1. \A S : /\ Append(reports, r) \in Seq(PanelReports) /\ Append(reports, r) = new
               /\ NoneOf(Append(reports, r), S) <=> NoneOf(reports, S) /\ r \notin S BY <1>1, AddNone
  <2> QED BY <2>1
<1>3. NoneOf(reports, LaterNews(gen)) /\ Ordered(reports, up, up) BY TurnFacts DEF TurnsOf
<1>4. r \notin LaterNews(gen) BY <1>1 DEF PanelReports, Gens, LaterNews
<1>5. Ordered(new, up, up) BY <1>1, <1>3, AddOrdered
<1>6. Followed(reports, up, down) \/ r \in down => Followed(new, up, down) BY <1>1, AddFollowed
<1> HIDE DEF new, up, down
<1>7. /\ NoneOf(new, LaterNews(gen))
      /\ NoneOf(new, up) <=> NoneOf(reports, up)
      /\ ~NoneOf(reports, down) \/ r \in down => ~NoneOf(new, down)
      /\ NoneOf(reports, AnswersOf(gen)) /\ r \notin AnswersOf(gen) => NoneOf(new, AnswersOf(gen))
  BY <1>2, <1>3, <1>4 DEF up
<1> QED BY <1>2, <1>5, <1>6, <1>7 DEF new, up, down

\* A request that is answered moves its promise to the answer.
LEMMA PerformGood ==
    ASSUME NEW p \in Panels, Shaped(p), NEW open \in Seq(Dialogs),
           NEW W, NEW W2, NEW A, NEW A2, NEW held, NEW held2, Good(p, open, W, A, held),
           NEW x, NEW r, W \subseteq W2 \cup {x}, A \subseteq A2, r \in W2, r \in A2,
           r.op = x.op, x.op = "list" => r.dir = x.dir,
           \A d \in Dirs : Held(held2, d) = Held(held, d) \/ Refreshes(r, d)
    PROVE  Good(p, open, W2, A2, held2)
<1>1. ASSUME NEW o, Wanting(W, o) PROVE Wanting(W2, o)
  <2>1. PICK y \in W : y.op = o BY <1>1 DEF Wanting
  <2>2. CASE y \in W2 BY <2>1, <2>2 DEF Wanting
  <2>3. CASE y = x BY <2>1, <2>3 DEF Wanting
  <2> QED BY <2>2, <2>3
<1>2. Awaited(p, W2)
  <2> SUFFICES ASSUME NEW d \in p.asked PROVE Listing(W2, d) BY DEF Awaited
  <2>1. PICK y \in W : y.op = "list" /\ y.dir = d BY DEF Good, Awaited, Listing
  <2>2. CASE y \in W2 BY <2>1, <2>2 DEF Listing
  <2>3. CASE y = x BY <2>1, <2>3 DEF Listing
  <2> QED BY <2>2, <2>3
<1>3. Coming(p, W, A) => Coming(p, W2, A2) BY <1>1 DEF Coming
<1>4. Expected(p, open, W2) BY <1>1 DEF Good, Expected
<1>5. Held(held2, p.current) = Held(held, p.current) \/ Coming(p, W2, A2) BY DEF Panels, Coming
<1>6. RowsTrue(p, W2, A2, held2) BY <1>3, <1>5 DEF Good, RowsTrue
<1>7. OffersTrue(p, open, W2, A2, held2)
  <2> SUFFICES ASSUME NEW i \in DOMAIN open, IsOverwrite(open[i], p.pending), p.pending \notin p.asked
               PROVE  open[i].listed = Held(held2, p.pending) \/ p.raced \/ Coming(p, W2, A2) BY DEF OffersTrue
  <2>1. open[i] \in Dialogs OBVIOUS
  <2>2. open[i].kind = "overwrite" => open[i].dir \in Dirs BY <2>1 DEF Dialogs
  <2>3. p.pending = p.current BY <2>2, DirAssumption DEF IsOverwrite, Shaped
  <2>4. open[i].listed = Held(held, p.pending) \/ p.raced \/ Coming(p, W, A) BY DEF Good, OffersTrue
  <2> QED BY <1>3, <1>5, <2>3, <2>4
<1> QED BY <1>2, <1>4, <1>6, <1>7 DEF Good

\* What the worker takes.
LEMMA TakenIs ==
    ASSUME PanelInv, NEW c, Taken(c)
    PROVE  /\ c \in PanelCalls /\ c.call \in Wishes /\ c.gen <= gen
           /\ calls' \in Seq(PanelCalls) /\ deferred' \in SUBSET Wanted /\ deferred' \subseteq deferred
           /\ NoneOf(calls', LaterThan(gen)) /\ NoneOf(calls', ElsewhereThan(gen, target))
           /\ Ordered(calls', OpensOf(gen), ForeignTo(gen))
           /\ NoneOf(calls, ForeignTo(gen)) => NoneOf(calls', ForeignTo(gen))
           /\ NoneOf(calls, AsksOf(gen)) /\ (\A b \in deferred : b.gen # gen) => NoneOf(calls', AsksOf(gen)) /\ c.gen # gen
           /\ NoneOf(calls, ConnectsOf(gen)) => NoneOf(calls', ConnectsOf(gen))
           /\ Live => c.gen = gen
           /\ Given(calls) \cup PutOff \subseteq (Given(calls') \cup {b.call : b \in {b \in deferred' : b.gen = gen}}) \cup {c.call}
<1>0. TurnsOf(calls, reports, panel.asked) /\ calls \in Seq(PanelCalls) /\ gen \in Nat BY TurnFacts
<1>1. CASE calls # <<>> /\ c = Head(calls) /\ ~Connecting(c) /\ ~Closing(c) /\ calls' = Tail(calls) /\ deferred' = deferred
  <2>1. c \in PanelCalls BY <1>1, CallTaken
  <2>2. c.call \in Wishes BY <1>1, <2>1, CallKinds DEF Connecting, Closing
  <2>3. deferred \in SUBSET Wanted BY DEF PanelInv, PanelTypes, QueueTypes
  <2>4. Live => c.gen = gen
    <3> HAVE Live
    <3>1. NoneOf(calls, ForeignTo(gen)) BY <1>0 DEF Live, TurnsOf
    <3>2. c \notin ForeignTo(gen) BY <1>1, <3>1, CallTaken
    <3> QED BY <2>1, <3>2 DEF ForeignTo
  <2>5. Given(calls) \subseteq Given(Tail(calls)) \cup {c.call} BY <1>0, <1>1, GivenTaken
  <2>6. NoneOf(calls, AsksOf(gen)) => c.gen # gen
    <3> HAVE NoneOf(calls, AsksOf(gen))
    <3>1. c \notin AsksOf(gen) BY <1>1, CallTaken
    <3> QED BY <2>1, <2>2, <3>1 DEF AsksOf
  <2>7. Given(calls) \cup PutOff \subseteq (Given(calls') \cup {b.call : b \in {b \in deferred' : b.gen = gen}}) \cup {c.call}
    BY <1>1, <2>5 DEF PutOff
  <2> QED BY <1>1, <2>1, <2>2, <2>3, <2>4, <2>6, <2>7, CallTaken
<1>2. CASE c \in deferred /\ Alive(c) /\ deferred' = deferred \ {c} /\ calls' = calls
  <2>1. c \in PanelCalls /\ c.call \in Wishes BY <1>2, TurnFacts
  <2>2. c.gen = gen BY <1>2 DEF Alive
  <2>3. deferred \in SUBSET Wanted BY DEF PanelInv, PanelTypes, QueueTypes
  <2>4. Given(calls) \cup PutOff \subseteq (Given(calls') \cup {b.call : b \in {b \in deferred' : b.gen = gen}}) \cup {c.call}
    BY <1>2 DEF PutOff
  <2>5. /\ NoneOf(calls, LaterThan(gen)) /\ NoneOf(calls, ElsewhereThan(gen, target))
        /\ Ordered(calls, OpensOf(gen), ForeignTo(gen)) BY <1>0 DEF TurnsOf
  <2> QED BY <1>0, <1>2, <2>1, <2>2, <2>3, <2>4, <2>5
<1> QED BY <1>1, <1>2 DEF Taken

\* A request that succeeds, and one that fails.
LEMMA ResultDone ==
    ASSUME NEW x \in Wishes, NEW held
    PROVE  LET r == Result(x, TRUE, held) IN
           r \in Results /\ r.op = x.op /\ (x.op = "list" => r.dir = x.dir /\ r.listed = Held(held, x.dir))
<1>1. PICK b \in BOOLEAN : b = TRUE OBVIOUS
<1>2. PICK r : r = Result(x, b, held) OBVIOUS
<1>3. r \in Results /\ r.op = x.op /\ (x.op = "list" => r.dir = x.dir /\ (b => r.listed = Held(held, x.dir)))
  BY <1>2, ResultTyped
<1> QED BY <1>1, <1>2, <1>3

\* One that fails lists nothing.
LEMMA ResultFailed ==
    ASSUME NEW x \in Wishes
    PROVE  LET r == Result(x, FALSE, {}) IN
           r \in Results /\ r.op = x.op /\ ~r.ok /\ (x.op = "list" => r.dir = x.dir)
<1>1. PICK b \in BOOLEAN : b = FALSE OBVIOUS
<1>2. PICK r : r = Result(x, b, {}) OBVIOUS
<1>3. r \in Results /\ r.op = x.op /\ r.ok = b /\ (x.op = "list" => r.dir = x.dir) BY <1>2, ResultTyped
<1> QED BY <1>1, <1>2, <1>3

\* The worker runs a request: its promise passes to its answer.
LEMMA PanelStepPerform ==
    ASSUME PanelInv, NEW c, PanelPerform(c)
    PROVE  PanelInv'
<1> DEFINE x == c.call
<1>1. Taken(c) /\ UNCHANGED <<session, link, panel, dialogs, clicks>> BY DEF PanelPerform
<1>2. /\ connected' = connected /\ target' = target /\ gen' = gen /\ link' = link /\ panel' = panel
      /\ dialogs' = dialogs /\ clicks' = clicks BY <1>1 DEF session
<1>3. c \in PanelCalls /\ x \in Wishes /\ c.gen <= gen /\ c.gen \in Gens BY <1>1, TakenIs, CallKinds
<1>4. TurnsOf(calls, reports, panel.asked) /\ reports \in Seq(PanelReports) /\ link \in Links \cup {NoLink} BY TurnFacts
<1>5. /\ panelDisk \in [Hosts -> SUBSET Entries] /\ faults \in 0 .. MaxFaults /\ MaxFaults \in Nat
  BY BoundAssumption DEF PanelInv, PanelTypes, BaseTypes
<1> HIDE DEF x
\* The answer r, and the effect on the server of the link.
<1>6. \E r \in Results :
         /\ r.op = x.op /\ (x.op = "list" => r.dir = x.dir)
         /\ reports' = Append(reports, [call |-> r, gen |-> c.gen])
         /\ panelDisk' \in [Hosts -> SUBSET Entries] /\ faults' \in 0 .. MaxFaults
         /\ Live => /\ \A d \in Dirs : Held(panelDisk'[target], d) = Held(panelDisk[target], d) \/ Refreshes(r, d)
                    /\ r.op = "list" /\ r.ok => r.listed = Held(panelDisk'[target], r.dir)
  <2>1. CASE /\ link # NoLink /\ panelDisk' = [panelDisk EXCEPT ![link.host] = Effect(x, @)]
             /\ reports' = Append(reports, [call |-> Result(x, TRUE, panelDisk[link.host]), gen |-> c.gen])
             /\ faults' = faults
    <3> DEFINE held == panelDisk[link.host]  r == Result(x, TRUE, held)  new == Effect(x, held)
    <3>1. link.host \in Hosts BY <1>4, <2>1 DEF Links
    <3>2. held \in SUBSET Entries BY <1>5, <3>1
    <3>3. panelDisk' = [panelDisk EXCEPT ![link.host] = new] BY <2>1
    <3>4. reports' = Append(reports, [call |-> r, gen |-> c.gen]) BY <2>1
    <3>5. Live => link.host = target BY <1>4 DEF Live, TurnsOf
    <3>6. /\ r \in Results /\ r.op = x.op
          /\ x.op = "list" => r.dir = x.dir /\ r.listed = Held(held, x.dir) BY <1>3, ResultDone
    <3>7. new \in SUBSET Entries BY <1>3, <3>2, EffectTyped
    <3>8. \A d \in Dirs : Held(new, d) = Held(held, d) \/ Refreshes(r, d) BY <1>3, <3>2, EffectRefreshes
    <3>9. x.op = "list" => new = held BY DEF Effect
    <3>10. held = panelDisk[link.host] OBVIOUS
    <3> HIDE DEF held, r, new
    <3>11. panelDisk' \in [Hosts -> SUBSET Entries] BY <1>5, <3>1, <3>3, <3>7
    <3>12. Live => panelDisk'[target] = new /\ panelDisk[target] = held BY <1>5, <3>1, <3>3, <3>5, <3>10
    <3>13. Live => /\ \A d \in Dirs : Held(panelDisk'[target], d) = Held(panelDisk[target], d) \/ Refreshes(r, d)
                   /\ r.op = "list" /\ r.ok => r.listed = Held(panelDisk'[target], r.dir)
      BY <3>6, <3>8, <3>9, <3>12
    <3> QED BY <1>5, <2>1, <3>4, <3>6, <3>11, <3>13
  <2>2. CASE /\ Fault \/ UNCHANGED faults
             /\ reports' = Append(reports, [call |-> Result(x, FALSE, {}), gen |-> c.gen])
             /\ panelDisk' = panelDisk
    <3> DEFINE r == Result(x, FALSE, {})
    <3>1. r \in Results /\ r.op = x.op /\ ~r.ok /\ (x.op = "list" => r.dir = x.dir) BY <1>3, ResultFailed
    <3>2. reports' = Append(reports, [call |-> r, gen |-> c.gen]) BY <2>2
    <3>3. faults' \in 0 .. MaxFaults BY <1>5, <2>2 DEF Fault
    <3> HIDE DEF r
    <3> QED BY <1>5, <2>2, <3>1, <3>2, <3>3
  <2>3. \/ /\ link # NoLink /\ panelDisk' = [panelDisk EXCEPT ![link.host] = Effect(x, @)]
           /\ reports' = Append(reports, [call |-> Result(x, TRUE, panelDisk[link.host]), gen |-> c.gen])
           /\ faults' = faults
        \/ /\ Fault \/ UNCHANGED faults
           /\ reports' = Append(reports, [call |-> Result(x, FALSE, {}), gen |-> c.gen])
           /\ panelDisk' = panelDisk BY Zenon DEF PanelPerform, x
  <2> QED BY <2>1, <2>2, <2>3
<1>7. PICK r \in Results :
         /\ r.op = x.op /\ (x.op = "list" => r.dir = x.dir)
         /\ reports' = Append(reports, [call |-> r, gen |-> c.gen])
         /\ panelDisk' \in [Hosts -> SUBSET Entries] /\ faults' \in 0 .. MaxFaults
         /\ Live => /\ \A d \in Dirs : Held(panelDisk'[target], d) = Held(panelDisk[target], d) \/ Refreshes(r, d)
                    /\ r.op = "list" /\ r.ok => r.listed = Held(panelDisk'[target], r.dir) BY <1>6
<1> DEFINE a == [call |-> r, gen |-> c.gen]
<1>8. a \in PanelReports /\ a.gen = c.gen /\ a.call = r BY <1>3, <1>7 DEF PanelReports
<1>9. reports' = Append(reports, a) BY <1>7
<1> HIDE DEF a
<1>10. a \notin NewsOf(gen, "up") /\ a \notin NewsOf(gen, "down") BY <1>7, <1>8, ResultKinds DEF Ops, NewsOf
<1>11. /\ reports' = reports \o <<a>> /\ reports' \in Seq(PanelReports)
       /\ NoneOf(reports', LaterNews(gen)) /\ Ordered(reports', NewsOf(gen, "up"), NewsOf(gen, "up"))
       /\ NoneOf(reports', NewsOf(gen, "up")) <=> NoneOf(reports, NewsOf(gen, "up"))
       /\ ~NoneOf(reports, NewsOf(gen, "down")) => ~NoneOf(reports', NewsOf(gen, "down"))
       /\ Followed(reports, NewsOf(gen, "up"), NewsOf(gen, "down"))
          => Followed(reports', NewsOf(gen, "up"), NewsOf(gen, "down"))
       /\ NoneOf(reports, AnswersOf(gen)) /\ a \notin AnswersOf(gen) => NoneOf(reports', AnswersOf(gen))
  BY <1>3, <1>8, <1>9, <1>10, ReportAdded
<1>12. PanelTypes'
  BY <1>1, <1>2, <1>7, <1>11, TakenIs DEF PanelInv, PanelTypes, PaneTypes, Shaped, BaseTypes, QueueTypes
<1>13. InTurns'
  <2>1. Linked' <=> Linked BY <1>2 DEF Linked
  <2>2. /\ NoneOf(calls', LaterThan(gen)) /\ NoneOf(calls', ElsewhereThan(gen, target))
        /\ Ordered(calls', OpensOf(gen), ForeignTo(gen))
        /\ NoneOf(calls, ForeignTo(gen)) => NoneOf(calls', ForeignTo(gen))
        /\ deferred' \subseteq deferred
        /\ NoneOf(calls, ConnectsOf(gen)) => NoneOf(calls', ConnectsOf(gen))
        /\ NoneOf(calls, AsksOf(gen)) /\ (\A b \in deferred : b.gen # gen) => NoneOf(calls', AsksOf(gen)) /\ c.gen # gen
    BY <1>1, TakenIs
  <2>3. Begun(calls, reports)' <=> Begun(calls', reports') BY <1>2 DEF Begun
  <2>4. Begun(calls', reports') => Begun(calls, reports) BY <1>11, <2>2 DEF Begun
  <2>5. Begun(calls', reports') => /\ ~connected /\ panel.asked = {} /\ NoneOf(calls', AsksOf(gen))
                                   /\ NoneOf(reports', AnswersOf(gen)) /\ \A b \in deferred' : b.gen # gen
    <3> HAVE Begun(calls', reports')
    <3>1. /\ ~connected /\ panel.asked = {} /\ NoneOf(calls, AsksOf(gen))
          /\ NoneOf(reports, AnswersOf(gen)) /\ \A b \in deferred : b.gen # gen BY <1>4, <2>4 DEF TurnsOf
    <3>2. c.gen # gen BY <2>2, <3>1
    <3>3. a \notin AnswersOf(gen) BY <1>8, <3>2 DEF AnswersOf
    <3> QED BY <1>11, <2>2, <3>1, <3>3
  <2> QED BY <1>2, <1>4, <1>11, <2>1, <2>2, <2>3, <2>5 DEF InTurns, TurnsOf
<1>14. Apart(panel, dialogs)' BY <1>2 DEF PanelInv, Apart
<1>15. Fresh'
  <2> SUFFICES ASSUME Live
               PROVE  /\ Good(panel, dialogs, Given(calls') \cup PutOff' \cup Given(reports'), Given(reports'), panelDisk'[target])
                      /\ ListingsTrue(reports', panelDisk'[target]) BY <1>2, FreshSame
  <2>1. c.gen = gen BY <1>1, TakenIs
  <2>2. Given(reports') = Given(reports) \cup {r}
    <3>1. Given(<<a>>) = {r} BY <1>8, <2>1, GivenOne
    <3>2. <<a>> \in Seq(PanelReports) BY <1>8, OneEvent
    <3>3. Given(reports \o <<a>>) = Given(reports) \cup Given(<<a>>) BY <1>4, <3>2, GivenJoined
    <3> QED BY <1>11, <3>1, <3>3
  <2>3. PutOff' = {b.call : b \in {b \in deferred' : b.gen = gen}} BY <1>2 DEF PutOff
  <2>4. Given(calls) \cup PutOff \subseteq (Given(calls') \cup PutOff') \cup {x} BY <1>1, <2>3, TakenIs DEF x
  <2> DEFINE W == Under(reports)  W2 == Given(calls') \cup PutOff' \cup Given(reports')
             A == Given(reports)  A2 == Given(reports')  held == panelDisk[target]  held2 == panelDisk'[target]
  <2>5. W \subseteq W2 \cup {x} /\ A \subseteq A2 /\ r \in W2 /\ r \in A2 BY <2>2, <2>4 DEF Under
  <2>6. Good(panel, dialogs, W, A, held) /\ panel \in Panels /\ Shaped(panel) /\ dialogs \in Seq(Dialogs) BY PanelFacts
  <2>7. \A d \in Dirs : Held(held2, d) = Held(held, d) \/ Refreshes(r, d) BY <1>7
  <2>8. ListingsTrue(reports', held2)
    <3>1. ListingsTrue(reports, held) BY DEF PanelInv, Fresh
    <3>2. \A d \in Dirs : Held(held2, d) = Held(held, d) \/ a \in Refreshers(d)
      BY <1>8, <2>1, <2>7 DEF Refreshers
    <3>3. \A d \in Dirs : a \notin OldListings(d, held2) BY <1>7, <1>8 DEF OldListings
    <3> QED BY <1>4, <1>8, <1>11, <3>1, <3>2, <3>3, ListingsAdded
  <2> HIDE DEF W, W2, A, A2, held, held2
  <2>9. r.op = x.op /\ (x.op = "list" => r.dir = x.dir) BY <1>7
  <2>10. Good(panel, dialogs, W2, A2, held2) BY <2>5, <2>6, <2>7, <2>9, PerformGood
  <2> QED BY <2>8, <2>10 DEF W2, A2, held2
<1> QED BY <1>12, <1>13, <1>14, <1>15 DEF PanelInv

\* The worker opens or ends the connection: until it has, nobody is connected.
LEMMA TurnServed ==
    ASSUME PanelInv, NEW c, calls # <<>>, c = Head(calls), c.call \in Turns,
           calls' = Tail(calls), UNCHANGED deferred, UNCHANGED faults, PanelKept,
           reports' \in Seq(PanelReports), NoneOf(reports', LaterNews(gen)),
           Ordered(reports', NewsOf(gen, "up"), NewsOf(gen, "up")),
           Followed(reports', NewsOf(gen, "up"), NewsOf(gen, "down")) \/ (link' # NoLink /\ link'.gen = gen),
           NoneOf(reports', NewsOf(gen, "up")) \/ c \in ConnectsOf(gen),
           NoneOf(reports, AnswersOf(gen)) => NoneOf(reports', AnswersOf(gen)),
           link' \in Links \cup {NoLink}, link' # NoLink => link'.gen = gen /\ link'.host = target
    PROVE  PanelInv'
<1>1. /\ connected' = connected /\ target' = target /\ gen' = gen /\ panelDisk' = panelDisk /\ panel' = panel
      /\ dialogs' = dialogs /\ clicks' = clicks /\ deferred' = deferred /\ faults' = faults
  BY DEF PanelKept, session
<1>2. TurnsOf(calls, reports, panel.asked) /\ gen \in Nat BY TurnFacts
<1>3. /\ c \in PanelCalls /\ Tail(calls) \in Seq(PanelCalls)
      /\ NoneOf(Tail(calls), LaterThan(gen)) /\ NoneOf(Tail(calls), ElsewhereThan(gen, target))
      /\ Ordered(Tail(calls), OpensOf(gen), ForeignTo(gen))
      /\ NoneOf(calls, ForeignTo(gen)) => c \notin ForeignTo(gen)
      /\ NoneOf(calls, AsksOf(gen)) => NoneOf(Tail(calls), AsksOf(gen))
      /\ NoneOf(calls, ConnectsOf(gen)) => NoneOf(Tail(calls), ConnectsOf(gen))
      /\ c \in OpensOf(gen) => NoneOf(Tail(calls), ForeignTo(gen))
      /\ c \in ConnectsOf(gen) => ~NoneOf(calls, ConnectsOf(gen)) BY CallTaken
<1>4. ~connected /\ NoneOf(reports, NewsOf(gen, "up")) BY <1>3, <1>2 DEF ForeignTo, TurnsOf
<1>5. c \in ConnectsOf(gen) => c \in OpensOf(gen) BY DEF ConnectsOf, OpensOf
<1>6. PanelTypes' BY <1>1, <1>3 DEF PanelInv, PanelTypes, PaneTypes, Shaped, BaseTypes, QueueTypes
<1>7. InTurns'
  <2>1. Begun(calls', reports') => Begun(calls, reports) BY <1>3 DEF Begun
  <2>2. Begun(calls', reports') => /\ panel.asked = {} /\ NoneOf(calls', AsksOf(gen))
                                   /\ NoneOf(reports', AnswersOf(gen)) /\ \A b \in deferred : b.gen # gen
    BY <1>2, <1>3, <2>1 DEF TurnsOf
  <2>3. Linked' <=> link' # NoLink /\ link'.gen = gen BY <1>1 DEF Linked
  <2>4. Begun(calls, reports)' <=> Begun(calls', reports') BY <1>1 DEF Begun
  <2>5. connected \/ ~NoneOf(reports', NewsOf(gen, "up")) => NoneOf(calls', ForeignTo(gen)) BY <1>3, <1>4, <1>5
  <2>6. \A b \in deferred : b.gen <= gen BY <1>2 DEF TurnsOf
  <2>7. link' # NoLink => link'.gen <= gen BY <1>2
  <2> QED BY <1>1, <1>3, <1>4, <2>2, <2>3, <2>4, <2>5, <2>6, <2>7 DEF InTurns, TurnsOf
<1>8. Apart(panel, dialogs)' BY <1>1, PanelFacts DEF Apart
<1>9. Fresh' BY <1>1, <1>4 DEF Fresh, Live
<1> QED BY <1>6, <1>7, <1>8, <1>9 DEF PanelInv

\* The worker takes a connection or its end.
LEMMA StepConnection ==
    ASSUME PanelInv, Connection
    PROVE  PanelInv'
<1> DEFINE c == Head(calls)  up == NewsOf(gen, "up")  down == NewsOf(gen, "down")
<1>1. /\ PanelKept /\ UNCHANGED deferred /\ UNCHANGED faults /\ calls # <<>> /\ calls' = Tail(calls)
      /\ Connecting(c) \/ Closing(c) BY DEF Connection, ServeConnect, ServeDisconnect
<1>2. /\ TurnsOf(calls, reports, panel.asked) /\ gen \in Nat /\ gen \in Gens /\ reports \in Seq(PanelReports)
  BY TurnFacts
<1>3. c \in PanelCalls /\ c.gen <= gen /\ (c.gen = gen => c.host = target)
      /\ (NoneOf(calls, ForeignTo(gen)) => c \notin ForeignTo(gen)) BY <1>1, CallTaken
<1>4. c.call \in Turns /\ c.host \in Hosts /\ c.gen \in Gens BY <1>1, <1>3, CallKinds DEF Connecting, Closing
<1>5. NoneOf(reports, up) /\ NoneOf(reports, LaterNews(gen)) BY <1>3, <1>4, <1>2 DEF ForeignTo, TurnsOf
<1>6. Ordered(reports, up, up) /\ Followed(reports, up, down) BY <1>5, NoneFollowed
<1> HIDE DEF c, up, down
<1>7. CASE /\ c.gen = gen /\ Connecting(c) /\ link' = [host |-> c.host, gen |-> c.gen]
           /\ reports' = Append(reports, [call |-> [op |-> "up"], gen |-> c.gen])
  <2> DEFINE a == [call |-> [op |-> "up"], gen |-> gen]
  <2>1. a \in PanelReports /\ a.gen = gen /\ a.call \in Changes BY <1>2 DEF PanelReports, Changes
  <2>2. reports' = Append(reports, a) BY <1>7
  <2> HIDE DEF a
  <2>3. \A S : /\ reports' \in Seq(PanelReports) /\ reports' = reports \o <<a>>
               /\ NoneOf(reports', S) <=> NoneOf(reports, S) /\ a \notin S BY <1>2, <2>1, <2>2, AddNone
  <2>4. a \notin LaterNews(gen) BY <1>2, <2>1 DEF LaterNews
  <2>5. a \notin AnswersOf(gen) BY <2>1, ResultKinds DEF AnswersOf
  <2>6. Ordered(reports \o <<a>>, up, up) BY <1>2, <1>5, <1>6, <2>1, AddOrdered
  <2>7. c \in ConnectsOf(gen) BY <1>3, <1>7 DEF ConnectsOf, Connecting
  <2>8. link' \in Links /\ link' # NoLink /\ link'.gen = gen /\ link'.host = target
    BY <1>3, <1>4, <1>7, LinkAssumption DEF Links
  <2> QED BY <1>1, <1>4, <1>5, <2>3, <2>4, <2>5, <2>6, <2>7, <2>8, TurnServed DEF c, up, down
<1>8. CASE link' = NoLink /\ reports' = Append(reports, [call |-> [op |-> "down"], gen |-> c.gen])
  <2> DEFINE a == [call |-> [op |-> "down"], gen |-> c.gen]
  <2>1. a \in PanelReports /\ a.gen = c.gen /\ a.call \in Changes /\ a.call.op = "down"
    BY <1>4 DEF PanelReports, Changes
  <2>2. reports' = Append(reports, a) BY <1>8
  <2> HIDE DEF a
  <2>3. a \notin AnswersOf(gen) /\ a \notin up BY <2>1, ResultKinds DEF AnswersOf, up, NewsOf
  <2>4. a.gen <= gen /\ a \notin NewsOf(gen, "up") BY <1>3, <2>1, <2>3 DEF up
  <2>5. /\ reports' \in Seq(PanelReports) /\ NoneOf(reports', LaterNews(gen)) /\ Ordered(reports', up, up)
        /\ NoneOf(reports', up) /\ Followed(reports', up, down)
        /\ NoneOf(reports, AnswersOf(gen)) => NoneOf(reports', AnswersOf(gen))
    BY <1>5, <1>6, <2>1, <2>2, <2>3, <2>4, ReportAdded DEF up, down
  <2> QED BY <1>1, <1>4, <1>8, <2>5, TurnServed DEF c, up, down
<1>9. CASE link' = NoLink /\ reports' = reports
  BY <1>1, <1>2, <1>4, <1>5, <1>6, <1>9, TurnServed DEF c, up, down
<1> QED BY <1>7, <1>8, <1>9 DEF Connection, ServeConnect, ServeDisconnect, c

\* The link is lost.
LEMMA StepLoseLink ==
    ASSUME PanelInv, PanelKept, LoseLink, Fault
    PROVE  PanelInv'
<1> DEFINE up == NewsOf(gen, "up")  down == NewsOf(gen, "down")  a == [call |-> [op |-> "down"], gen |-> link.gen]
<1>1. /\ connected' = connected /\ target' = target /\ gen' = gen /\ panelDisk' = panelDisk /\ panel' = panel
      /\ dialogs' = dialogs /\ clicks' = clicks /\ deferred' = deferred /\ calls' = calls
      /\ link # NoLink /\ link' = NoLink /\ reports' = Append(reports, a) BY DEF PanelKept, session, LoseLink
<1>2. TurnsOf(calls, reports, panel.asked) /\ reports \in Seq(PanelReports) /\ link \in Links \cup {NoLink} BY TurnFacts
<1>3. faults' \in 0 .. MaxFaults BY BoundAssumption DEF Fault, PanelInv, PanelTypes, BaseTypes
<1>4. a \in PanelReports /\ a.gen = link.gen /\ a.call \in Changes /\ a.call.op = "down" /\ link.gen <= gen
  BY <1>1, <1>2 DEF PanelReports, Changes, Links, TurnsOf
<1> HIDE DEF a
<1>5. a \notin AnswersOf(gen) /\ a \notin NewsOf(gen, "up") /\ (Linked => a \in NewsOf(gen, "down"))
  BY <1>4, ResultKinds DEF AnswersOf, NewsOf, Linked
<1>6. /\ reports' \in Seq(PanelReports) /\ NoneOf(reports', LaterNews(gen)) /\ Ordered(reports', up, up)
      /\ NoneOf(reports', up) <=> NoneOf(reports, up)
      /\ Linked \/ ~NoneOf(reports, down) => ~NoneOf(reports', down)
      /\ Followed(reports', up, down)
      /\ NoneOf(reports, AnswersOf(gen)) => NoneOf(reports', AnswersOf(gen))
  BY <1>4, <1>2, <1>1, <1>5, ReportAdded DEF TurnsOf
<1>7. PanelTypes' BY <1>1, <1>3, <1>6 DEF PanelInv, PanelTypes, PaneTypes, Shaped, BaseTypes, QueueTypes
<1>8. InTurns' BY <1>1, <1>6, <1>2 DEF Linked, Begun, InTurns, TurnsOf
<1>9. Apart(panel, dialogs)' BY <1>1, PanelFacts DEF Apart
<1>10. Fresh' BY <1>1 DEF Fresh, Live, Linked
<1> QED BY <1>7, <1>8, <1>9, <1>10 DEF PanelInv

\* What is put off is still under way.
LEMMA StillUnder ==
    ASSUME PanelInv, PanelKept, link' = link, reports' = reports,
           Live => Given(calls) \cup PutOff \subseteq Given(calls') \cup {b.call : b \in {b \in deferred' : b.gen = gen}}
    PROVE  Fresh' /\ Apart(panel, dialogs)'
<1>1. /\ connected' = connected /\ target' = target /\ gen' = gen /\ panelDisk' = panelDisk /\ panel' = panel
      /\ dialogs' = dialogs BY DEF PanelKept, session
<1>2. Apart(panel, dialogs)' BY <1>1, PanelFacts DEF Apart
<1>3. PutOff' = {b.call : b \in {b \in deferred' : b.gen = gen}} BY <1>1 DEF PutOff
<1>4. Live => /\ Good(panel, dialogs, Under(reports), Given(reports), panelDisk[target])
              /\ ListingsTrue(reports, panelDisk[target]) BY DEF PanelInv, Fresh
<1> DEFINE W == Under(reports)  W2 == Given(calls') \cup PutOff' \cup Given(reports)
           A == Given(reports)  held == panelDisk[target]
<1>5. Live => W \subseteq W2 BY <1>3 DEF Under
<1> HIDE DEF W, W2, A, held
<1>6. Live => Good(panel, dialogs, W2, A, held)
  <2> HAVE Live
  <2>1. Good(panel, dialogs, W, A, held) BY <1>4 DEF W, A, held
  <2>2. Awaited(panel, W2) BY <1>5, <2>1 DEF Good, Awaited, Listing
  <2>3. SameShown(panel, panel) /\ Keeps(panel, panel) BY DEF SameShown, Keeps
  <2>4. OffersAlike(dialogs, dialogs, panel.pending) BY SameOffers
  <2> QED BY <1>5, <2>1, <2>2, <2>3, <2>4, GoodMore
<1>7. Fresh' BY <1>1, <1>4, <1>6, FreshSame DEF W2, A, held
<1> QED BY <1>2, <1>7

\* A call is put off.
LEMMA StepDefer ==
    ASSUME PanelInv, PanelKept, Defer, Fault
    PROVE  PanelInv'
<1> DEFINE c == Head(calls)
<1>1. /\ connected' = connected /\ target' = target /\ gen' = gen /\ panelDisk' = panelDisk /\ panel' = panel
      /\ dialogs' = dialogs /\ clicks' = clicks /\ link' = link /\ reports' = reports
      /\ calls # <<>> /\ ~Connecting(c) /\ ~Closing(c) /\ deferred' = deferred \cup {c} /\ calls' = Tail(calls)
  BY DEF PanelKept, session, Defer
<1>2. /\ TurnsOf(calls, reports, panel.asked) /\ calls \in Seq(PanelCalls) /\ reports \in Seq(PanelReports)
      /\ link \in Links \cup {NoLink} /\ deferred \in SUBSET Wanted
  BY TurnFacts DEF PanelInv, PanelTypes, QueueTypes
<1>3. faults' \in 0 .. MaxFaults BY BoundAssumption DEF Fault, PanelInv, PanelTypes, BaseTypes
<1>4. /\ c \in PanelCalls /\ c.gen <= gen /\ Tail(calls) \in Seq(PanelCalls)
      /\ NoneOf(Tail(calls), LaterThan(gen)) /\ NoneOf(Tail(calls), ElsewhereThan(gen, target))
      /\ Ordered(Tail(calls), OpensOf(gen), ForeignTo(gen))
      /\ NoneOf(calls, ForeignTo(gen)) => NoneOf(Tail(calls), ForeignTo(gen)) /\ c \notin ForeignTo(gen)
      /\ NoneOf(calls, AsksOf(gen)) => NoneOf(Tail(calls), AsksOf(gen)) /\ c \notin AsksOf(gen)
      /\ NoneOf(calls, ConnectsOf(gen)) => NoneOf(Tail(calls), ConnectsOf(gen)) BY <1>1, CallTaken
<1>5. c.call \in Wishes BY <1>1, <1>4, CallKinds DEF Connecting, Closing
<1>6. Given(calls) \subseteq Given(Tail(calls)) \cup {c.call} BY <1>1, <1>2, GivenTaken
<1> HIDE DEF c
<1>7. PanelTypes'
  <2>1. Shaped(panel)' BY <1>1 DEF PanelInv, PanelTypes, PaneTypes, Shaped
  <2>2. deferred' \in SUBSET Wanted BY <1>1, <1>2, <1>4, <1>5 DEF Wanted
  <2> QED BY <1>1, <1>3, <1>4, <2>1, <2>2 DEF PanelInv, PanelTypes, BaseTypes, QueueTypes, PaneTypes
<1>8. InTurns'
  <2>1. Begun(calls', reports') => Begun(calls, reports) BY <1>1, <1>4 DEF Begun
  <2>2. Begun(calls', reports') => /\ ~connected /\ panel.asked = {} /\ NoneOf(calls', AsksOf(gen))
                                   /\ NoneOf(reports', AnswersOf(gen)) /\ \A b \in deferred' : b.gen # gen
    <3> HAVE Begun(calls', reports')
    <3>1. /\ ~connected /\ panel.asked = {} /\ NoneOf(calls, AsksOf(gen))
          /\ NoneOf(reports, AnswersOf(gen)) /\ \A b \in deferred : b.gen # gen BY <1>2, <2>1 DEF TurnsOf
    <3>2. c.gen # gen BY <1>4, <1>5, <3>1 DEF AsksOf
    <3> QED BY <1>1, <1>4, <3>1, <3>2
  <2>3. Linked' <=> Linked BY <1>1 DEF Linked
  <2>4. Begun(calls, reports)' <=> Begun(calls', reports') BY <1>1 DEF Begun
  <2>5. \A b \in deferred' : b.gen <= gen BY <1>1, <1>2, <1>4 DEF TurnsOf
  <2> QED BY <1>1, <1>2, <1>4, <2>2, <2>3, <2>4, <2>5 DEF InTurns, TurnsOf
<1>9. Fresh' /\ Apart(panel, dialogs)'
  <2>1. Live => Given(calls) \cup PutOff \subseteq Given(calls') \cup {b.call : b \in {b \in deferred' : b.gen = gen}}
    <3> HAVE Live
    <3>1. NoneOf(calls, ForeignTo(gen)) BY <1>2 DEF Live, TurnsOf
    <3>2. c.gen = gen BY <1>4, <3>1 DEF ForeignTo
    <3>3. c.call \in {b.call : b \in {b \in deferred' : b.gen = gen}} BY <1>1, <3>2
    <3>4. PutOff \subseteq {b.call : b \in {b \in deferred' : b.gen = gen}} BY <1>1 DEF PutOff
    <3> QED BY <1>1, <1>6, <3>3, <3>4
  <2> QED BY <1>1, <2>1, StillUnder
<1> QED BY <1>7, <1>8, <1>9 DEF PanelInv

\* A call that was put off vanishes with its connection.
LEMMA StepVanish ==
    ASSUME PanelInv, PanelKept, Vanish, UNCHANGED faults
    PROVE  PanelInv'
<1>1. PICK c \in deferred : ~Alive(c) /\ deferred' = deferred \ {c} BY DEF Vanish
<1>2. /\ connected' = connected /\ target' = target /\ gen' = gen /\ panelDisk' = panelDisk /\ panel' = panel
      /\ dialogs' = dialogs /\ clicks' = clicks /\ link' = link /\ reports' = reports /\ calls' = calls /\ faults' = faults
  BY DEF PanelKept, session, Vanish
<1>3. TurnsOf(calls, reports, panel.asked) BY TurnFacts
<1>4. PanelTypes' BY <1>2, <1>1 DEF PanelInv, PanelTypes, PaneTypes, Shaped, QueueTypes, BaseTypes
<1>5. InTurns' BY <1>2, <1>1, <1>3 DEF Begun, Linked, InTurns, TurnsOf
<1>6. Fresh' /\ Apart(panel, dialogs)' BY <1>1, <1>2, StillUnder DEF Live, Linked, Alive, PutOff
<1> QED BY <1>4, <1>5, <1>6 DEF PanelInv

\* The queues and the link.
LEMMA PanelStepTransport ==
    ASSUME PanelInv, PanelTransport
    PROVE  PanelInv' BY StepLoseLink, StepDefer, StepVanish DEF PanelTransport

\* The beginning.

\* It holds at the beginning.
LEMMA PanelBegins ==
    ASSUME PanelInit
    PROVE  PanelInv
<1>1. /\ connected = TRUE /\ target \in Hosts /\ gen = 0 /\ link = [host |-> target, gen |-> 0]
      /\ calls = <<>> /\ deferred = {} /\ reports = <<>> BY GenAssumption DEF PanelInit, RequestsInit
<1>2. panel = [current |-> Root, pending |-> NoDir, rows |-> {}, error |-> FALSE,
               resolved |-> FALSE, asked |-> {}, mutating |-> FALSE, mgen |-> 0,
               queue |-> <<>>, next |-> 0, grace |-> 1,
               uploads |-> {}, raced |-> FALSE, stale |-> FALSE, out |-> <<>>] BY DEF PanelInit
<1>3. 0 \in Gens BY GenAssumption DEF Gens
<1>4. link \in Links /\ link # NoLink /\ link.gen = gen /\ link.host = target BY <1>1, <1>3, LinkAssumption DEF Links
<1>5. panelDisk \in [Hosts -> SUBSET Entries] BY DirAssumption DEF PanelInit, Entries
<1>6. /\ panel \in Panels /\ panel.asked = {} /\ panel.out = <<>> /\ panel.pending = NoDir /\ panel.rows = {}
      /\ panel.uploads = {} /\ panel.grace > 0 BY <1>2, <1>3, EmptySeq, DirAssumption DEF Panels
<1>7. dialogs = <<>> /\ dialogs \in Seq(Dialogs) /\ calls \in Seq(PanelCalls) /\ reports \in Seq(PanelReports)
  BY <1>1, EmptySeq DEF PanelInit
<1>8. PanelTypes
  BY <1>6, <1>1, <1>3, <1>4, <1>5, <1>7, BoundAssumption DEF Shaped, PanelInit, PanelTypes, BaseTypes, QueueTypes,
     PaneTypes
<1>9. ASSUME NEW S PROVE NoneOf(calls, S) /\ NoneOf(reports, S) BY <1>1 DEF NoneOf
<1>10. ASSUME NEW S, NEW T PROVE Followed(reports, S, T) /\ Ordered(reports, S, T) /\ Ordered(calls, S, T)
  BY <1>9, NoneFollowed
<1>11. InTurns BY <1>4, <1>9, <1>1, <1>10 DEF Linked, Begun, InTurns, TurnsOf
<1>12. Apart(panel, dialogs) BY <1>7 DEF Apart
<1>13. Fresh
  <2>1. Awaited(panel, Under(reports)) BY <1>6 DEF Awaited
  <2>2. Expected(panel, dialogs, Under(reports)) BY <1>6 DEF Expected
  <2>3. Coming(panel, Under(reports), Given(reports)) BY <1>6 DEF Coming
  <2>4. Good(panel, dialogs, Under(reports), Given(reports), panelDisk[target]) BY <2>1, <2>2, <2>3, ComingGood
  <2>5. ListingsTrue(reports, panelDisk[target]) BY <1>10 DEF ListingsTrue
  <2> QED BY <2>4, <2>5 DEF Fresh
<1> QED BY <1>8, <1>11, <1>12, <1>13 DEF PanelInv

\* Every step keeps it.
LEMMA PanelSteps ==
    ASSUME PanelInv, [PanelNext]_panelVars
    PROVE  PanelInv'
<1>1. CASE \E d \in Dirs : Navigate(d) \/ FollowTerminal(d) \/ Expand(d) BY <1>1, StepNavigate, StepExpand
<1>2. CASE \E d \in Dirs, names \in SUBSET Names \ {{}} : DropFiles(names, d)
  <2>1. PICK d \in Dirs, names \in SUBSET Names : DropFiles(names, d) BY <1>2
  <2> QED BY <2>1, StepDropFiles
<1>3. CASE \/ AskName \/ \E entries \in SUBSET panel.rows : AskRemove(entries)
           \/ \E e \in panel.rows : AskPermissions(e) BY <1>3, StepQuestions
<1>4. CASE \E e \in panel.rows : EditorSaves(e) \/ \E n \in Names : Rename(e, n)
  BY <1>4, StepEditorSaves, StepRename
<1>5. CASE Refuse \/ SetPermissions \/ RemoveSelected \/ \E n \in Names, op \in {"write", "mkdir"} : Create(n, op)
  BY <1>5, StepRefuse, StepSetPermissions, StepRemoveSelected, StepCreate
<1>6. CASE CancelUploads \/ \E yes \in BOOLEAN : Overwrite(yes) BY <1>6, StepOverwrite
<1>7. CASE DisconnectPane \/ \E h \in Hosts : ReconnectPane(h) BY <1>7, StepReconnect
<1>8. CASE Events
  BY <1>8, StepListed, StepHomeResolved, StepOperationEnds, StepGoesUp, StepGoesDown, StepDrops DEF Events
<1>9. CASE Timers BY <1>9, StepNextRemoval, StepOpenInitialDirectory DEF Timers
<1>10. CASE \E c \in Requests : PanelPerform(c) BY <1>10, PanelStepPerform
<1>11. CASE Connection \/ PanelTransport BY <1>11, StepConnection, PanelStepTransport
<1>12. CASE UNCHANGED panelVars BY <1>12, PanelStill DEF panelVars, requestVars
<1> QED BY <1>1, <1>2, <1>3, <1>4, <1>5, <1>6, <1>7, <1>8, <1>9, <1>10, <1>11, <1>12 DEF PanelNext

\* The invariant holds of every behaviour: the session is in turns, and while
\* the connection stands the list is true, raced, or promised a refresh.
THEOREM PanelInvariance == PanelSpec => []PanelInv
<1>1. PanelInit => PanelInv BY PanelBegins
<1>2. PanelInv /\ [PanelNext]_panelVars => PanelInv' BY PanelSteps
<1> QED BY <1>1, <1>2, PTL DEF PanelSpec

\* Where nothing is under way, nothing is promised and the list is true.
LEMMA FreshWhenSettled ==
    ASSUME PanelInv
    PROVE  ShownIsFresh
<1>1. PanelTypeOK BY DEF PanelTypeOK, PanelInv, PanelTypes, BaseTypes, PaneTypes, Panels, Shaped
<1>2. ASSUME PanelSettled
      PROVE  /\ panel.pending = NoDir /\ panel.asked = {}
             /\ \/ panel.rows = {e \in panelDisk[target] : e[1] = panel.current}
                \/ panel.error \/ panel.raced
  <2>1. /\ connected /\ calls = <<>> /\ deferred = {} /\ reports = <<>> /\ dialogs = <<>>
        /\ panel.next = 0 /\ panel.grace = 0 BY <1>2 DEF PanelSettled
  <2>2. Live BY <2>1, TurnFacts DEF NoneOf, TurnsOf, Live
  <2>3. Under(reports) = {} /\ Given(reports) = {} BY <2>1 DEF Under, Given, PutOff
  <2>4. Good(panel, dialogs, {}, {}, panelDisk[target]) BY <2>2, <2>3 DEF PanelInv, Fresh
  <2>5. panel.asked = {} BY <2>4 DEF Good, Awaited, Listing
  <2>6. panel.pending = NoDir BY <2>1, <2>4, <2>5 DEF Good, Expected, Questioned, Wanting
  <2>7. ~Coming(panel, {}, {}) BY <2>1 DEF Coming, Wanting
  <2>8. \/ panel.rows = In(panel.current, Held(panelDisk[target], panel.current))
        \/ panel.error \/ panel.raced BY <2>4, <2>6, <2>7 DEF Good, RowsTrue
  <2>9. In(panel.current, Held(panelDisk[target], panel.current)) = {e \in panelDisk[target] : e[1] = panel.current}
    <3>1. panelDisk[target] \subseteq Dirs \X Names BY PanelFacts DEF Entries
    <3> QED BY <3>1 DEF In, Held
  <2> QED BY <2>5, <2>6, <2>8, <2>9
<1> QED BY <1>1, <1>2 DEF ShownIsFresh

\* When everything asked for is answered, the list of the panel is what the
\* server has (FilePanel.cpp: its handlers; SshSession.cpp: directoryListed).
THEOREM ListIsFresh == PanelSpec => []ShownIsFresh BY PanelInvariance, FreshWhenSettled, PTL
=============================================================================
