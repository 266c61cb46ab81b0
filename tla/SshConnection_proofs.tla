------------------------ MODULE SshConnection_proofs ------------------------
(***************************************************************************)
(* Proofs about SshConnection, for any addresses, keys, passwords and any  *)
(* number of attempts.  In this order: the shape of the state              *)
(* (TypeCorrect); calls and requests belong to attempts, so that loading   *)
(* has an open call (LoadingCorrect) and no transport outlives its attempt *)
(* (OrphansClose); the reports on their way agree with the flags, so that  *)
(* what the pane shows is backed (PaneCorrect); from all of it, that every *)
(* step is one of SessionView or a stutter (ViewImplemented); and, host by *)
(* host, what keys and passwords may be where (SecretsSafe).               *)
(***************************************************************************)
EXTENDS SshConnection, SequenceTheorems, TLAPS

----
(* The stack and the two queues. *)

\* The innermost nested call is a frame, and without it the stack is one shorter.
LEMMA TopAndPop ==
    ASSUME TypeOK, stack # <<>>
    PROVE  /\ Top \in Frames
           /\ Pop \in Seq(Frames)
           /\ Len(stack) \in Nat \ {0}
           /\ Len(Pop) = Len(stack) - 1
           /\ \A i \in 1 .. Len(stack) - 1 : Pop[i] = stack[i]
<1> DEFINE n == Len(stack)
<1>1. stack \in Seq(Frames) BY DEF TypeOK
<1>2. n \in Nat /\ n # 0 BY <1>1, EmptySeq
<1>3. \A i \in 1 .. n : stack[i] \in Frames BY <1>1, ElementOfSeq
<1>4. n \in 1 .. n /\ n - 1 \in Nat /\ 1 .. n - 1 \subseteq 1 .. n BY <1>2
<1> HIDE DEF n
<1>5. \A i \in 1 .. n - 1 : stack[i] \in Frames BY <1>3, <1>4
<1>6. /\ SubSeq(stack, 1, n - 1) \in Seq(Frames)
      /\ Len(SubSeq(stack, 1, n - 1)) = IF 1 <= n - 1 THEN n - 1 - 1 + 1 ELSE 0
      /\ \A i \in 1 .. n - 1 - 1 + 1 : SubSeq(stack, 1, n - 1)[i] = stack[1 + i - 1]
  BY <1>4, <1>5, SubSeqProperties
<1>7. /\ n - 1 - 1 + 1 = n - 1 /\ \A i \in 1 .. n - 1 : 1 + i - 1 = i
      /\ (IF 1 <= n - 1 THEN n - 1 - 1 + 1 ELSE 0) = n - 1 BY <1>2
<1>8. QED BY <1>2, <1>3, <1>4, <1>6, <1>7 DEF Top, Pop, n

\* A nested call is put on top of the others.
LEMMA PushFrame ==
    ASSUME NEW s \in Seq(Frames), NEW f \in Frames
    PROVE  /\ Append(s, f) \in Seq(Frames)
           /\ Len(Append(s, f)) = Len(s) + 1
           /\ \A i \in 1 .. Len(s) : Append(s, f)[i] = s[i]
           /\ Append(s, f)[Len(s) + 1] = f
BY AppendProperties

\* What the GUI thread takes from its queue is an event.
LEMMA DeliveredEvent ==
    ASSUME TypeOK, NEW type, Deliver(type)
    PROVE  toGui' \in Seq(GuiEvents) /\ Head(toGui) \in GuiEvents
BY HeadTailProperties DEF TypeOK, Deliver

\* What the worker takes from its queue is an event.
LEMMA TakenEvent ==
    ASSUME TypeOK, NEW op, Take(op)
    PROVE  toWorker' \in Seq(WorkerEvents) /\ Head(toWorker) \in WorkerEvents
BY HeadTailProperties DEF TypeOK, Take

\* A report of the worker is an event.
LEMMA ReportType ==
    ASSUME TypeOK, NEW type \in {"progress", "up", "down", "rejected"}
    PROVE  Report(type) \in Seq(GuiEvents)
BY AppendProperties DEF TypeOK, GuiEvents, Report

----
(* The type invariant. *)

\* The end of an attempt keeps the types of what it changes.
LEMMA EndAttemptType ==
    ASSUME TypeOK, NEW kept \in Secrets \cup {NoSecret}, EndAttempt(kept)
    PROVE  /\ attempt' \in 0 .. MaxAttempts
           /\ connected' \in BOOLEAN /\ overwritten' \in BOOLEAN
           /\ remember' \in Secrets \cup {NoSecret}
           /\ wgen' \in Nat
           /\ toWorker' \in Seq(WorkerEvents)
<1>1. [op |-> "disconnect"] \in WorkerEvents BY DEF WorkerEvents
<1>2. Append(toWorker, [op |-> "disconnect"]) \in Seq(WorkerEvents) BY <1>1, AppendProperties DEF TypeOK
<1>3. wgen' \in Nat /\ toWorker' \in Seq(WorkerEvents)
  <2>1. CASE demo BY <2>1 DEF TypeOK, EndAttempt, CancelTransport
  <2>2. CASE ~demo
    <3>1. wgen' = wgen + 1 /\ toWorker' = Append(toWorker, [op |-> "disconnect"])
      BY <2>2 DEF EndAttempt, CancelTransport
    <3>2. wgen \in Nat BY DEF TypeOK
    <3>3. QED BY <1>2, <3>1, <3>2
  <2>3. QED BY <2>1, <2>2
<1>4. attempt' \in 0 .. MaxAttempts BY BoundAssumption DEF TypeOK, EndAttempt
<1>5. QED BY <1>3, <1>4 DEF EndAttempt

\* The begin of an attempt keeps the types, if what it leaves open has its type.
LEMMA BeginAttemptType ==
    ASSUME TypeOK, NEW p \in Profiles, NEW isDemo \in BOOLEAN,
           NEW kept \in Secrets \cup {NoSecret}, BeginAttempt(p, isDemo, kept),
           connecting' \in BOOLEAN, loading' \in BOOLEAN, waiting' \in BOOLEAN,
           stack' \in Seq(Frames), demoTimers' \subseteq Nat
    PROVE  TypeOK'
BY EndAttemptType DEF BeginAttempt, TypeOK, stores, worker

\* A call that waits in a nested event loop is a frame.
LEMMA OpenType ==
    ASSUME TypeOK, NEW kind \in {"load", "announce"}, NEW p \in Profiles,
           NEW secret \in Secrets \cup {NoSecret}, attempt' \in Nat, Open(kind, p, secret)
    PROVE  stack' \in Seq(Frames)
<1> DEFINE r == [attempt |-> attempt', host |-> p.host, expected |-> knownHosts[p.host], secret |-> secret]
           f == [kind |-> kind, request |-> r]
<1>1. p.host \in Hosts /\ knownHosts[p.host] \in Keys \cup {NoKey} BY DEF TypeOK, Profiles
<1>2. r \in Requests BY <1>1 DEF Requests
<1>3. f \in Frames BY <1>2 DEF Frames
<1>4. QED BY <1>3, PushFrame DEF Open, TypeOK

\* So is one that waits for the proxy's password.
LEMMA ProxyType ==
    ASSUME TypeOK, NEW p \in Profiles, NEW secret \in Secrets \cup {NoSecret},
           NEW kept \in Secrets \cup {NoSecret}, attempt' \in Nat, OpenBehindProxy(p, secret, kept)
    PROVE  stack' \in Seq(Frames)
<1> DEFINE r == [attempt |-> attempt', host |-> p.host, expected |-> NoKey, secret |-> secret]
           f == [kind |-> "proxy", ref |-> p.ref, kept |-> kept, request |-> r]
<1>1. r \in Requests BY DEF Profiles, Requests
<1>2. f \in Frames BY <1>1 DEF Profiles, Frames
<1>3. QED BY <1>2, PushFrame DEF OpenBehindProxy, TypeOK

\* The types hold at the start.
LEMMA TypeInit == Init => TypeOK
<1> SUFFICES ASSUME Init PROVE TypeOK OBVIOUS
<1>1. row \in Profiles /\ profile \in Profiles
  BY BoundAssumption, AddressAssumption DEF Init, Profiles, Refs, NoRef
<1>2. vault \in [Refs -> Secrets \cup {NoSecret}] BY DEF Init
<1>3. wjob \in Requests BY <1>1 DEF Init, Requests, Profiles
<1>4. stack \in Seq(Frames) /\ toWorker \in Seq(WorkerEvents) /\ toGui \in Seq(GuiEvents) BY EmptySeq DEF Init
<1>5. connected \in BOOLEAN /\ connecting \in BOOLEAN /\ loading \in BOOLEAN /\ waiting \in BOOLEAN
      /\ demo \in BOOLEAN /\ overwritten \in BOOLEAN
      /\ remember \in Secrets \cup {NoSecret} /\ pendingKey \in Keys \cup {NoKey}
      /\ demoTimers \subseteq Nat /\ knownHosts \in [Hosts -> Keys \cup {NoKey}] BY DEF Init
<1>6. /\ attempt \in 0 .. MaxAttempts /\ tgen \in Nat /\ wgen \in Nat /\ wactive \in Nat
      /\ wstate \in Resting \cup Busy BY BoundAssumption DEF Init, Resting
<1>7. QED BY <1>1, <1>2, <1>3, <1>4, <1>5, <1>6 DEF TypeOK

\* The user and the idle timer keep the types.
LEMMA TypeUser == TypeOK /\ (UserStep \/ IdleTimeout) => TypeOK'
<1> SUFFICES ASSUME TypeOK, UserStep \/ IdleTimeout PROVE TypeOK' OBVIOUS
<1> USE DEF Refs
<1>r. row \in Profiles /\ profile \in Profiles /\ stack \in Seq(Frames) /\ demoTimers \subseteq Nat
  BY DEF TypeOK
<1>n. MaxAttempts \in Nat /\ attempt \in Nat BY BoundAssumption DEF TypeOK
<1>1. CASE DisconnectFromHost BY <1>1, EndAttemptType DEF TypeOK, DisconnectFromHost, stores, worker
<1>2. ASSUME NEW s \in Secrets \cup {NoSecret}, ConnectTo(s) PROVE TypeOK'
  <2>1. BeginAttempt(row, FALSE, NoSecret) BY <1>2 DEF ConnectTo
  <2>2. attempt' \in Nat BY <2>1, <1>n DEF BeginAttempt, EndAttempt
  <2>3. stack' \in Seq(Frames) BY <1>2, <1>r, <2>2, OpenType, ProxyType DEF ConnectTo
  <2>4. connecting' \in BOOLEAN /\ loading' \in BOOLEAN /\ waiting' \in BOOLEAN /\ demoTimers' \subseteq Nat
    BY <1>2, <1>r DEF ConnectTo, OpenBehindProxy
  <2>5. QED BY <2>1, <2>3, <2>4, <1>r, BeginAttemptType
<1>4. CASE ConnectToDemo
  <2>1. BeginAttempt(row, TRUE, NoSecret) BY <1>4 DEF ConnectToDemo
  <2>2. attempt' \in Nat BY <2>1, <1>n DEF BeginAttempt, EndAttempt
  <2>3. QED BY <1>4, <2>1, <2>2, <1>r, BeginAttemptType DEF ConnectToDemo
<1>5. ASSUME NEW s \in Secrets, NEW keep \in BOOLEAN, ConnectWithPassword(s, keep) PROVE TypeOK'
  <2> DEFINE kept == IF keep THEN s ELSE NoSecret
  <2>4. kept \in Secrets \cup {NoSecret} OBVIOUS
  <2>1. PICK k \in {NoSecret, kept} : BeginAttempt(profile, FALSE, k) BY <1>5 DEF ConnectWithPassword
  <2>2. attempt' \in Nat BY <2>1, <1>n DEF BeginAttempt, EndAttempt
  <2>3. stack' \in Seq(Frames)
    <3>1. CASE OpenBehindProxy(profile, s, kept) BY <3>1, <1>r, <2>2, <2>4, ProxyType
    <3>2. CASE Open("announce", profile, s) BY <3>2, <1>r, <2>2, OpenType
    <3>3. QED BY <1>5, <3>1, <3>2 DEF ConnectWithPassword
  <2>5. connecting' \in BOOLEAN /\ loading' \in BOOLEAN /\ waiting' \in BOOLEAN /\ demoTimers' \subseteq Nat
    BY <1>5, <1>r DEF ConnectWithPassword, OpenBehindProxy
  <2>6. k \in Secrets \cup {NoSecret} BY <2>4
  <2>7. QED BY <2>1, <2>3, <2>5, <2>6, <1>r, BeginAttemptType
<1>6. ASSUME NEW h \in Hosts, EditProfile(h) PROVE TypeOK'
  BY <1>6, <1>r DEF EditProfile, TypeOK, Profiles, flags, worker
<1>7. QED BY <1>1, <1>2, <1>4, <1>5, <1>6 DEF UserStep, UserDisconnects, IdleTimeout

\* Nested calls, reports and answers keep the types.
LEMMA TypeGui == TypeOK /\ (GuiStep \/ AnswerStep) => TypeOK'
<1> SUFFICES ASSUME TypeOK, GuiStep \/ AnswerStep PROVE TypeOK' OBVIOUS
<1> USE DEF flags, stores, worker
<1>p. CASE ProxyReturns
  <2> DEFINE r == [Top.request EXCEPT !.expected = knownHosts[Top.request.host]]
  <2>1. Top \in Frames /\ Top.kind = "proxy" /\ Pop \in Seq(Frames) BY <1>p, TopAndPop DEF ProxyReturns
  <2>2. Top.request \in Requests /\ Top.kept \in Secrets \cup {NoSecret} BY <2>1 DEF Frames
  <2>3. r \in Requests BY <2>2 DEF Requests, TypeOK
  <2> HIDE DEF r
  <2>4. ASSUME NEW kind \in {"load", "announce"} PROVE Append(Pop, [kind |-> kind, request |-> r]) \in Seq(Frames)
    BY <2>1, <2>3, PushFrame DEF Frames
  <2>5. stack' \in Seq(Frames) BY <1>p, <2>1, <2>4 DEF ProxyReturns, r
  <2>6. connecting' \in BOOLEAN /\ loading' \in BOOLEAN /\ waiting' \in BOOLEAN
        /\ remember' \in Secrets \cup {NoSecret} /\ connected' \in BOOLEAN
    BY <1>p, <2>2 DEF ProxyReturns, TypeOK
  <2>7. overwritten' \in BOOLEAN BY <1>p DEF ProxyReturns, TypeOK
  <2>8. QED BY <1>p, <2>5, <2>6, <2>7 DEF ProxyReturns, TypeOK
<1>1. CASE LoadReturns
  <2>1. Top \in Frames /\ Pop \in Seq(Frames) BY <1>1, TopAndPop DEF LoadReturns
  <2>2. Top.request \in Requests BY <1>1, <2>1 DEF LoadReturns, Frames
  <2>3. vault[profile.ref] \in Secrets \cup {NoSecret} BY DEF TypeOK, Profiles
  <2>4. [Top.request EXCEPT !.secret = vault[profile.ref]] \in Requests BY <2>2, <2>3 DEF Requests
  <2> DEFINE f == [kind |-> "announce", request |-> [Top.request EXCEPT !.secret = vault[profile.ref]]]
  <2>5. f \in Frames BY <2>4 DEF Frames
  <2>6. Append(Pop, f) \in Seq(Frames) BY <2>1, <2>5, PushFrame
  <2>7. stack' \in Seq(Frames) BY <1>1, <2>1, <2>6 DEF LoadReturns
  <2>8. QED BY <1>1, <2>7 DEF LoadReturns, TypeOK
<1>2. CASE AnnounceReturns
  <2>1. Top \in Frames /\ Pop \in Seq(Frames) BY <1>2, TopAndPop DEF AnnounceReturns
  <2>2. Top.request \in Requests BY <1>2, <2>1 DEF AnnounceReturns, Frames
  <2>3. [op |-> "connect", gen |-> tgen, request |-> Top.request] \in WorkerEvents
    BY <2>2 DEF WorkerEvents, TypeOK
  <2>4. toWorker' \in Seq(WorkerEvents)
    <3> DEFINE e == [op |-> "connect", gen |-> tgen, request |-> Top.request]
    <3> HIDE DEF e
    <3>1. Append(toWorker, e) \in Seq(WorkerEvents) BY <2>3, AppendProperties DEF TypeOK, e
    <3>2. QED BY <1>2, <3>1 DEF AnnounceReturns, TypeOK, e
  <2>5. QED BY <1>2, <2>1, <2>4 DEF AnnounceReturns, TypeOK
<1>3. ASSUME NEW a \in demoTimers, DemoTimerFires(a) PROVE TypeOK' BY <1>3 DEF DemoTimerFires, TypeOK
<1>4. CASE HandleConnected
  <2>1. toGui' \in Seq(GuiEvents) BY <1>4, DeliveredEvent DEF HandleConnected
  <2>2. ASSUME RememberSuccessfulCredential
        PROVE  /\ remember' \in Secrets \cup {NoSecret}
               /\ vault' \in [Refs -> Secrets \cup {NoSecret}]
               /\ row' \in Profiles /\ profile' \in Profiles
    <3>1. attempt + 1 \in Refs BY BoundAssumption DEF TypeOK, Refs
    <3>2. QED BY <2>2, <3>1 DEF RememberSuccessfulCredential, TypeOK, Profiles
  <2>3. QED BY <1>4, <2>1, <2>2 DEF HandleConnected, TypeOK
<1>5. CASE HandleProgress BY <1>5, DeliveredEvent DEF HandleProgress, TypeOK
<1>6. CASE HandleFailed BY <1>6, DeliveredEvent DEF HandleFailed, TypeOK
<1>7. CASE HandlePasswordRejected BY <1>7, DeliveredEvent DEF HandlePasswordRejected, TypeOK
<1>8. CASE HandleHostKey BY <1>8, DeliveredEvent, PushFrame DEF HandleHostKey, Deliver, GuiEvents, Frames, TypeOK
<1>9. ASSUME NEW approved \in BOOLEAN, AnswerHostKey(approved) PROVE TypeOK'
  BY <1>9, TopAndPop, AppendProperties DEF AnswerHostKey, WorkerEvents, TypeOK
<1>10. QED BY <1>p, <1>1, <1>2, <1>3, <1>4, <1>5, <1>6, <1>7, <1>8, <1>9 DEF GuiStep, AnswerStep

\* The worker and the loss of the transport keep the types.
LEMMA TypeWorker == TypeOK /\ (WorkerStep \/ TransportLost) => TypeOK'
<1> SUFFICES ASSUME TypeOK, WorkerStep \/ TransportLost PROVE TypeOK' OBVIOUS
<1> USE DEF flags, stores, gui
<1>f. Fail => wstate' \in Resting /\ toGui' \in Seq(GuiEvents) BY ReportType DEF Fail, Resting
<1>1. CASE WorkerConnects
  <2>1. toWorker' \in Seq(WorkerEvents) /\ Head(toWorker) \in WorkerEvents BY <1>1, TakenEvent DEF WorkerConnects
  <2>2. wactive' \in Nat /\ wjob' \in Requests BY <1>1, <2>1 DEF WorkerConnects, Take, WorkerEvents
  <2>3. [type |-> "progress", gen |-> wactive'] \in GuiEvents BY <2>2 DEF GuiEvents
  <2>4. toGui' \in Seq(GuiEvents)
    <3> DEFINE e == [type |-> "progress", gen |-> wactive']
    <3> HIDE DEF e
    <3>1. Append(toGui, e) \in Seq(GuiEvents) BY <2>3, AppendProperties DEF TypeOK, e
    <3>2. QED BY <1>1, <3>1 DEF WorkerConnects, TypeOK, e
  <2>5. QED BY <1>1, <2>1, <2>2, <2>4 DEF WorkerConnects, TypeOK, Resting, Busy
<1>2. CASE WorkerDisconnects BY <1>2, <1>f, TakenEvent DEF WorkerDisconnects, TypeOK
<1>3. CASE WorkerApproves BY <1>3, <1>f, TakenEvent, ReportType DEF WorkerApproves, TypeOK, Busy
<1>4. CASE StageFails BY <1>4, <1>f DEF StageFails, TypeOK
<1>5. CASE TcpDone BY <1>5, ReportType DEF TcpDone, TypeOK, Busy
<1>6. CASE HandshakeDone
  <2>1. [type |-> "hostKey", key |-> HostKey[wjob.host]] \in GuiEvents
    BY AddressAssumption DEF TypeOK, Requests, GuiEvents
  <2>2. Append(Report("progress"), [type |-> "hostKey", key |-> HostKey[wjob.host]]) \in Seq(GuiEvents)
    BY <2>1, ReportType, AppendProperties
  <2>3. QED BY <1>6, <2>2, <1>f, ReportType DEF HandshakeDone, TypeOK, Busy, Resting
<1>7. CASE AuthDone BY <1>7, ReportType DEF AuthDone, TypeOK, Busy
<1>8. CASE ReportRejected BY <1>8, ReportType DEF ReportRejected, TypeOK, Resting
<1>9. CASE ShellDone BY <1>9, ReportType DEF ShellDone, TypeOK, Resting
<1>10. CASE TransportLost BY <1>10, <1>f DEF TransportLost, TypeOK
<1>11. QED BY <1>1, <1>2, <1>3, <1>4, <1>5, <1>6, <1>7, <1>8, <1>9, <1>10 DEF WorkerStep

\* Every step keeps the types.
LEMMA TypeStep == TypeOK /\ [Next]_vars => TypeOK'
<1> SUFFICES ASSUME TypeOK, [Next]_vars PROVE TypeOK' OBVIOUS
<1>1. CASE UNCHANGED vars BY <1>1 DEF vars, flags, stores, worker, TypeOK
<1>2. QED BY <1>1, TypeUser, TypeGui, TypeWorker DEF Next

\* Whatever the interleaving of nested calls, queued events and worker stages,
\* the flags, queues, tables and positions of session and worker keep the
\* shape the code declares for them.
THEOREM TypeCorrect == Spec => []TypeOK
BY TypeInit, TypeStep, PTL DEF Spec

----
(* LoadingIsOpen and OrphanTransportCloses.  Neither is inductive alone: a  *)
(* call that returns late must be known to be of an earlier attempt, and a  *)
(* request that waits in the queue must be known to be either the latest or *)
(* canceled, before the worker takes it.                                    *)

\* An open call is of this attempt or an earlier one; one of this attempt
\* will send its request with the generation the worker expects.
CallsAreOfAttempts ==
    \A i \in DOMAIN stack : stack[i].kind # "dialog" =>
        /\ stack[i].request.attempt <= attempt
        /\ stack[i].request.attempt = attempt => tgen = wgen /\ ~demo

\* A queued request is canceled, or it is the one the session waits for.
RequestsAreWanted ==
    \A i \in DOMAIN toWorker : toWorker[i].op = "connect" =>
        /\ toWorker[i].gen <= wgen
        /\ toWorker[i].gen = wgen => tgen = wgen /\ ~demo

\* An open transport is the session's, or its teardown is queued.
TransportIsWanted ==
    /\ wactive <= wgen
    /\ wstate \notin {"idle", "rejected"} =>
           (wactive = wgen /\ tgen = wgen /\ ~demo) \/ Asked("disconnect")

IInv == TypeOK /\ LoadingIsOpen /\ CallsAreOfAttempts /\ RequestsAreWanted /\ TransportIsWanted

\* Every event in the queue of the worker is one.
LEMMA QueueElement ==
    ASSUME TypeOK, NEW i \in DOMAIN toWorker
    PROVE  toWorker[i] \in WorkerEvents /\ (toWorker[i].op = "connect" => toWorker[i].gen \in Nat)
BY ElementOfSeq, LenProperties DEF TypeOK, WorkerEvents

\* Every open call is a frame, and has an attempt unless it is a dialog.
LEMMA StackElement ==
    ASSUME TypeOK, NEW i \in DOMAIN stack
    PROVE  /\ stack[i] \in Frames
           /\ stack[i].kind # "dialog" => stack[i].request.attempt \in Nat
BY ElementOfSeq, LenProperties DEF TypeOK, Frames, Requests

\* What a queued event leaves behind it when another is added.
LEMMA Enqueued ==
    ASSUME TypeOK, NEW e \in WorkerEvents, toWorker' = Append(toWorker, e)
    PROVE  /\ \A i \in DOMAIN toWorker' : (i \in DOMAIN toWorker /\ toWorker'[i] = toWorker[i]) \/ toWorker'[i] = e
           /\ Asked("disconnect") => Asked("disconnect")'
           /\ e.op = "disconnect" => Asked("disconnect")'
<1> DEFINE n == Len(toWorker)
<1>1. n \in Nat /\ DOMAIN toWorker = 1 .. n BY LenProperties DEF TypeOK
<1>2. /\ toWorker' \in Seq(WorkerEvents) /\ Len(toWorker') = n + 1
      /\ \A i \in 1 .. n : toWorker'[i] = toWorker[i]
      /\ toWorker'[n + 1] = e BY AppendProperties DEF TypeOK
<1>3. DOMAIN toWorker' = 1 .. n + 1 BY <1>2, LenProperties
<1> HIDE DEF n
<1>4. \A i \in DOMAIN toWorker : i \in DOMAIN toWorker' /\ toWorker'[i] = toWorker[i] BY <1>1, <1>2, <1>3
<1>5. \A i \in DOMAIN toWorker' : (i \in DOMAIN toWorker /\ toWorker'[i] = toWorker[i]) \/ toWorker'[i] = e
  BY <1>1, <1>2, <1>3
<1>6. n + 1 \in DOMAIN toWorker' BY <1>1, <1>3
<1>7. QED BY <1>2, <1>4, <1>5, <1>6 DEF Asked

\* What is left in the queue when the worker takes an event.
LEMMA Dequeued ==
    ASSUME TypeOK, NEW op, Take(op)
    PROVE  /\ 1 \in DOMAIN toWorker /\ toWorker[1] = Head(toWorker)
           /\ \A i \in DOMAIN toWorker' : i + 1 \in DOMAIN toWorker /\ toWorker'[i] = toWorker[i + 1]
           /\ op # "disconnect" /\ Asked("disconnect") => Asked("disconnect")'
<1> DEFINE n == Len(toWorker)
<1>1. toWorker \in Seq(WorkerEvents) /\ toWorker # <<>> /\ toWorker' = Tail(toWorker) /\ Head(toWorker).op = op
  BY DEF TypeOK, Take
<1>2. n \in Nat \ {0} /\ DOMAIN toWorker = 1 .. n BY <1>1, LenProperties, EmptySeq
<1>3. /\ Tail(toWorker) \in Seq(WorkerEvents) /\ Len(Tail(toWorker)) = n - 1
      /\ \A i \in 1 .. Len(Tail(toWorker)) : Tail(toWorker)[i] = toWorker[i + 1] BY <1>1, HeadTailProperties
<1>4. DOMAIN toWorker' = 1 .. n - 1 BY <1>1, <1>3, LenProperties
<1>5. toWorker[1] = Head(toWorker) BY <1>1
<1> HIDE DEF n
<1>6. \A i \in DOMAIN toWorker' : i + 1 \in DOMAIN toWorker /\ toWorker'[i] = toWorker[i + 1]
  BY <1>1, <1>2, <1>3, <1>4
<1>7. ASSUME op # "disconnect", NEW i \in DOMAIN toWorker, toWorker[i].op = "disconnect"
      PROVE  Asked("disconnect")'
  <2>1. i # 1 BY <1>1, <1>5, <1>7
  <2>2. i - 1 \in DOMAIN toWorker' /\ i - 1 + 1 = i BY <1>2, <1>4, <2>1
  <2>3. toWorker'[i - 1].op = "disconnect" BY <1>6, <1>7, <2>2
  <2>4. QED BY <2>2, <2>3 DEF Asked
<1>8. QED BY <1>2, <1>5, <1>6, <1>7 DEF Asked

\* The end of an attempt cancels everything that was on its way for it.
LEMMA AttemptOver ==
    ASSUME IInv, NEW kept, EndAttempt(kept), UNCHANGED worker
    PROVE  /\ RequestsAreWanted' /\ TransportIsWanted'
           /\ \A i \in DOMAIN stack : stack[i].kind # "dialog" => stack[i].request.attempt < attempt'
<1>1. attempt \in Nat /\ attempt' = attempt + 1 BY BoundAssumption DEF IInv, TypeOK, EndAttempt
<1>2. \A i \in DOMAIN stack : stack[i].kind # "dialog" => stack[i].request.attempt < attempt'
  BY <1>1, StackElement DEF IInv, CallsAreOfAttempts
<1>3. wgen \in Nat /\ wactive \in Nat BY DEF IInv, TypeOK
<1>4. CASE demo
  <2>1. wgen' = wgen /\ toWorker' = toWorker BY <1>4 DEF EndAttempt, CancelTransport
  <2>2. \A i \in DOMAIN toWorker : toWorker[i].op = "connect" => toWorker[i].gen <= wgen /\ toWorker[i].gen # wgen
    BY <1>4 DEF IInv, RequestsAreWanted
  <2>3. RequestsAreWanted' BY <2>1, <2>2 DEF RequestsAreWanted
  <2>4. TransportIsWanted' BY <1>4, <2>1 DEF IInv, TransportIsWanted, Asked, worker
  <2>5. QED BY <1>2, <2>3, <2>4
<1>5. CASE ~demo
  <2> DEFINE e == [op |-> "disconnect"]
  <2>1. wgen' = wgen + 1 /\ toWorker' = Append(toWorker, e) BY <1>5 DEF EndAttempt, CancelTransport
  <2>2. e \in WorkerEvents /\ e.op = "disconnect" BY DEF WorkerEvents
  <2> HIDE DEF e
  <2>3. /\ \A i \in DOMAIN toWorker' : (i \in DOMAIN toWorker /\ toWorker'[i] = toWorker[i]) \/ toWorker'[i] = e
        /\ Asked("disconnect")' BY <2>1, <2>2, Enqueued DEF IInv
  <2>4. \A i \in DOMAIN toWorker : toWorker[i].op = "connect" => toWorker[i].gen <= wgen' /\ toWorker[i].gen # wgen'
    BY <1>3, <2>1, QueueElement DEF IInv, RequestsAreWanted
  <2>5. RequestsAreWanted' BY <2>2, <2>3, <2>4 DEF RequestsAreWanted
  <2>6. wactive' <= wgen' BY <1>3, <2>1 DEF IInv, TransportIsWanted, worker
  <2>7. TransportIsWanted' BY <2>3, <2>6 DEF TransportIsWanted
  <2>8. QED BY <1>2, <2>5, <2>7
<1>6. QED BY <1>4, <1>5

\* A call an attempt begins with: the latest, and of the provider if it loads.
OfBegun(f) == f.request.attempt = attempt' /\ (loading' => f.kind = "load")

LEMMA OpensOfBegun ==
    ASSUME NEW p, NEW s, NEW k
    PROVE  /\ OpenBehindProxy(p, s, k) => \E f : stack' = Append(stack, f) /\ f.kind = "proxy" /\ OfBegun(f)
           /\ \A kind : Open(kind, p, s) /\ (loading' => kind = "load") =>
                 \E f : stack' = Append(stack, f) /\ f.kind = kind /\ OfBegun(f)
<1>1. ASSUME NEW f, stack' = Append(stack, f), f.request.attempt = attempt', loading' => f.kind = "load"
      PROVE  \E g : stack' = Append(stack, g) /\ g.kind = f.kind /\ OfBegun(g) BY <1>1 DEF OfBegun
<1>2. ASSUME OpenBehindProxy(p, s, k)
      PROVE  \E f : stack' = Append(stack, f) /\ f.kind = "proxy" /\ OfBegun(f)
  <2> DEFINE f == [kind |-> "proxy", ref |-> p.ref, kept |-> k,
                   request |-> [attempt |-> attempt', host |-> p.host, expected |-> NoKey, secret |-> s]]
  <2>1. stack' = Append(stack, f) /\ ~loading' BY <1>2 DEF OpenBehindProxy
  <2>2. f.request.attempt = attempt' /\ f.kind = "proxy" OBVIOUS
  <2> HIDE DEF f
  <2>3. QED BY <1>1, <2>1, <2>2
<1>3. ASSUME NEW kind, Open(kind, p, s), loading' => kind = "load"
      PROVE  \E f : stack' = Append(stack, f) /\ f.kind = kind /\ OfBegun(f)
  <2> DEFINE f == [kind |-> kind, request |-> [attempt |-> attempt', host |-> p.host,
                                               expected |-> knownHosts[p.host], secret |-> s]]
  <2>1. stack' = Append(stack, f) BY <1>3 DEF Open
  <2>2. f.request.attempt = attempt' /\ f.kind = kind OBVIOUS
  <2> HIDE DEF f
  <2>3. QED BY <1>1, <1>3, <2>1, <2>2
<1>4. QED BY <1>2, <1>3

\* An attempt begins with the calls of earlier ones below its own, if any.
LEMMA AttemptBegun ==
    ASSUME IInv, TypeOK', NEW p, NEW isDemo, NEW kept, BeginAttempt(p, isDemo, kept),
           \/ stack' = stack /\ ~loading'
           \/ \E f : stack' = Append(stack, f) /\ OfBegun(f) /\ ~isDemo
    PROVE  IInv'
<1>1. EndAttempt(kept) /\ UNCHANGED worker /\ tgen' = wgen' /\ demo' = isDemo BY DEF BeginAttempt
<1>2. /\ RequestsAreWanted' /\ TransportIsWanted'
      /\ \A i \in DOMAIN stack : stack[i].kind # "dialog" => stack[i].request.attempt < attempt'
  BY <1>1, AttemptOver
<1>3. attempt' \in Nat BY BoundAssumption DEF TypeOK
<1>4. \A i \in DOMAIN stack : stack[i].kind # "dialog" =>
          stack[i].request.attempt <= attempt' /\ stack[i].request.attempt # attempt'
  BY <1>2, <1>3, StackElement DEF IInv
<1>5. CASE stack' = stack /\ ~loading' BY <1>2, <1>4, <1>5 DEF IInv, CallsAreOfAttempts, LoadingIsOpen
<1>6. ASSUME NEW f, stack' = Append(stack, f), OfBegun(f), ~isDemo
      PROVE  IInv'
  <2>1. stack' = Append(stack, f) BY <1>6
  <2>2. f.request.attempt = attempt' /\ ~isDemo BY <1>6 DEF OfBegun
  <2>3. Len(stack) \in Nat /\ DOMAIN stack = 1 .. Len(stack) BY LenProperties DEF IInv, TypeOK
  <2>4. /\ DOMAIN stack' = 1 .. Len(stack) + 1
        /\ \A i \in 1 .. Len(stack) : stack'[i] = stack[i]
        /\ stack'[Len(stack) + 1] = f
    <3>1. stack \in Seq(Frames \cup {f}) BY SeqMonotonic DEF IInv, TypeOK
    <3>2. QED BY <2>1, <3>1, AppendProperties, LenProperties
  <2>5. CallsAreOfAttempts'
    <3>1. ASSUME NEW i \in DOMAIN stack', stack'[i].kind # "dialog"
          PROVE  /\ stack'[i].request.attempt <= attempt'
                 /\ stack'[i].request.attempt = attempt' => tgen' = wgen' /\ ~demo'
      BY <1>4, <2>3, <2>4, <3>1, <1>1, <1>3, <2>2
    <3>2. QED BY <3>1 DEF CallsAreOfAttempts
  <2>6. LoadingIsOpen' BY <2>2, <2>3, <2>4, <1>6 DEF LoadingIsOpen, OpenFrame, OfBegun
  <2>7. QED BY <1>2, <2>5, <2>6 DEF IInv
<1>7. QED BY <1>5, <1>6

\* A call that returns leaves the calls below it.
LEMMA PoppedCalls ==
    ASSUME IInv, stack # <<>>
    PROVE  /\ DOMAIN Pop \subseteq DOMAIN stack
           /\ \A i \in DOMAIN Pop : Pop[i] = stack[i]
           /\ \A i \in DOMAIN stack : i \in DOMAIN Pop \/ stack[i] = Top
           /\ DOMAIN Pop = 1 .. Len(Pop) /\ Len(Pop) \in Nat
<1>1. /\ Pop \in Seq(Frames) /\ Len(stack) \in Nat \ {0} /\ Len(Pop) = Len(stack) - 1
      /\ \A i \in 1 .. Len(stack) - 1 : Pop[i] = stack[i] BY TopAndPop DEF IInv
<1>2. DOMAIN Pop = 1 .. Len(stack) - 1 BY <1>1, LenProperties
<1>3. DOMAIN stack = 1 .. Len(stack) BY LenProperties DEF IInv, TypeOK
<1>4. QED BY <1>1, <1>2, <1>3 DEF Top

\* The invariant holds at the start.
LEMMA InvInit == Init => IInv
<1> SUFFICES ASSUME Init PROVE IInv OBVIOUS
<1>1. DOMAIN stack = {} /\ DOMAIN toWorker = {} BY DEF Init
<1>2. QED BY <1>1, TypeInit DEF Init, IInv, LoadingIsOpen, CallsAreOfAttempts, RequestsAreWanted, TransportIsWanted

\* The user and the idle timer keep the invariant.
LEMMA InvUser == IInv /\ (UserStep \/ IdleTimeout) => IInv'
<1> SUFFICES ASSUME IInv, UserStep \/ IdleTimeout PROVE IInv' OBVIOUS
<1>t. TypeOK' BY TypeUser DEF IInv
<1>1. CASE DisconnectFromHost
  <2>1. EndAttempt(NoSecret) /\ UNCHANGED <<worker, stack>> /\ ~loading' BY <1>1 DEF DisconnectFromHost, worker
  <2>2. /\ RequestsAreWanted' /\ TransportIsWanted'
        /\ \A i \in DOMAIN stack : stack[i].kind # "dialog" => stack[i].request.attempt < attempt'
    BY <2>1, AttemptOver
  <2>3. attempt' \in Nat BY <1>t, BoundAssumption DEF TypeOK
  <2>4. \A i \in DOMAIN stack : stack[i].kind # "dialog" =>
            stack[i].request.attempt <= attempt' /\ stack[i].request.attempt # attempt'
    BY <2>2, <2>3, StackElement DEF IInv
  <2>5. CallsAreOfAttempts' BY <2>1, <2>4 DEF CallsAreOfAttempts
  <2>6. LoadingIsOpen' BY <2>1 DEF LoadingIsOpen
  <2>7. QED BY <1>t, <2>2, <2>5, <2>6 DEF IInv
<1>2. ASSUME NEW s \in Secrets \cup {NoSecret}, ConnectTo(s) PROVE IInv'
  <2>1. BeginAttempt(row, FALSE, NoSecret) BY <1>2 DEF ConnectTo
  <2>2. \/ stack' = stack /\ ~loading'
        \/ OpenBehindProxy(row, s, NoSecret)
        \/ Open("load", row, NoSecret) \/ (Open("announce", row, s) /\ ~loading') BY <1>2 DEF ConnectTo
  <2>3. QED BY <1>t, <2>1, <2>2, AttemptBegun, OpensOfBegun
<1>4. CASE ConnectToDemo BY <1>4, <1>t, AttemptBegun DEF ConnectToDemo
<1>5. ASSUME NEW s \in Secrets, NEW keep \in BOOLEAN, ConnectWithPassword(s, keep) PROVE IInv'
  <2> DEFINE kept == IF keep THEN s ELSE NoSecret
  <2>1. PICK k \in {NoSecret, kept} : BeginAttempt(profile, FALSE, k) BY <1>5 DEF ConnectWithPassword
  <2>2. OpenBehindProxy(profile, s, kept) \/ (Open("announce", profile, s) /\ ~loading')
    BY <1>5 DEF ConnectWithPassword
  <2> HIDE DEF kept
  <2>3. \E f : stack' = Append(stack, f) /\ OfBegun(f) BY <2>2, OpensOfBegun
  <2>4. QED BY <1>t, <2>1, <2>3, AttemptBegun
<1>6. ASSUME NEW h \in Hosts, EditProfile(h) PROVE IInv'
  BY <1>6, <1>t DEF EditProfile, IInv, flags, worker, LoadingIsOpen, OpenFrame, CallsAreOfAttempts,
     RequestsAreWanted, TransportIsWanted, Asked
<1>7. QED BY <1>1, <1>2, <1>4, <1>5, <1>6 DEF UserStep, UserDisconnects, IdleTimeout

\* Returns from nested calls, and what opens or answers a dialog, keep the invariant.
LEMMA InvCalls == IInv /\ (ProxyReturns \/ LoadReturns \/ AnnounceReturns \/ HandleHostKey \/ AnswerStep) => IInv'
<1> SUFFICES ASSUME IInv, ProxyReturns \/ LoadReturns \/ AnnounceReturns \/ HandleHostKey \/ AnswerStep
             PROVE  IInv' OBVIOUS
<1>t. TypeOK' BY TypeGui DEF IInv, GuiStep
<1>1. CASE ProxyReturns \/ LoadReturns
  <2>1. /\ stack # <<>> /\ Top.kind \in {"proxy", "load"} /\ UNCHANGED <<attempt, tgen, demo, wgen, worker, toWorker>>
        /\ Top.kind = "load" => overwritten' = overwritten
        /\ Top.kind = "proxy" => overwritten' = (overwritten \/
               (Top.request.attempt # attempt /\ <<flags, remember>>' # <<flags, remember>>))
    BY <1>1 DEF ProxyReturns, LoadReturns
  <2>2. /\ DOMAIN Pop \subseteq DOMAIN stack /\ \A i \in DOMAIN Pop : Pop[i] = stack[i]
        /\ \A i \in DOMAIN stack : i \in DOMAIN Pop \/ stack[i] = Top
        /\ DOMAIN Pop = 1 .. Len(Pop) /\ Len(Pop) \in Nat BY <2>1, PoppedCalls
  <2>3. RequestsAreWanted' /\ TransportIsWanted'
    BY <2>1 DEF IInv, RequestsAreWanted, TransportIsWanted, Asked, worker
  <2>l. ASSUME loading' = loading \/ Top.request.attempt # attempt, \A i \in DOMAIN Pop : stack'[i] = Pop[i],
               DOMAIN Pop \subseteq DOMAIN stack', Top.request.attempt = attempt => Top.kind # "load"
        PROVE  LoadingIsOpen'
    <3>0. <<flags, remember>>' = <<flags, remember>> => flags' = flags /\ loading' = loading BY DEF flags
    <3>4. ASSUME Top.kind = "load" PROVE loading' = loading
      <4>1. Top.request.attempt # attempt => UNCHANGED flags BY <1>1, <3>4 DEF ProxyReturns, LoadReturns
      <4> QED BY <4>1, <2>l DEF flags
    <3>5. ASSUME Top.kind = "proxy" PROVE loading' = loading \/ overwritten'
      <4>1. Top.request.attempt # attempt /\ loading' # loading => overwritten' BY <2>1, <3>5, <3>0
      <4> QED BY <4>1, <2>l
    <3>1. loading' = loading \/ overwritten' BY <2>1, <3>4, <3>5
    <3>2. overwritten => overwritten' BY <2>1
    <3>3. QED BY <2>1, <2>2, <2>l, <3>1, <3>2 DEF IInv, LoadingIsOpen, OpenFrame
  <2>5. ASSUME stack' = Pop, ~loading' \/ LoadingIsOpen' PROVE IInv'
    BY <2>1, <2>2, <2>5, <1>t, <2>3 DEF IInv, CallsAreOfAttempts, LoadingIsOpen
  <2>6. ASSUME NEW f, f.request.attempt = Top.request.attempt, stack' = Append(Pop, f),
               \/ ~loading' \/ (Top.kind = "proxy" /\ loading' = loading)
               \/ f.kind = "load" /\ f.request.attempt = attempt
        PROVE  IInv'
    <3>1. Top \in Frames /\ Pop \in Seq(Frames) BY <2>1, TopAndPop DEF IInv
    <3>2. Pop \in Seq(Frames \cup {f}) BY <3>1, SeqMonotonic
    <3>3. /\ Append(Pop, f) \in Seq(Frames \cup {f}) /\ Len(Append(Pop, f)) = Len(Pop) + 1
          /\ \A i \in 1 .. Len(Pop) : Append(Pop, f)[i] = Pop[i]
          /\ Append(Pop, f)[Len(Pop) + 1] = f BY <3>2, AppendProperties
    <3>4. DOMAIN stack' = 1 .. Len(Pop) + 1 BY <2>6, <3>3, LenProperties
    <3>5. Len(stack) \in DOMAIN stack BY <2>1, LenProperties, EmptySeq DEF IInv, TypeOK
    <3>6. /\ f.request.attempt <= attempt
          /\ f.request.attempt = attempt => tgen = wgen /\ ~demo
      BY <2>1, <2>6, <3>5 DEF IInv, CallsAreOfAttempts, Top
    <3>7. \A i \in DOMAIN stack' : stack'[i] = f \/ (i \in DOMAIN stack /\ stack'[i] = stack[i])
      BY <2>2, <2>6, <3>3, <3>4
    <3>8. CallsAreOfAttempts' BY <2>1, <3>6, <3>7 DEF IInv, CallsAreOfAttempts
    <3>9. \A i \in DOMAIN Pop : i \in DOMAIN stack' /\ stack'[i] = Pop[i] BY <2>2, <2>6, <3>3, <3>4
    <3>10. Len(Pop) + 1 \in DOMAIN stack' /\ stack'[Len(Pop) + 1] = f BY <2>2, <2>6, <3>3, <3>4
    <3>11. LoadingIsOpen'
      <4>1. CASE ~loading' BY <4>1 DEF LoadingIsOpen
      <4>2. CASE Top.kind = "proxy" /\ loading' = loading BY <2>l, <3>9, <4>2
      <4>3. CASE f.kind = "load" /\ f.request.attempt = attempt
        BY <2>1, <3>10, <4>3 DEF LoadingIsOpen, OpenFrame
      <4>4. QED BY <2>6, <4>1, <4>2, <4>3
    <3>12. QED BY <1>t, <2>3, <3>8, <3>11 DEF IInv
  <2>7. CASE LoadReturns
    <3>t. Top.kind = "load" BY <2>7 DEF LoadReturns
    <3>1. Top.request \in Requests BY <2>1, TopAndPop DEF IInv, Frames
    <3> DEFINE f == [kind |-> "announce", request |-> [Top.request EXCEPT !.secret = vault[profile.ref]]]
    <3>2. f.request.attempt = Top.request.attempt BY <3>1 DEF Requests
    <3>3. \/ Top.request.attempt # attempt /\ stack' = Pop /\ UNCHANGED flags
          \/ stack' = Pop /\ ~loading'
          \/ stack' = Append(Pop, f) /\ ~loading' BY <2>7 DEF LoadReturns
    <3> HIDE DEF f
    <3>4. CASE Top.request.attempt # attempt /\ stack' = Pop /\ UNCHANGED flags BY <2>l, <2>5, <3>4 DEF flags
    <3>5. CASE stack' = Pop /\ ~loading' BY <2>5, <3>5
    <3>6. CASE stack' = Append(Pop, f) /\ ~loading' BY <2>6, <3>2, <3>6
    <3>7. QED BY <3>3, <3>4, <3>5, <3>6
  <2>8. CASE ProxyReturns
    <3>t. Top.kind = "proxy" BY <2>8 DEF ProxyReturns
    <3>1. Top.request \in Requests BY <2>1, TopAndPop DEF IInv, Frames
    <3> DEFINE r == [Top.request EXCEPT !.expected = knownHosts[Top.request.host]]
    <3>2. r.attempt = Top.request.attempt BY <3>1 DEF Requests
    <3> HIDE DEF r
    <3>3. \/ stack' = Pop /\ (loading' = loading \/ Top.request.attempt # attempt)
          \/ r.attempt = attempt /\ stack' = Append(Pop, [kind |-> "load", request |-> r])
          \/ stack' = Append(Pop, [kind |-> "announce", request |-> r]) /\ loading' = loading
      BY <2>8, <3>2 DEF ProxyReturns, r
    <3>4. CASE stack' = Pop /\ (loading' = loading \/ Top.request.attempt # attempt) BY <2>l, <2>5, <3>4, <3>t
    <3>5. ASSUME NEW kind, stack' = Append(Pop, [kind |-> kind, request |-> r]),
                 (kind = "load" /\ r.attempt = attempt) \/ loading' = loading
          PROVE  IInv'
      <4> DEFINE f == [kind |-> kind, request |-> r]
      <4>1. f.kind = kind /\ f.request = r /\ stack' = Append(Pop, f) BY <3>5
      <4> HIDE DEF f
      <4>2. QED BY <2>6, <3>2, <3>5, <3>t, <4>1
    <3>6. QED BY <3>3, <3>4, <3>5
  <2>9. QED BY <1>1, <2>7, <2>8
<1>2. CASE AnnounceReturns
  <2>1. /\ stack # <<>> /\ Top.kind = "announce" /\ stack' = Pop
        /\ UNCHANGED <<loading, overwritten, attempt, tgen, demo, wgen, worker>>
    BY <1>2 DEF AnnounceReturns, flags
  <2>2. /\ DOMAIN Pop \subseteq DOMAIN stack /\ \A i \in DOMAIN Pop : Pop[i] = stack[i]
        /\ \A i \in DOMAIN stack : i \in DOMAIN Pop \/ stack[i] = Top BY <2>1, PoppedCalls
  <2>3. CallsAreOfAttempts' BY <2>1, <2>2 DEF IInv, CallsAreOfAttempts
  <2>4. LoadingIsOpen' BY <2>1, <2>2 DEF IInv, LoadingIsOpen, OpenFrame
  <2>5. CASE Top.request.attempt = attempt
    <3> DEFINE e == [op |-> "connect", gen |-> tgen, request |-> Top.request]
    <3>1. Top.request \in Requests BY <2>1, TopAndPop DEF IInv, Frames
    <3>2. e \in WorkerEvents BY <3>1 DEF IInv, TypeOK, WorkerEvents
    <3>3. e.gen = tgen OBVIOUS
    <3>4. toWorker' = Append(toWorker, e) BY <1>2, <2>5 DEF AnnounceReturns
    <3> HIDE DEF e
    <3>5. /\ \A i \in DOMAIN toWorker' : (i \in DOMAIN toWorker /\ toWorker'[i] = toWorker[i]) \/ toWorker'[i] = e
          /\ Asked("disconnect") => Asked("disconnect")' BY <3>2, <3>4, Enqueued DEF IInv
    <3>6. Len(stack) \in DOMAIN stack BY <2>1, LenProperties, EmptySeq DEF IInv, TypeOK
    <3>7. tgen = wgen /\ ~demo BY <2>1, <2>5, <3>6 DEF IInv, CallsAreOfAttempts, Top
    <3>8. wgen <= wgen BY DEF IInv, TypeOK
    <3>9. RequestsAreWanted' BY <2>1, <3>3, <3>5, <3>7, <3>8 DEF IInv, RequestsAreWanted
    <3>10. TransportIsWanted' BY <2>1, <3>5 DEF IInv, TransportIsWanted, worker
    <3>11. QED BY <1>t, <2>3, <2>4, <3>9, <3>10 DEF IInv
  <2>6. CASE Top.request.attempt # attempt
    BY <1>2, <2>6, <2>1, <1>t, <2>3, <2>4 DEF AnnounceReturns, IInv, RequestsAreWanted, TransportIsWanted, Asked, worker
  <2>7. QED BY <2>5, <2>6
<1>3. CASE HandleHostKey
  <2> DEFINE f == [kind |-> "dialog"]
  <2>1. stack' = Append(stack, f) /\ UNCHANGED <<loading, overwritten, attempt, tgen, demo, wgen, worker, toWorker>>
    BY <1>3 DEF HandleHostKey, flags
  <2>2. f \in Frames /\ f.kind = "dialog" BY DEF Frames
  <2> HIDE DEF f
  <2>3. /\ Len(stack') = Len(stack) + 1 /\ \A i \in 1 .. Len(stack) : stack'[i] = stack[i]
        /\ stack'[Len(stack) + 1] = f BY <2>1, <2>2, PushFrame DEF IInv, TypeOK
  <2>4. Len(stack) \in Nat /\ DOMAIN stack = 1 .. Len(stack) BY LenProperties DEF IInv, TypeOK
  <2>5. DOMAIN stack' = 1 .. Len(stack) + 1 BY <1>t, <2>3, LenProperties DEF TypeOK
  <2>6. \A i \in DOMAIN stack' : stack'[i] = f \/ (i \in DOMAIN stack /\ stack'[i] = stack[i])
    BY <2>3, <2>4, <2>5
  <2>7. \A i \in DOMAIN stack : i \in DOMAIN stack' /\ stack'[i] = stack[i] BY <2>3, <2>4, <2>5
  <2>8. CallsAreOfAttempts' BY <2>1, <2>2, <2>6 DEF IInv, CallsAreOfAttempts
  <2>9. LoadingIsOpen' BY <2>1, <2>7 DEF IInv, LoadingIsOpen, OpenFrame
  <2>10. RequestsAreWanted' /\ TransportIsWanted'
    BY <2>1 DEF IInv, RequestsAreWanted, TransportIsWanted, Asked, worker
  <2>11. QED BY <1>t, <2>8, <2>9, <2>10 DEF IInv
<1>4. ASSUME NEW approved \in BOOLEAN, AnswerHostKey(approved) PROVE IInv'
  <2> DEFINE e == [op |-> "approve", approved |-> approved]
  <2>1. /\ stack # <<>> /\ Top.kind = "dialog" /\ stack' = Pop /\ toWorker' = Append(toWorker, e)
        /\ UNCHANGED <<loading, overwritten, attempt, tgen, demo, wgen, worker>>
    BY <1>4 DEF AnswerHostKey, flags
  <2>2. e \in WorkerEvents /\ e.op = "approve" BY DEF WorkerEvents
  <2> HIDE DEF e
  <2>3. /\ DOMAIN Pop \subseteq DOMAIN stack /\ \A i \in DOMAIN Pop : Pop[i] = stack[i]
        /\ \A i \in DOMAIN stack : i \in DOMAIN Pop \/ stack[i] = Top BY <2>1, PoppedCalls
  <2>4. /\ \A i \in DOMAIN toWorker' : (i \in DOMAIN toWorker /\ toWorker'[i] = toWorker[i]) \/ toWorker'[i] = e
        /\ Asked("disconnect") => Asked("disconnect")' BY <2>1, <2>2, Enqueued DEF IInv
  <2>5. CallsAreOfAttempts' BY <2>1, <2>3 DEF IInv, CallsAreOfAttempts
  <2>6. LoadingIsOpen' BY <2>1, <2>3 DEF IInv, LoadingIsOpen, OpenFrame
  <2>7. RequestsAreWanted' BY <2>1, <2>2, <2>4 DEF IInv, RequestsAreWanted
  <2>8. TransportIsWanted' BY <2>1, <2>4 DEF IInv, TransportIsWanted, worker
  <2>9. QED BY <1>t, <2>5, <2>6, <2>7, <2>8 DEF IInv
<1>5. QED BY <1>1, <1>2, <1>3, <1>4 DEF AnswerStep

\* A step that leaves generations, calls, requests and the worker alone keeps the invariant.
LEMMA InvUnmoved ==
    ASSUME IInv, TypeOK', UNCHANGED <<loading, overwritten, attempt, tgen, demo, wgen, stack, toWorker, worker>>
    PROVE  IInv'
BY DEF IInv, LoadingIsOpen, OpenFrame, CallsAreOfAttempts, RequestsAreWanted, TransportIsWanted, Asked, worker

\* The GUI thread keeps the invariant.
LEMMA InvGui == IInv /\ (GuiStep \/ AnswerStep) => IInv'
<1> SUFFICES ASSUME IInv, GuiStep \/ AnswerStep PROVE IInv' OBVIOUS
<1>t. TypeOK' BY TypeGui DEF IInv
<1>1. CASE ProxyReturns \/ LoadReturns \/ AnnounceReturns \/ HandleHostKey \/ AnswerStep BY <1>1, InvCalls
<1>2. ASSUME NEW a \in demoTimers, DemoTimerFires(a) PROVE IInv' BY <1>2, <1>t, InvUnmoved DEF DemoTimerFires
<1>3. CASE HandleConnected BY <1>3, <1>t, InvUnmoved DEF HandleConnected
<1>4. CASE HandleProgress BY <1>4, <1>t, InvUnmoved DEF HandleProgress
<1>5. CASE HandleFailed BY <1>5, <1>t, InvUnmoved DEF HandleFailed
<1>6. CASE HandlePasswordRejected BY <1>6, <1>t, InvUnmoved DEF HandlePasswordRejected
<1>7. QED BY <1>1, <1>2, <1>3, <1>4, <1>5, <1>6 DEF GuiStep

\* The worker and the loss of the transport keep the invariant.
LEMMA InvWorker == IInv /\ (WorkerStep \/ TransportLost) => IInv'
<1> SUFFICES ASSUME IInv, WorkerStep \/ TransportLost PROVE IInv' OBVIOUS
<1>t. TypeOK' BY TypeWorker DEF IInv
<1>g. UNCHANGED <<loading, overwritten, attempt, tgen, demo, wgen, stack>>
  BY DEF WorkerStep, WorkerConnects, WorkerDisconnects, WorkerApproves, StageFails, TcpDone, HandshakeDone,
     AuthDone, ReportRejected, ShellDone, TransportLost, gui, flags
<1>1. LoadingIsOpen' /\ CallsAreOfAttempts' BY <1>g DEF IInv, LoadingIsOpen, OpenFrame, CallsAreOfAttempts
<1>2. ASSUME UNCHANGED <<wactive, toWorker>>, wstate \notin {"idle", "rejected"} \/ wstate' \in {"idle", "rejected"}
      PROVE  IInv' BY <1>t, <1>g, <1>1, <1>2 DEF IInv, RequestsAreWanted, TransportIsWanted, Asked
<1>3. ASSUME NEW op, Take(op) PROVE RequestsAreWanted' BY <1>3, <1>g, Dequeued DEF IInv, RequestsAreWanted
<1>4. CASE WorkerConnects
  <2>1. Take("connect") /\ wactive' = Head(toWorker).gen
        /\ ((wactive' # wgen /\ wstate' = "idle") \/ wactive' = wgen) BY <1>4 DEF WorkerConnects
  <2>2. 1 \in DOMAIN toWorker /\ toWorker[1] = Head(toWorker) BY <2>1, Dequeued DEF IInv
  <2>3. toWorker[1].op = "connect" BY <2>1, <2>2 DEF Take
  <2>4. wactive' <= wgen /\ (wactive' = wgen => tgen = wgen /\ ~demo)
    BY <2>1, <2>2, <2>3 DEF IInv, RequestsAreWanted
  <2>5. TransportIsWanted' BY <1>g, <2>1, <2>4 DEF TransportIsWanted
  <2>6. QED BY <1>t, <1>1, <1>3, <2>1, <2>5 DEF IInv
<1>5. CASE WorkerDisconnects BY <1>5, <1>g, <1>t, <1>1, <1>3 DEF WorkerDisconnects, Fail, IInv, TransportIsWanted
<1>6. CASE WorkerApproves BY <1>6, <1>g, <1>t, <1>1, <1>3, Dequeued DEF WorkerApproves, IInv, TransportIsWanted
<1>7. CASE StageFails BY <1>2, <1>7 DEF StageFails, Fail
<1>8. CASE TcpDone BY <1>2, <1>8 DEF TcpDone
<1>9. CASE HandshakeDone BY <1>2, <1>9 DEF HandshakeDone
<1>10. CASE AuthDone BY <1>2, <1>10 DEF AuthDone
<1>11. CASE ReportRejected BY <1>2, <1>11 DEF ReportRejected
<1>12. CASE ShellDone BY <1>2, <1>12 DEF ShellDone
<1>13. CASE TransportLost BY <1>2, <1>13 DEF TransportLost, Fail
<1>14. QED BY <1>4, <1>5, <1>6, <1>7, <1>8, <1>9, <1>10, <1>11, <1>12, <1>13 DEF WorkerStep

\* Every step keeps the invariant.
LEMMA InvStep == IInv /\ [Next]_vars => IInv'
<1> SUFFICES ASSUME IInv, [Next]_vars PROVE IInv' OBVIOUS
<1>1. CASE UNCHANGED vars BY <1>1, TypeStep, InvUnmoved DEF IInv, vars, flags
<1>2. QED BY <1>1, InvUser, InvGui, InvWorker DEF Next

\* A session that refuses every connectTo because it is loading credentials
\* has an open call of the provider that will end the loading.
THEOREM LoadingCorrect == Spec => []LoadingIsOpen
<1>1. IInv => LoadingIsOpen BY DEF IInv
<1>2. QED BY <1>1, InvInit, InvStep, PTL DEF Spec

\* However calls nest and attempts replace each other, a transport the worker
\* holds open is the session's own or has its teardown queued.
THEOREM OrphansClose == Spec => []OrphanTransportCloses
<1>1. IInv => OrphanTransportCloses BY DEF IInv, TransportIsWanted, OrphanTransportCloses
<1>2. QED BY <1>1, InvInit, InvStep, PTL DEF Spec

----
(* PaneIsBacked.  What the pane shows follows from reports that are still on *)
(* their way, so the invariant describes the two queues: a generation is     *)
(* asked for once and in order, all that was reported for the wanted one     *)
(* came in order, fits the state the worker is in and is news to the pane.   *)

\* A report of the worker, as opposed to the question for a host key.
IsReport(e) == e.type # "hostKey"
Sent(g) == \E i \in DOMAIN toWorker : toWorker[i].op = "connect" /\ toWorker[i].gen = g
Reported(g) == \E i \in DOMAIN toGui : IsReport(toGui[i]) /\ toGui[i].gen = g
NothingOf(g) == ~Sent(g) /\ ~Reported(g) /\ (wactive = g => wstate = "idle")
CallOpen == OpenFrame({"proxy", "load", "announce"})

\* The session wants the latest generation or none.  Here and below, a flag
\* that is overwritten says nothing about its attempt.
Generations ==
    /\ tgen \in {0, wgen} /\ wgen # 0 /\ wactive # 0
    /\ connected \/ connecting \/ (waiting /\ ~overwritten) => tgen = wgen

\* The flags exclude each other, and the timer of a demo is that of the latest attempt.
FlagsExclude ==
    /\ ~(connected /\ connecting)
    /\ waiting => overwritten \/ (~connected /\ ~connecting /\ ~loading)
    /\ \A a \in demoTimers : a <= attempt
    /\ attempt \in demoTimers => demo /\ tgen = wgen /\ (connecting \/ overwritten)

\* An attempt has one open call at most, and while it has one it is connecting
\* and nothing of it has left for the worker.
CallsComeFirst ==
    /\ \A i, j \in DOMAIN stack : i # j /\ stack[i].kind # "dialog" /\ stack[j].kind # "dialog" =>
          stack[i].request.attempt # stack[j].request.attempt
    /\ CallOpen => ~connected /\ (connecting \/ overwritten)
    /\ demo \/ tgen = 0 \/ CallOpen => NothingOf(wgen)

\* Requests are queued in the order of their generations, behind the one the
\* worker serves; the wanted one is what a connecting session waits for.
RequestsInOrder ==
    /\ \A i \in DOMAIN toWorker : toWorker[i].op = "connect" =>
          /\ wactive <= toWorker[i].gen
          /\ toWorker[i].gen = wactive => wstate = "idle"
    /\ \A i, j \in DOMAIN toWorker : i < j /\ toWorker[i].op = "connect" /\ toWorker[j].op = "connect" =>
          toWorker[i].gen < toWorker[j].gen
    /\ Sent(tgen) => (connecting \/ overwritten) /\ ~Reported(tgen)

\* What may have been reported before a report, while the worker is where it
\* is, and what the pane may still hear.
Earlier == [progress |-> {"progress"}, up |-> {"progress"}, down |-> {"progress", "up"},
            rejected |-> {"progress", "up", "down"}]
MayBeTold ==
    IF wstate = "idle" THEN {"progress", "up", "down", "rejected"}
    ELSE IF wstate = "rejected" THEN {"progress", "down"}
    ELSE IF wstate = "connected" THEN {"progress", "up"} ELSE {"progress"}
MayBeHeard ==
    IF connecting THEN {"progress", "up", "down", "rejected"}
    ELSE IF connected THEN {"down", "rejected"} ELSE {"rejected"}

OfWanted(i) == IsReport(toGui[i]) /\ toGui[i].gen = tgen
ReportsInOrder ==
    /\ \A i \in DOMAIN toGui : IsReport(toGui[i]) => toGui[i].gen <= wactive /\ toGui[i].gen # 0
    /\ \A i, j \in DOMAIN toGui : i < j /\ OfWanted(i) /\ OfWanted(j) =>
          toGui[i].type \in Earlier[toGui[j].type]
ReportsFit ==
    /\ \A i \in DOMAIN toGui : OfWanted(i) => toGui[i].type \in MayBeTold /\ (overwritten \/ toGui[i].type \in MayBeHeard)
    /\ Told("up", tgen) => wstate = "connected" \/ Told("down", tgen)
    /\ ~connected /\ ~connecting /\ wactive = tgen => overwritten \/ wstate \in {"idle", "rejected"}

\* Progress on its way to the pane is progress of what will come to an end.
ProgressIsBacked ==
    Told("progress", tgen) =>
        \/ wactive = tgen /\ wstate \in Busy \ {"rejected"}
        \/ wactive = tgen /\ wstate = "waitKey" /\ KeyAnswerable
        \/ Told("up", tgen) \/ Told("down", tgen)

PaneInv ==
    /\ IInv /\ Generations /\ FlagsExclude /\ CallsComeFirst
    /\ RequestsInOrder /\ ReportsInOrder /\ ReportsFit /\ ProgressIsBacked
    /\ ConnectedIsBacked /\ ConnectingIsBacked

----
(* Queues. *)

\* What a sequence is after an element was put behind it.
LEMMA Behind ==
    ASSUME NEW S, NEW s \in Seq(S), NEW e
    PROVE  /\ Len(s) \in Nat /\ DOMAIN s = 1 .. Len(s)
           /\ DOMAIN Append(s, e) = 1 .. Len(s) + 1
           /\ \A i \in 1 .. Len(s) : Append(s, e)[i] = s[i]
           /\ Append(s, e)[Len(s) + 1] = e
BY SeqMonotonic, AppendProperties, LenProperties

\* What a sequence is after its first element was taken.
LEMMA Rest ==
    ASSUME NEW S, NEW s \in Seq(S), s # <<>>
    PROVE  /\ Len(s) \in Nat /\ DOMAIN s = 1 .. Len(s) /\ 1 \in DOMAIN s /\ s[1] = Head(s)
           /\ \A i \in DOMAIN Tail(s) : i \in Nat \ {0} /\ i + 1 \in DOMAIN s /\ Tail(s)[i] = s[i + 1]
           /\ \A i \in DOMAIN s : i = 1 \/ (i - 1 \in DOMAIN Tail(s) /\ Tail(s)[i - 1] = s[i])
<1>1. Len(s) \in Nat \ {0} /\ DOMAIN s = 1 .. Len(s) BY LenProperties, EmptySeq
<1>2. /\ Tail(s) \in Seq(S) /\ Len(Tail(s)) = Len(s) - 1
      /\ \A i \in 1 .. Len(Tail(s)) : Tail(s)[i] = s[i + 1] BY HeadTailProperties
<1>3. DOMAIN Tail(s) = 1 .. Len(s) - 1 BY <1>1, <1>2, LenProperties
<1>4. 1 \in DOMAIN s /\ s[1] = Head(s) BY <1>1
<1>5. \A i \in DOMAIN Tail(s) : i \in Nat \ {0} /\ i + 1 \in DOMAIN s /\ Tail(s)[i] = s[i + 1]
  BY <1>1, <1>2, <1>3
<1>6. \A i \in DOMAIN s : i = 1 \/ (i - 1 \in DOMAIN Tail(s) /\ Tail(s)[i - 1] = s[i])
  <2> TAKE i \in DOMAIN s
  <2>1. CASE i # 1 BY <1>1, <1>3, <2>1, <1>5
  <2> QED BY <2>1
<1> QED BY <1>1, <1>4, <1>5, <1>6

\* The reports that are left when the GUI thread takes an event.
LEMMA Delivered ==
    ASSUME PaneInv, NEW type, Deliver(type), UNCHANGED <<tgen, wactive>>
    PROVE  /\ 1 \in DOMAIN toGui /\ toGui[1] = Head(toGui) /\ toGui[1].type = type
           /\ ReportsInOrder'
           /\ \A i \in DOMAIN toGui' : i + 1 \in DOMAIN toGui /\ toGui'[i] = toGui[i + 1] /\ i + 1 # 1
           /\ \A g : Reported(g)' => Reported(g)
           /\ \A t, g : Told(t, g)' => Told(t, g)
           /\ \A t, g : Told(t, g) => Told(t, g)' \/ (t = type /\ Head(toGui).gen = g)
           /\ OfWanted(1) => \A i \in DOMAIN toGui' : OfWanted(i)' => type \in Earlier[toGui'[i].type]
<1>1. toGui \in Seq(GuiEvents) /\ toGui # <<>> /\ toGui' = Tail(toGui) /\ Head(toGui).type = type
  BY DEF PaneInv, IInv, TypeOK, Deliver
<1>2. /\ Len(toGui) \in Nat /\ DOMAIN toGui = 1 .. Len(toGui) /\ 1 \in DOMAIN toGui /\ toGui[1] = Head(toGui)
      /\ \A i \in DOMAIN toGui' : i \in Nat /\ i + 1 \in DOMAIN toGui /\ toGui'[i] = toGui[i + 1]
      /\ \A i \in DOMAIN toGui : i = 1 \/ (i - 1 \in DOMAIN toGui' /\ toGui'[i - 1] = toGui[i]) BY <1>1, Rest
<1>3. \A i \in DOMAIN toGui' : i \in Nat /\ i \in 1 .. Len(toGui) /\ i + 1 # 1 /\ 1 < i + 1 BY <1>2
<1>4. \A i, j \in DOMAIN toGui' : i < j => i + 1 < j + 1 BY <1>3
<1>5. ReportsInOrder' BY <1>2, <1>4 DEF PaneInv, ReportsInOrder, OfWanted, IsReport
<1>6. \A g : Reported(g)' => Reported(g) BY <1>2 DEF Reported, IsReport
<1>7. \A t, g : Told(t, g)' => Told(t, g) BY <1>2 DEF Told
<1>8. \A t, g : Told(t, g) => Told(t, g)' \/ (t = type /\ Head(toGui).gen = g) BY <1>1, <1>2 DEF Told
<1>9. ASSUME OfWanted(1), NEW i \in DOMAIN toGui', OfWanted(i)'
      PROVE  type \in Earlier[toGui'[i].type]
  BY <1>2, <1>9, <1>1, <1>3 DEF OfWanted, IsReport, PaneInv, ReportsInOrder
<1> QED BY <1>1, <1>2, <1>3, <1>5, <1>6, <1>7, <1>8, <1>9

----
(* Reports reach the pane. *)

ReportTypes == {"progress", "up", "down", "rejected"}

\* A report of the wanted generation comes from an attempt whose request is with
\* the worker: nothing of the session is queued or open any more.
LEMMA CurrentReport ==
    ASSUME PaneInv, NEW type \in ReportTypes, Deliver(type), Current
    PROVE  /\ OfWanted(1) /\ type \in MayBeTold /\ (overwritten \/ type \in MayBeHeard)
           /\ tgen = wgen /\ tgen # 0 /\ wactive = tgen
           /\ ~demo /\ ~CallOpen /\ ~Sent(tgen)
<1>1. 1 \in DOMAIN toGui /\ toGui[1] = Head(toGui) /\ toGui[1].type = type
  BY Rest DEF PaneInv, IInv, TypeOK, Deliver
<1>2. OfWanted(1) BY <1>1 DEF OfWanted, IsReport, Current, ReportTypes
<1>3. toGui[1].gen <= wactive /\ toGui[1].gen # 0 BY <1>1, <1>2 DEF PaneInv, ReportsInOrder, OfWanted
<1>4. tgen # 0 /\ tgen = wgen BY <1>2, <1>3 DEF OfWanted, PaneInv, Generations
<1>5. wactive = tgen BY <1>2, <1>3, <1>4 DEF OfWanted, PaneInv, IInv, TypeOK, TransportIsWanted
<1>6. Reported(tgen) BY <1>1, <1>2 DEF Reported, OfWanted
<1>7. ~demo /\ ~CallOpen BY <1>4, <1>6 DEF PaneInv, CallsComeFirst, NothingOf
<1>8. ~Sent(tgen) BY <1>6 DEF PaneInv, RequestsInOrder
<1> QED BY <1>1, <1>2, <1>4, <1>5, <1>7, <1>8 DEF PaneInv, ReportsFit

\* The flags after a report.
Heard(type) ==
    \/ ~Current /\ UNCHANGED <<connected, connecting, waiting>>
    \/ Current /\ type = "progress" /\ ~connected' /\ connecting' /\ UNCHANGED waiting
    \/ Current /\ type = "up" /\ connected' /\ ~connecting' /\ UNCHANGED waiting
    \/ Current /\ type = "down" /\ ~connected' /\ ~connecting' /\ UNCHANGED waiting
    \/ /\ Current /\ type = "rejected" /\ UNCHANGED <<connected, connecting>>
       /\ UNCHANGED waiting \/ (waiting' /\ ~connected /\ ~connecting /\ ~loading)

\* A report keeps what makes the flags true: it is forgotten or was the next one
\* the pane could hear, and the ones behind it fit what it leaves.
LEMMA HeardReport ==
    ASSUME PaneInv, NEW type \in ReportTypes, Deliver(type), TypeOK', Heard(type),
           UNCHANGED <<loading, overwritten, attempt, tgen, demo, wgen, stack, toWorker, worker, demoTimers>>
    PROVE  PaneInv'
<1>1. IInv' BY InvUnmoved DEF PaneInv
<1>u. wactive' = wactive /\ wstate' = wstate BY DEF worker
<1>2. /\ 1 \in DOMAIN toGui /\ toGui[1] = Head(toGui) /\ toGui[1].type = type
      /\ ReportsInOrder'
      /\ \A i \in DOMAIN toGui' : i + 1 \in DOMAIN toGui /\ toGui'[i] = toGui[i + 1] /\ i + 1 # 1
      /\ \A g : Reported(g)' => Reported(g)
      /\ \A t, g : Told(t, g)' => Told(t, g)
      /\ \A t, g : Told(t, g) => Told(t, g)' \/ (t = type /\ Head(toGui).gen = g)
      /\ OfWanted(1) => \A i \in DOMAIN toGui' : OfWanted(i)' => type \in Earlier[toGui'[i].type]
  BY <1>u, Delivered
<1>s. \A g : Sent(g)' <=> Sent(g) BY DEF Sent
<1>c. CallOpen' <=> CallOpen BY DEF CallOpen, OpenFrame
<1>n. \A g : NothingOf(g) => NothingOf(g)' BY <1>2, <1>s, <1>u DEF NothingOf
<1>k. (\E i \in DOMAIN toGui : toGui[i].type = "hostKey") => (\E i \in DOMAIN toGui' : toGui'[i].type = "hostKey")
  <2>1. toGui \in Seq(GuiEvents) /\ toGui # <<>> /\ toGui' = Tail(toGui) BY DEF PaneInv, IInv, TypeOK, Deliver
  <2>2. \A i \in DOMAIN toGui : i = 1 \/ (i - 1 \in DOMAIN toGui' /\ toGui'[i - 1] = toGui[i]) BY <2>1, Rest
  <2> QED BY <1>2, <2>2 DEF ReportTypes
<1>a. KeyAnswerable => KeyAnswerable' BY <1>k DEF KeyAnswerable, Asked
<1>3. CASE ~Current
  <2>1. UNCHANGED <<connected, connecting, waiting>> BY <1>3 DEF Heard
  <2>2. Head(toGui).gen # tgen BY <1>3 DEF Current
  <2>3. Generations' /\ FlagsExclude' BY <2>1, <1>u DEF PaneInv, Generations, FlagsExclude
  <2>4. CallsComeFirst' BY <2>1, <1>c, <1>n DEF PaneInv, CallsComeFirst
  <2>5. RequestsInOrder' BY <2>1, <1>2, <1>s, <1>u DEF PaneInv, RequestsInOrder
  <2>6. ReportsFit' BY <1>2, <2>1, <1>u, <2>2 DEF OfWanted, IsReport, MayBeTold, MayBeHeard, PaneInv, ReportsFit
  <2>7. ConnectedIsBacked' BY <2>1, <2>2, <1>2, <1>u DEF PaneInv, ConnectedIsBacked
  <2>8. ConnectingIsBacked' BY <2>1, <2>2, <1>2, <1>u, <1>a DEF PaneInv, ConnectingIsBacked, OpenFrame
  <2>9. ProgressIsBacked' BY <2>2, <1>2, <1>u, <1>a DEF PaneInv, ProgressIsBacked
  <2> QED BY <1>1, <1>2, <2>3, <2>4, <2>5, <2>6, <2>7, <2>8, <2>9 DEF PaneInv
<1>4. CASE Current
  <2>1. /\ OfWanted(1) /\ type \in MayBeTold /\ (overwritten \/ type \in MayBeHeard)
        /\ tgen = wgen /\ tgen # 0 /\ wactive = tgen
        /\ ~demo /\ ~CallOpen /\ ~Sent(tgen) BY <1>4, CurrentReport
  <2>2. \A i \in DOMAIN toGui' : OfWanted(i)' =>
            /\ OfWanted(i + 1) /\ type \in Earlier[toGui'[i].type]
            /\ toGui'[i].type \in MayBeTold /\ (overwritten \/ toGui'[i].type \in MayBeHeard)
    BY <1>2, <2>1 DEF OfWanted, IsReport, PaneInv, ReportsFit
  <2>3. MayBeTold' = MayBeTold BY <1>u DEF MayBeTold
  <2>4. CallsComeFirst' BY <2>1, <1>c DEF PaneInv, CallsComeFirst
  <2>5. RequestsInOrder' BY <2>1, <1>u, <1>s DEF PaneInv, RequestsInOrder
  <2>f. ~(attempt \in demoTimers) BY <2>1 DEF PaneInv, FlagsExclude
  <2>6. Told("up", tgen)' => wstate' = "connected" \/ Told("down", tgen)'
    <3> SUFFICES ASSUME Told("up", tgen)', wstate # "connected" PROVE Told("down", tgen)' BY <1>u
    <3>1. Told("down", tgen) BY <1>2 DEF PaneInv, ReportsFit
    <3>2. PICK i \in DOMAIN toGui' : toGui'[i].type = "up" /\ toGui'[i].gen = tgen' BY DEF Told
    <3>3. OfWanted(i)' BY <3>2 DEF OfWanted, IsReport
    <3>4. type # "down" BY <2>2, <3>2, <3>3 DEF Earlier
    <3> QED BY <1>2, <3>1, <3>4
  <2>p. ASSUME type # "progress" PROVE ProgressIsBacked'
    <3> SUFFICES ASSUME NEW i \in DOMAIN toGui', toGui'[i].type = "progress", toGui'[i].gen = tgen' PROVE FALSE
      BY DEF ProgressIsBacked, Told
    <3>1. OfWanted(i)' BY DEF OfWanted, IsReport
    <3> QED BY <2>2, <2>p, <3>1 DEF Earlier
  <2>7. CASE type = "progress"
    <3>1. ~connected' /\ connecting' /\ waiting' = waiting BY <1>4, <2>7 DEF Heard
    <3>2. overwritten \/ (connecting /\ ~waiting) BY <2>1, <2>7 DEF MayBeHeard, PaneInv, FlagsExclude
    <3>3. Generations' /\ FlagsExclude' BY <3>1, <3>2, <2>1, <2>f, <1>u DEF PaneInv, Generations, FlagsExclude
    <3>4. ReportsFit' BY <3>1, <3>2, <2>2, <2>3, <2>6 DEF MayBeHeard, ReportsFit
    <3>5. ConnectedIsBacked' BY <3>1 DEF ConnectedIsBacked
    <3>6. Told("progress", tgen) BY <1>2, <2>1, <2>7 DEF Told, OfWanted
    <3>7. ConnectingIsBacked' /\ ProgressIsBacked'
      BY <2>7, <3>6, <1>2, <1>u, <1>a DEF PaneInv, ConnectingIsBacked, ProgressIsBacked
    <3> QED BY <1>1, <1>2, <2>4, <2>5, <3>3, <3>4, <3>5, <3>7 DEF PaneInv
  <2>8. CASE type = "up"
    <3>1. connected' /\ ~connecting' /\ waiting' = waiting BY <1>4, <2>8 DEF Heard
    <3>2. overwritten \/ (connecting /\ ~waiting) BY <2>1, <2>8 DEF MayBeHeard, PaneInv, FlagsExclude
    <3>3. Generations' /\ FlagsExclude' BY <3>1, <3>2, <2>1, <2>f, <1>u DEF PaneInv, Generations, FlagsExclude
    <3>4. ReportsFit' BY <2>2, <2>8, <3>1, <2>3, <2>6 DEF Earlier, MayBeHeard, MayBeTold, ReportsFit
    <3>5. ConnectedIsBacked' BY <1>2, <2>1, <2>8, <1>u DEF Told, OfWanted, PaneInv, ReportsFit, ConnectedIsBacked
    <3>6. ConnectingIsBacked' BY <3>1 DEF ConnectingIsBacked
    <3>7. RequestsInOrder' /\ CallsComeFirst' /\ ProgressIsBacked' BY <2>4, <2>5, <2>8, <2>p
    <3> QED BY <1>1, <1>2, <3>3, <3>4, <3>5, <3>6, <3>7 DEF PaneInv
  <2>9. CASE type = "down"
    <3>1. ~connected' /\ ~connecting' /\ waiting' = waiting BY <1>4, <2>9 DEF Heard
    <3>2. ProgressIsBacked' BY <2>9, <2>p
    <3>3. Generations' /\ FlagsExclude' BY <3>1, <2>1, <2>f, <1>u DEF PaneInv, Generations, FlagsExclude
    <3>4. ReportsFit' BY <2>2, <2>9, <3>1, <2>1, <2>3, <2>6, <1>u DEF Earlier, MayBeHeard, MayBeTold, ReportsFit
    <3>5. ConnectedIsBacked' /\ ConnectingIsBacked' BY <3>1 DEF ConnectedIsBacked, ConnectingIsBacked
    <3> QED BY <1>1, <1>2, <2>4, <2>5, <3>2, <3>3, <3>4, <3>5 DEF PaneInv
  <2>10. CASE type = "rejected"
    <3>1. /\ connected' = connected /\ connecting' = connecting
          /\ waiting' = waiting \/ (waiting' /\ ~connected /\ ~connecting /\ ~loading) BY <1>4, <2>10 DEF Heard
    <3>2. Generations' /\ FlagsExclude' BY <3>1, <2>1, <1>u DEF PaneInv, Generations, FlagsExclude
    <3>3. ReportsFit' BY <3>1, <2>2, <2>3, <2>6, <1>u DEF MayBeHeard, PaneInv, ReportsFit
    <3>4. ConnectedIsBacked' BY <2>10, <3>1, <1>2, <1>u DEF PaneInv, ConnectedIsBacked
    <3>5. ConnectingIsBacked' BY <2>10, <3>1, <1>2, <1>u, <1>a DEF PaneInv, ConnectingIsBacked, OpenFrame
    <3>6. ProgressIsBacked' BY <2>10, <2>p
    <3> QED BY <1>1, <1>2, <2>4, <2>5, <3>2, <3>3, <3>4, <3>5, <3>6 DEF PaneInv
  <2> QED BY <2>7, <2>8, <2>9, <2>10 DEF ReportTypes
<1> QED BY <1>3, <1>4

----
(* Calls return, dialogs open and close, the timer of a demo fires. *)

\* What the pane shows is backed as before, if no flag, no report and nothing the
\* worker does changes, the calls are as they were and no event is lost.
LEMMA StillBacked ==
    ASSUME PaneInv, connected' => connected, connecting' => connecting,
           UNCHANGED <<tgen, demo, attempt, demoTimers, worker>>,
           \A t, g : Told(t, g) <=> Told(t, g)',
           CallOpen => CallOpen',
           \A i \in DOMAIN toWorker : i \in DOMAIN toWorker' /\ toWorker'[i] = toWorker[i],
           KeyAnswerable => KeyAnswerable'
    PROVE  ConnectedIsBacked' /\ ConnectingIsBacked' /\ ProgressIsBacked'
BY DEF PaneInv, ConnectedIsBacked, worker, ConnectingIsBacked, ProgressIsBacked, CallOpen

\* The timer of the latest attempt ends a demo, any other one is forgotten.
LEMMA KeepsTimer ==
    ASSUME PaneInv, NEW a \in demoTimers, DemoTimerFires(a)
    PROVE  PaneInv'
<1>1. IInv' BY InvGui DEF GuiStep, PaneInv
<1>2. UNCHANGED <<loading, waiting, overwritten, attempt, tgen, demo, stack, wgen, worker, toWorker, toGui>>
  BY DEF DemoTimerFires
<1>u. wactive' = wactive /\ wstate' = wstate BY <1>2 DEF worker
<1>3. CASE demo /\ a = attempt
  <2>1. connected' /\ ~connecting' /\ demoTimers' = demoTimers \ {attempt} BY <1>3 DEF DemoTimerFires
  <2>2. connecting \/ overwritten BY <1>3 DEF PaneInv, FlagsExclude
  <2>3. tgen = wgen /\ NothingOf(wgen) BY <1>3 DEF PaneInv, FlagsExclude, CallsComeFirst
  <2>4. ~CallOpen BY <1>3 DEF CallOpen, OpenFrame, PaneInv, IInv, CallsAreOfAttempts
  <2>5. Generations' /\ FlagsExclude' BY <1>2, <1>u, <2>1, <2>2, <2>3 DEF PaneInv, Generations, FlagsExclude
  <2>6. CallsComeFirst'
    BY <1>2, <1>u, <2>4 DEF PaneInv, CallsComeFirst, CallOpen, OpenFrame, NothingOf, Sent, Reported
  <2>7. RequestsInOrder' BY <1>2, <1>u, <2>3 DEF PaneInv, RequestsInOrder, NothingOf, Sent
  <2>8. ReportsInOrder' BY <1>2, <1>u DEF PaneInv, ReportsInOrder, OfWanted
  <2>9. ReportsFit' BY <2>3, <1>2, <2>1 DEF NothingOf, Reported, OfWanted, Told, IsReport, ReportsFit
  <2>10. ConnectedIsBacked' /\ ConnectingIsBacked' BY <1>2, <1>3, <2>1 DEF ConnectedIsBacked, ConnectingIsBacked
  <2>11. ProgressIsBacked' BY <1>2, <2>3 DEF ProgressIsBacked, Told, NothingOf, Reported, IsReport
  <2> QED BY <1>1, <2>5, <2>6, <2>7, <2>8, <2>9, <2>10, <2>11 DEF PaneInv
<1>4. CASE ~(demo /\ a = attempt)
  <2>1. UNCHANGED <<connected, connecting>> /\ demoTimers' = demoTimers \ {a} BY <1>4 DEF DemoTimerFires
  <2>2. demo /\ attempt \in demoTimers => attempt \in demoTimers' BY <1>4, <2>1
  <2>3. Generations' /\ FlagsExclude' BY <1>2, <1>u, <2>1 DEF PaneInv, Generations, FlagsExclude
  <2>4. CallsComeFirst'
    BY <1>2, <1>u, <2>1 DEF PaneInv, CallsComeFirst, CallOpen, OpenFrame, NothingOf, Sent, Reported
  <2>5. RequestsInOrder' BY <1>2, <1>u, <2>1 DEF PaneInv, RequestsInOrder, Reported, Sent
  <2>6. ReportsInOrder' BY <1>2, <1>u DEF PaneInv, ReportsInOrder, OfWanted
  <2>7. ReportsFit' BY <1>2, <1>u, <2>1 DEF PaneInv, ReportsFit, OfWanted, Told, MayBeTold, MayBeHeard
  <2>8. ConnectedIsBacked' BY <1>2, <1>u, <2>1 DEF PaneInv, ConnectedIsBacked, Told
  <2>9. ConnectingIsBacked'
    BY <1>2, <1>u, <2>1, <2>2 DEF PaneInv, ConnectingIsBacked, OpenFrame, Told, KeyAnswerable, Asked
  <2>10. ProgressIsBacked' BY <1>2, <1>u DEF PaneInv, ProgressIsBacked, Told, KeyAnswerable, Asked
  <2> QED BY <1>1, <2>3, <2>4, <2>5, <2>6, <2>7, <2>8, <2>9, <2>10 DEF PaneInv
<1> QED BY <1>3, <1>4

\* An open host-key question is put to the user.
LEMMA KeepsHostKey ==
    ASSUME PaneInv, HandleHostKey
    PROVE  PaneInv'
<1>1. IInv' BY InvCalls DEF PaneInv
<1>2. /\ Deliver("hostKey") /\ stack' = Append(stack, [kind |-> "dialog"])
      /\ UNCHANGED <<flags, overwritten, attempt, tgen, demo, demoTimers, wgen, worker, toWorker>>
  BY DEF HandleHostKey
<1>u. wactive' = wactive /\ wstate' = wstate BY <1>2 DEF worker
<1>3. /\ ReportsInOrder'
      /\ \A i \in DOMAIN toGui' : i + 1 \in DOMAIN toGui /\ toGui'[i] = toGui[i + 1] /\ i + 1 # 1
      /\ \A g : Reported(g)' => Reported(g)
      /\ \A t, g : Told(t, g)' => Told(t, g)
      /\ \A t, g : Told(t, g) => Told(t, g)' \/ (t = "hostKey" /\ Head(toGui).gen = g) BY <1>2, <1>u, Delivered
<1> DEFINE f == [kind |-> "dialog"]
<1>f. f.kind = "dialog" OBVIOUS
<1>g. stack' = Append(stack, f) BY <1>2
<1> HIDE DEF f
<1>4. /\ Len(stack) \in Nat /\ DOMAIN stack = 1 .. Len(stack) /\ DOMAIN stack' = 1 .. Len(stack) + 1
      /\ \A i \in 1 .. Len(stack) : stack'[i] = stack[i]
      /\ stack'[Len(stack) + 1] = f BY <1>g, Behind DEF PaneInv, IInv, TypeOK
<1>5. \A i \in DOMAIN stack : i \in DOMAIN stack' /\ stack'[i] = stack[i] BY <1>4
<1>6. \A i \in DOMAIN stack' : stack'[i].kind # "dialog" => i \in DOMAIN stack /\ stack'[i] = stack[i]
  BY <1>4, <1>f
<1>7. CallOpen' <=> CallOpen BY <1>2, <1>5, <1>6, <1>f DEF CallOpen, OpenFrame
<1>8. \E i \in DOMAIN stack' : stack'[i].kind = "dialog" BY <1>4, <1>f
<1>9. Generations' /\ FlagsExclude' BY <1>2, <1>u DEF PaneInv, Generations, FlagsExclude, flags
<1>10. CallsComeFirst' BY <1>2, <1>3, <1>u, <1>6, <1>7 DEF NothingOf, Sent, PaneInv, CallsComeFirst, flags
<1>11. RequestsInOrder' BY <1>2, <1>3, <1>u DEF Sent, flags, PaneInv, RequestsInOrder
<1>12. ReportsFit'
  <2>1. \A i \in DOMAIN toGui' : OfWanted(i)' => OfWanted(i + 1) BY <1>2, <1>3 DEF OfWanted, IsReport
  <2>2. MayBeTold' = MayBeTold /\ MayBeHeard' = MayBeHeard BY <1>2, <1>u DEF MayBeTold, MayBeHeard, flags
  <2> QED BY <1>2, <1>3, <1>u, <2>1, <2>2 DEF PaneInv, ReportsFit, flags
<1>13. ConnectedIsBacked' BY <1>2, <1>3, <1>u DEF PaneInv, ConnectedIsBacked, flags
<1>14. ConnectingIsBacked'
  BY <1>8, <1>2, <1>3, <1>u, <1>7 DEF KeyAnswerable, CallOpen, PaneInv, ConnectingIsBacked, flags
<1>15. ProgressIsBacked' BY <1>8, <1>2, <1>3, <1>u DEF KeyAnswerable, PaneInv, ProgressIsBacked
<1> QED BY <1>1, <1>3, <1>9, <1>10, <1>11, <1>12, <1>13, <1>14, <1>15 DEF PaneInv

\* The requests after an event was queued to the worker.
LEMMA Requested ==
    ASSUME TypeOK, NEW e, toWorker' = Append(toWorker, e)
    PROVE  /\ Len(toWorker) \in Nat /\ DOMAIN toWorker = 1 .. Len(toWorker)
           /\ DOMAIN toWorker' = 1 .. Len(toWorker) + 1
           /\ \A i \in DOMAIN toWorker : i \in DOMAIN toWorker' /\ toWorker'[i] = toWorker[i]
           /\ \A i \in DOMAIN toWorker' : (i \in DOMAIN toWorker /\ toWorker'[i] = toWorker[i])
                                              \/ (i = Len(toWorker) + 1 /\ toWorker'[i] = e)
           /\ Len(toWorker) + 1 \in DOMAIN toWorker' /\ toWorker'[Len(toWorker) + 1] = e
BY Behind DEF TypeOK

\* What an event that is no request leaves of the order of the requests.
LEMMA OtherRequest ==
    ASSUME PaneInv, NEW e, e.op # "connect", toWorker' = Append(toWorker, e),
           UNCHANGED <<wactive, wstate, tgen, connecting, overwritten, toGui>>
    PROVE  RequestsInOrder' /\ \A g : Sent(g)' <=> Sent(g)
BY Requested DEF PaneInv, IInv, Sent, Reported, RequestsInOrder

\* The reports fit as before if neither they nor what they are about changes.
LEMMA SameReports ==
    ASSUME PaneInv, UNCHANGED <<tgen, worker, toGui>>,
           overwritten' \/ UNCHANGED <<connected, connecting, overwritten>>
    PROVE  /\ ReportsInOrder' /\ ReportsFit'
           /\ \A t, g : Told(t, g)' <=> Told(t, g)
           /\ \A g : Reported(g)' <=> Reported(g)
<1>u. wactive' = wactive /\ wstate' = wstate BY DEF worker
<1>1. ReportsInOrder' BY <1>u DEF PaneInv, ReportsInOrder, OfWanted
<1>2. ReportsFit' BY <1>u DEF PaneInv, ReportsFit, OfWanted, Told, MayBeTold, MayBeHeard
<1>3. (\A t, g : Told(t, g)' <=> Told(t, g)) /\ (\A g : Reported(g)' <=> Reported(g)) BY DEF Told, Reported
<1> QED BY <1>1, <1>2, <1>3

\* The user's answer to a host key is on its way to the worker.
LEMMA KeepsAnswer ==
    ASSUME PaneInv, NEW approved \in BOOLEAN, AnswerHostKey(approved)
    PROVE  PaneInv'
<1>1. IInv' BY InvCalls DEF PaneInv, AnswerStep
<1> DEFINE e == [op |-> "approve", approved |-> approved]
<1>2. /\ stack # <<>> /\ Top.kind = "dialog" /\ stack' = Pop /\ toWorker' = Append(toWorker, e)
      /\ UNCHANGED <<flags, overwritten, attempt, tgen, demo, demoTimers, wgen, worker, toGui>>
  BY DEF AnswerHostKey
<1>e. e.op = "approve" OBVIOUS
<1> HIDE DEF e
<1>u. wactive' = wactive /\ wstate' = wstate BY <1>2 DEF worker
<1>3. /\ DOMAIN Pop \subseteq DOMAIN stack /\ \A i \in DOMAIN Pop : Pop[i] = stack[i]
      /\ \A i \in DOMAIN stack : i \in DOMAIN Pop \/ stack[i] = Top BY <1>2, PoppedCalls DEF PaneInv
<1>4. CallOpen' <=> CallOpen BY <1>2, <1>3 DEF CallOpen, OpenFrame
<1>5. RequestsInOrder' /\ \A g : Sent(g)' <=> Sent(g) BY <1>2, <1>e, <1>u, OtherRequest DEF flags
<1>6. /\ ReportsInOrder' /\ ReportsFit'
      /\ \A t, g : Told(t, g)' <=> Told(t, g)
      /\ \A g : Reported(g)' <=> Reported(g) BY <1>2, SameReports DEF flags
<1>7. Generations' /\ FlagsExclude' BY <1>2, <1>u DEF PaneInv, Generations, FlagsExclude, flags
<1>8. CallsComeFirst' BY <1>2, <1>5, <1>6, <1>u, <1>3, <1>4 DEF NothingOf, PaneInv, CallsComeFirst, flags
<1>9. /\ \A i \in DOMAIN toWorker : i \in DOMAIN toWorker' /\ toWorker'[i] = toWorker[i]
      /\ Len(toWorker) + 1 \in DOMAIN toWorker' /\ toWorker'[Len(toWorker) + 1] = e
  BY <1>2, Requested DEF PaneInv, IInv
<1>10. KeyAnswerable' BY <1>e, <1>9 DEF KeyAnswerable, Asked
<1>11. ConnectedIsBacked' /\ ConnectingIsBacked' /\ ProgressIsBacked'
  BY <1>2, <1>4, <1>6, <1>9, <1>10, StillBacked DEF flags
<1> QED BY <1>1, <1>5, <1>6, <1>7, <1>8, <1>11 DEF PaneInv

\* A step that only edits the saved profile, or none at all.
LEMMA KeepsUnmoved ==
    ASSUME PaneInv, IInv',
           UNCHANGED <<flags, overwritten, attempt, tgen, demo, stack, demoTimers, wgen, worker, toWorker, toGui>>
    PROVE  PaneInv'
<1>u. wactive' = wactive /\ wstate' = wstate BY DEF worker
<1>1. /\ ReportsInOrder' /\ ReportsFit'
      /\ \A t, g : Told(t, g)' <=> Told(t, g)
      /\ \A g : Reported(g)' <=> Reported(g) BY SameReports DEF flags
<1>2. Generations' /\ FlagsExclude' BY <1>u DEF PaneInv, Generations, FlagsExclude, flags
<1>3. CallOpen' <=> CallOpen BY DEF CallOpen, OpenFrame
<1>4. \A g : Sent(g)' <=> Sent(g) BY DEF Sent
<1>5. NothingOf(wgen)' <=> NothingOf(wgen) BY <1>1, <1>4, <1>u DEF NothingOf
<1>6. CallsComeFirst' BY <1>3, <1>5 DEF PaneInv, CallsComeFirst, flags
<1>7. RequestsInOrder' BY <1>1, <1>4, <1>u DEF PaneInv, RequestsInOrder, flags
<1>8. KeyAnswerable => KeyAnswerable' BY DEF KeyAnswerable, Asked
<1>9. ConnectedIsBacked' /\ ConnectingIsBacked' /\ ProgressIsBacked' BY <1>1, <1>3, <1>8, StillBacked DEF flags
<1> QED BY <1>1, <1>2, <1>6, <1>7, <1>9 DEF PaneInv

\* The provider of a credential returns: from a call of the latest attempt, which
\* ends, asks for a password or goes on to the next call; or from one of an
\* attempt that is over, which changes no flag or overwrites them.
LEMMA KeepsReturn ==
    ASSUME PaneInv, ProxyReturns \/ LoadReturns
    PROVE  PaneInv'
<1>1. IInv' BY InvCalls DEF PaneInv
<1>2. /\ stack # <<>> /\ Top.kind \in {"proxy", "load"} /\ connected' = connected
      /\ UNCHANGED <<attempt, tgen, demo, demoTimers, wgen, worker, toWorker, toGui>>
  BY DEF ProxyReturns, LoadReturns, flags
<1>u. wactive' = wactive /\ wstate' = wstate BY <1>2 DEF worker
<1>3. /\ DOMAIN Pop \subseteq DOMAIN stack /\ \A i \in DOMAIN Pop : Pop[i] = stack[i]
      /\ \A i \in DOMAIN stack : i \in DOMAIN Pop \/ stack[i] = Top BY <1>2, PoppedCalls DEF PaneInv
<1>t. /\ Len(stack) \in Nat \ {0} /\ DOMAIN stack = 1 .. Len(stack) /\ DOMAIN Pop = 1 .. Len(stack) - 1
      /\ Pop \in Seq(Frames) /\ Top = stack[Len(stack)] /\ Top.request \in Requests
  BY <1>2, TopAndPop, LenProperties DEF PaneInv, IInv, TypeOK, Frames, Top
<1>4. \A i \in DOMAIN Pop : i # Len(stack) /\ i \in DOMAIN stack /\ Len(stack) \in DOMAIN stack BY <1>t
<1>o. \A i \in DOMAIN Pop : Pop[i].kind # "dialog" => Pop[i].request.attempt # Top.request.attempt
  BY <1>2, <1>3, <1>4, <1>t DEF PaneInv, CallsComeFirst
<1>s. \A g : Sent(g)' <=> Sent(g) BY <1>2 DEF Sent
<1>r. \A g : Reported(g)' <=> Reported(g) BY <1>2 DEF Reported
<1>n. NothingOf(wgen)' <=> NothingOf(wgen) BY <1>2, <1>s, <1>r, <1>u DEF NothingOf
<1>k. KeyAnswerable => KeyAnswerable'
  <2>1. \A i \in DOMAIN stack : stack[i].kind = "dialog" => i \in DOMAIN Pop /\ Pop[i] = stack[i] BY <1>2, <1>3
  <2>2. stack' = Pop \/ \E f : stack' = Append(Pop, f) BY DEF ProxyReturns, LoadReturns
  <2>3. ASSUME NEW f, stack' = Append(Pop, f)
        PROVE  \A i \in DOMAIN Pop : i \in DOMAIN stack' /\ stack'[i] = Pop[i] BY <1>t, <2>3, Behind
  <2>4. \A i \in DOMAIN Pop : i \in DOMAIN stack' /\ stack'[i] = Pop[i] BY <2>2, <2>3
  <2> QED BY <1>2, <2>1, <2>4 DEF KeyAnswerable, Asked
<1>p. ASSUME NEW f, stack' = Append(Pop, f)
      PROVE  /\ \A i \in DOMAIN Pop : i \in DOMAIN stack' /\ stack'[i] = Pop[i]
             /\ \A i \in DOMAIN stack' : (i \in DOMAIN Pop /\ stack'[i] = Pop[i]) \/ (i = Len(Pop) + 1 /\ stack'[i] = f)
             /\ Len(Pop) + 1 \in DOMAIN stack' /\ stack'[Len(Pop) + 1] = f BY <1>t, <1>p, Behind
<1>q. ASSUME NEW f, f.kind \in {"load", "announce"}, f.request.attempt = Top.request.attempt, stack' = Append(Pop, f)
      PROVE  \A i, j \in DOMAIN stack' : i # j /\ stack'[i].kind # "dialog" /\ stack'[j].kind # "dialog" =>
                stack'[i].request.attempt # stack'[j].request.attempt
  BY <1>3, <1>o, <1>p, <1>q DEF PaneInv, CallsComeFirst
<1>5. CASE /\ Top.request.attempt # attempt /\ (connecting' => connecting) /\ (overwritten => overwritten')
           /\ overwritten' \/ UNCHANGED <<flags, overwritten>>
           /\ \/ stack' = Pop
              \/ \E f : /\ f.kind \in {"load", "announce"} /\ f.request.attempt = Top.request.attempt
                        /\ stack' = Append(Pop, f)
  <2>0. (CallOpen' <=> CallOpen) /\ \A i, j \in DOMAIN stack' :
           i # j /\ stack'[i].kind # "dialog" /\ stack'[j].kind # "dialog" =>
               stack'[i].request.attempt # stack'[j].request.attempt
    <3>1. CASE stack' = Pop BY <1>2, <1>3, <1>5, <3>1 DEF CallOpen, OpenFrame, PaneInv, CallsComeFirst
    <3>2. ASSUME NEW f, f.kind \in {"load", "announce"}, f.request.attempt = Top.request.attempt, stack' = Append(Pop, f)
          PROVE  CallOpen' <=> CallOpen
      <4>1. CallOpen => CallOpen' BY <1>2, <1>3, <1>5, <3>2, <1>p DEF CallOpen, OpenFrame
      <4>2. CallOpen' => CallOpen BY <1>2, <1>3, <1>5, <3>2, <1>p DEF CallOpen, OpenFrame
      <4> QED BY <4>1, <4>2
    <3> QED BY <1>5, <1>q, <3>1, <3>2
  <2>1. CallOpen' <=> CallOpen BY <2>0
  <2>2. /\ ReportsInOrder' /\ ReportsFit' /\ \A t, g : Told(t, g)' <=> Told(t, g)
    BY <1>2, <1>5, SameReports DEF flags
  <2>3. Generations' /\ FlagsExclude' BY <1>2, <1>5, <1>u DEF PaneInv, Generations, FlagsExclude, flags
  <2>4. CallsComeFirst' BY <1>2, <1>5, <1>n, <2>0 DEF PaneInv, CallsComeFirst, flags
  <2>5. RequestsInOrder' BY <1>2, <1>5, <1>s, <1>r, <1>u DEF PaneInv, RequestsInOrder, flags
  <2>6. ConnectedIsBacked' /\ ConnectingIsBacked' /\ ProgressIsBacked'
    BY <1>2, <1>5, <1>k, <2>1, <2>2, StillBacked DEF flags
  <2> QED BY <1>1, <2>2, <2>3, <2>4, <2>5, <2>6 DEF PaneInv
<1>6. ASSUME Top.request.attempt = attempt
      PROVE  /\ CallOpen /\ (connecting \/ overwritten) /\ ~connected /\ ~demo /\ tgen = wgen /\ NothingOf(wgen)
             /\ overwritten \/ (~waiting /\ (loading => Top.kind = "load"))
  <2>1. CallOpen BY <1>2, <1>4, <1>t, <1>6 DEF CallOpen, OpenFrame
  <2>2. ~demo /\ tgen = wgen BY <1>2, <1>t, <1>6 DEF PaneInv, IInv, CallsAreOfAttempts
  <2>3. connecting \/ overwritten BY <2>1 DEF PaneInv, CallsComeFirst
  <2>4. loading /\ ~overwritten => Top.kind = "load"
    BY <1>3, <1>6, <1>o DEF PaneInv, IInv, LoadingIsOpen, OpenFrame
  <2> QED BY <2>1, <2>2, <2>3, <2>4 DEF PaneInv, CallsComeFirst, FlagsExclude
<1>7. CASE /\ Top.request.attempt = attempt /\ stack' = Pop /\ overwritten' = overwritten /\ ~connecting'
           /\ waiting' => overwritten \/ ~loading'
  <2>1. CallOpen /\ ~connected /\ ~demo /\ tgen = wgen /\ NothingOf(wgen) BY <1>6, <1>7
  <2>2. ~CallOpen' BY <1>2, <1>3, <1>7, <1>o DEF CallOpen, OpenFrame
  <2>3. Generations' /\ FlagsExclude' BY <1>2, <1>7, <1>u, <2>1 DEF PaneInv, Generations, FlagsExclude
  <2>4. CallsComeFirst' BY <1>2, <1>3, <1>7, <1>n, <2>1, <2>2 DEF PaneInv, CallsComeFirst
  <2>5. RequestsInOrder' BY <1>2, <1>s, <1>u, <2>1 DEF PaneInv, RequestsInOrder, NothingOf
  <2>6. ReportsInOrder' BY <1>2, <1>u DEF PaneInv, ReportsInOrder, OfWanted
  <2>7. ReportsFit' BY <2>1, <1>2, <1>u DEF NothingOf, Reported, OfWanted, Told, IsReport, ReportsFit
  <2>8. ConnectedIsBacked' /\ ConnectingIsBacked' BY <1>2, <1>7, <2>1 DEF ConnectedIsBacked, ConnectingIsBacked
  <2>9. ProgressIsBacked' BY <1>2, <2>1 DEF ProgressIsBacked, Told, NothingOf, Reported, IsReport
  <2> QED BY <1>1, <2>3, <2>4, <2>5, <2>6, <2>7, <2>8, <2>9 DEF PaneInv
<1>8. ASSUME NEW f, Top.request.attempt = attempt, f.kind \in {"load", "announce"}, f.request.attempt = attempt,
             stack' = Append(Pop, f), UNCHANGED <<overwritten, connecting, waiting>>
      PROVE  PaneInv'
  <2>1. /\ CallOpen /\ ~connected /\ ~demo /\ tgen = wgen /\ NothingOf(wgen)
        /\ overwritten \/ ~waiting BY <1>6, <1>8
  <2>3. CallOpen' BY <1>2, <1>8, <1>p DEF CallOpen, OpenFrame
  <2>5. \A i, j \in DOMAIN stack' : i # j /\ stack'[i].kind # "dialog" /\ stack'[j].kind # "dialog" =>
           stack'[i].request.attempt # stack'[j].request.attempt BY <1>q, <1>8
  <2>6. CallsComeFirst' BY <1>2, <1>8, <1>n, <2>1, <2>5 DEF PaneInv, CallsComeFirst
  <2>7. Generations' /\ FlagsExclude' BY <1>2, <1>8, <1>u, <2>1 DEF PaneInv, Generations, FlagsExclude
  <2>8. ReportsInOrder' /\ ReportsFit' /\ \A t, g : Told(t, g)' <=> Told(t, g) BY <1>2, <1>8, SameReports
  <2>9. RequestsInOrder' BY <1>2, <1>8, <1>s, <1>r, <1>u DEF PaneInv, RequestsInOrder
  <2>10. ConnectedIsBacked' /\ ConnectingIsBacked' /\ ProgressIsBacked'
    BY <1>2, <1>8, <1>k, <2>3, <2>8, StillBacked
  <2> QED BY <1>1, <2>6, <2>7, <2>8, <2>9, <2>10 DEF PaneInv
<1>9. CASE LoadReturns
  <2> DEFINE f == [kind |-> "announce", request |-> [Top.request EXCEPT !.secret = vault[profile.ref]]]
  <2>1. f.kind = "announce" /\ f.request.attempt = Top.request.attempt BY <1>t DEF Requests
  <2>2. /\ overwritten' = overwritten
        /\ \/ Top.request.attempt # attempt /\ stack' = Pop /\ UNCHANGED flags
           \/ Top.request.attempt = attempt /\ stack' = Pop /\ ~loading' /\ ~connecting'
           \/ /\ Top.request.attempt = attempt /\ UNCHANGED <<connecting, waiting>>
              /\ stack' = Append(Pop, f) BY <1>9 DEF LoadReturns
  <2> HIDE DEF f
  <2>3. CASE Top.request.attempt # attempt /\ stack' = Pop /\ UNCHANGED flags BY <1>5, <2>2, <2>3 DEF flags
  <2> QED BY <1>7, <1>8, <2>1, <2>2, <2>3
<1>10. CASE ProxyReturns
  <2> DEFINE r == [Top.request EXCEPT !.expected = knownHosts[Top.request.host]]
  <2>1. r.attempt = Top.request.attempt BY <1>t DEF Requests
  <2> HIDE DEF r
  <2>2. /\ overwritten => overwritten'
        /\ Top.request.attempt # attempt => overwritten' \/ UNCHANGED <<flags, overwritten>>
        /\ Top.request.attempt = attempt => overwritten' = overwritten
        /\ Top.kind = "proxy"
        /\ \/ stack' = Pop /\ ~connecting' /\ loading' = loading
           \/ stack' = Pop /\ r.attempt # attempt /\ connecting' = connecting
           \/ \E kind \in {"load", "announce"} :
                 /\ stack' = Append(Pop, [kind |-> kind, request |-> r]) /\ UNCHANGED <<connecting, waiting>>
    <3>1. overwritten' = (overwritten \/ (Top.request.attempt # attempt /\ <<flags, remember>>' # <<flags, remember>>))
      BY <1>10 DEF ProxyReturns
    <3>2. \/ stack' = Pop /\ ~connecting' /\ loading' = loading
          \/ stack' = Pop /\ r.attempt # attempt /\ connecting' = connecting
          \/ stack' = Append(Pop, [kind |-> "load", request |-> r]) /\ UNCHANGED <<connecting, waiting>>
          \/ stack' = Append(Pop, [kind |-> "announce", request |-> r]) /\ UNCHANGED <<connecting, waiting>>
      BY <1>10 DEF ProxyReturns, r
    <3> QED BY <1>10, <3>1, <3>2 DEF ProxyReturns, flags, TypeOK, PaneInv, IInv
  <2>3. ASSUME NEW kind \in {"load", "announce"}, stack' = Append(Pop, [kind |-> kind, request |-> r]),
               UNCHANGED <<connecting, waiting>>
        PROVE  PaneInv'
    <3> DEFINE f == [kind |-> kind, request |-> r]
    <3>1. f.kind = kind /\ f.request = r /\ stack' = Append(Pop, f) BY <2>3
    <3> HIDE DEF f
    <3> QED BY <1>5, <1>8, <2>1, <2>2, <2>3, <3>1
  <2>4. CASE stack' = Pop /\ ~connecting' /\ loading' = loading BY <1>5, <1>6, <1>7, <2>2, <2>4
  <2>5. CASE stack' = Pop /\ r.attempt # attempt /\ connecting' = connecting BY <1>5, <2>1, <2>2, <2>5
  <2> QED BY <2>2, <2>3, <2>4, <2>5
<1> QED BY <1>9, <1>10

\* The request of the latest attempt leaves for the worker, that of an earlier one does not.
LEMMA KeepsAnnounce ==
    ASSUME PaneInv, AnnounceReturns
    PROVE  PaneInv'
<1>1. IInv' BY InvCalls DEF PaneInv
<1>2. /\ stack # <<>> /\ Top.kind = "announce" /\ stack' = Pop
      /\ UNCHANGED <<flags, overwritten, attempt, tgen, demo, demoTimers, wgen, worker, toGui>>
  BY DEF AnnounceReturns
<1>u. wactive' = wactive /\ wstate' = wstate BY <1>2 DEF worker
<1>3. /\ DOMAIN Pop \subseteq DOMAIN stack /\ \A i \in DOMAIN Pop : Pop[i] = stack[i]
      /\ \A i \in DOMAIN stack : i \in DOMAIN Pop \/ stack[i] = Top BY <1>2, PoppedCalls DEF PaneInv
<1>t. /\ Len(stack) \in Nat \ {0} /\ DOMAIN stack = 1 .. Len(stack) /\ DOMAIN Pop = 1 .. Len(stack) - 1
      /\ Top = stack[Len(stack)] BY <1>2, TopAndPop, LenProperties DEF PaneInv, IInv, TypeOK, Top
<1>4. Len(stack) \in DOMAIN stack /\ \A i \in DOMAIN Pop : i # Len(stack) /\ i \in DOMAIN stack BY <1>t
<1>o. \A i \in DOMAIN Pop : Pop[i].kind # "dialog" => Pop[i].request.attempt # Top.request.attempt
  BY <1>2, <1>3, <1>4, <1>t DEF PaneInv, CallsComeFirst
<1>d. \A i, j \in DOMAIN stack' : i # j /\ stack'[i].kind # "dialog" /\ stack'[j].kind # "dialog" =>
         stack'[i].request.attempt # stack'[j].request.attempt BY <1>2, <1>3 DEF PaneInv, CallsComeFirst
<1>k. (\E i \in DOMAIN stack : stack[i].kind = "dialog") => (\E i \in DOMAIN stack' : stack'[i].kind = "dialog")
  BY <1>2, <1>3
<1>6. /\ ReportsInOrder' /\ ReportsFit'
      /\ \A t, g : Told(t, g)' <=> Told(t, g)
      /\ \A g : Reported(g)' <=> Reported(g) BY <1>2, SameReports DEF flags
<1>7. Generations' /\ FlagsExclude' BY <1>2, <1>u DEF PaneInv, Generations, FlagsExclude, flags
<1>8. CASE Top.request.attempt # attempt
  <2>1. toWorker' = toWorker BY <1>8 DEF AnnounceReturns
  <2>2. CallOpen' <=> CallOpen BY <1>2, <1>3, <1>8 DEF CallOpen, OpenFrame
  <2>3. \A g : Sent(g)' <=> Sent(g) BY <2>1 DEF Sent
  <2>4. NothingOf(wgen)' <=> NothingOf(wgen) BY <1>2, <1>6, <1>u, <2>3 DEF NothingOf
  <2>5. CallsComeFirst' BY <1>2, <1>d, <2>2, <2>4 DEF PaneInv, CallsComeFirst, flags
  <2>6. RequestsInOrder' BY <1>2, <1>6, <1>u, <2>1, <2>3 DEF PaneInv, RequestsInOrder, flags
  <2>7. KeyAnswerable => KeyAnswerable' BY <1>2, <1>k, <2>1 DEF KeyAnswerable, Asked
  <2>8. ConnectedIsBacked' /\ ConnectingIsBacked' /\ ProgressIsBacked'
    BY <1>2, <1>6, <2>1, <2>2, <2>7, StillBacked DEF flags
  <2> QED BY <1>1, <1>6, <1>7, <2>5, <2>6, <2>8 DEF PaneInv
<1>9. CASE Top.request.attempt = attempt
  <2> DEFINE e == [op |-> "connect", gen |-> tgen, request |-> Top.request]
  <2>1. toWorker' = Append(toWorker, e) BY <1>9 DEF AnnounceReturns
  <2>e. e.op = "connect" /\ e.gen = tgen OBVIOUS
  <2> HIDE DEF e
  <2>2. CallOpen BY <1>2, <1>4, <1>t, <1>9 DEF CallOpen, OpenFrame
  <2>3. (connecting \/ overwritten) /\ ~connected /\ tgen = wgen /\ NothingOf(wgen) /\ ~demo /\ tgen # 0
    BY <2>2, <1>2, <1>4, <1>t, <1>9
    DEF PaneInv, CallsComeFirst, FlagsExclude, Generations, IInv, CallsAreOfAttempts
  <2>4. ~CallOpen' BY <1>2, <1>3, <1>9, <1>o DEF CallOpen, OpenFrame
  <2>5. CallsComeFirst' BY <1>2, <1>d, <2>3, <2>4 DEF CallsComeFirst
  <2>6. /\ Len(toWorker) \in Nat /\ DOMAIN toWorker = 1 .. Len(toWorker)
        /\ \A i \in DOMAIN toWorker' : (i \in DOMAIN toWorker /\ toWorker'[i] = toWorker[i])
                                           \/ (i = Len(toWorker) + 1 /\ toWorker'[i] = e)
        /\ Len(toWorker) + 1 \in DOMAIN toWorker' /\ toWorker'[Len(toWorker) + 1] = e
    BY <2>1, Requested DEF PaneInv, IInv
  <2>7. \A i \in DOMAIN toWorker : toWorker[i].op = "connect" => toWorker[i].gen < tgen
    BY <2>3, QueueElement DEF NothingOf, Sent, PaneInv, IInv, RequestsAreWanted, TypeOK
  <2>8. wactive <= tgen /\ (wactive = tgen => wstate = "idle")
    BY <2>3 DEF NothingOf, PaneInv, IInv, TransportIsWanted
  <2>9. RequestsInOrder'
    <3>1. \A i \in DOMAIN toWorker' : toWorker'[i].op = "connect" =>
             wactive' <= toWorker'[i].gen /\ (toWorker'[i].gen = wactive' => wstate' = "idle")
      BY <1>u, <2>e, <2>6, <2>8 DEF PaneInv, RequestsInOrder
    <3>2. \A i, j \in DOMAIN toWorker' :
             i < j /\ toWorker'[i].op = "connect" /\ toWorker'[j].op = "connect" => toWorker'[i].gen < toWorker'[j].gen
      <4> SUFFICES ASSUME NEW i \in DOMAIN toWorker', NEW j \in DOMAIN toWorker',
                          i < j, toWorker'[i].op = "connect", toWorker'[j].op = "connect"
                   PROVE  toWorker'[i].gen < toWorker'[j].gen OBVIOUS
      <4>1. i \in DOMAIN toWorker /\ toWorker'[i] = toWorker[i] BY <2>6
      <4>2. CASE j \in DOMAIN toWorker /\ toWorker'[j] = toWorker[j] BY <4>1, <4>2 DEF PaneInv, RequestsInOrder
      <4>3. CASE toWorker'[j] = e BY <2>e, <2>7, <4>1, <4>3
      <4> QED BY <2>6, <4>2, <4>3
    <3>3. (connecting \/ overwritten)' /\ ~Reported(tgen)' BY <1>2, <1>6, <2>3 DEF NothingOf, flags
    <3> QED BY <3>1, <3>2, <3>3 DEF RequestsInOrder
  <2>10. ConnectedIsBacked' BY <1>2, <2>3 DEF ConnectedIsBacked, flags
  <2>11. ConnectingIsBacked' BY <1>2, <2>e, <2>6 DEF ConnectingIsBacked
  <2>12. ProgressIsBacked' BY <1>2, <2>3 DEF ProgressIsBacked, Told, NothingOf, Reported, IsReport
  <2> QED BY <1>1, <1>6, <1>7, <2>5, <2>9, <2>10, <2>11, <2>12 DEF PaneInv
<1> QED BY <1>8, <1>9

----
(* New attempts. *)

\* The generation after the end of an attempt has no past.
LEMMA FreshGeneration ==
    ASSUME PaneInv, NEW kept, EndAttempt(kept), UNCHANGED <<worker, toGui>>, tgen' \in {0, wgen'}
    PROVE  /\ NothingOf(wgen)' /\ ~Sent(tgen)' /\ ~Reported(tgen)'
           /\ wgen' # 0 /\ attempt' = attempt + 1 /\ attempt \in Nat
           /\ \A i \in DOMAIN toWorker' : toWorker'[i].op = "connect" =>
                 i \in DOMAIN toWorker /\ toWorker'[i] = toWorker[i]
<1>u. wactive' = wactive /\ wstate' = wstate BY DEF worker
<1>1. attempt' = attempt + 1 /\ attempt \in Nat BY BoundAssumption DEF EndAttempt, PaneInv, IInv, TypeOK
<1>2. wgen \in Nat /\ wgen # 0 /\ wactive # 0 /\ wactive \in Nat /\ wactive <= wgen
  BY DEF PaneInv, Generations, IInv, TypeOK, TransportIsWanted
<1>3. \A i \in DOMAIN toGui : IsReport(toGui[i]) => toGui[i].gen <= wactive /\ toGui[i].gen # 0
  BY DEF PaneInv, ReportsInOrder
<1>4. \A i \in DOMAIN toWorker : toWorker[i].op = "connect" =>
         toWorker[i].gen \in Nat /\ toWorker[i].gen <= wgen /\ toWorker[i].gen # 0
  BY <1>2, QueueElement DEF PaneInv, RequestsInOrder, IInv, RequestsAreWanted
<1>r. \A i \in DOMAIN toGui : IsReport(toGui[i]) => toGui[i].gen \in Nat
  <2> SUFFICES ASSUME NEW i \in DOMAIN toGui, IsReport(toGui[i]) PROVE toGui[i].gen \in Nat OBVIOUS
  <2>1. toGui[i] \in GuiEvents BY ElementOfSeq, LenProperties DEF PaneInv, IInv, TypeOK
  <2> QED BY <2>1 DEF GuiEvents, IsReport
<1>5. CASE demo
  <2>1. wgen' = wgen /\ toWorker' = toWorker BY <1>5 DEF EndAttempt, CancelTransport
  <2>2. NothingOf(wgen) BY <1>5 DEF PaneInv, CallsComeFirst
  <2>3. NothingOf(wgen)' BY <1>u, <2>1, <2>2 DEF NothingOf, Sent, Reported
  <2>4. ~Sent(0)' /\ ~Reported(0)' BY <1>3, <1>4, <2>1 DEF Sent, Reported
  <2> QED BY <1>1, <1>2, <2>1, <2>3, <2>4 DEF NothingOf, Sent, Reported
<1>6. CASE ~demo
  <2> DEFINE e == [op |-> "disconnect"]
  <2>1. wgen' = wgen + 1 /\ toWorker' = Append(toWorker, e) BY <1>6 DEF EndAttempt, CancelTransport
  <2>e. e.op # "connect" OBVIOUS
  <2> HIDE DEF e
  <2>2. \A i \in DOMAIN toWorker' : toWorker'[i].op = "connect" => i \in DOMAIN toWorker /\ toWorker'[i] = toWorker[i]
    BY <2>1, <2>e, Requested DEF PaneInv, IInv
  <2>3. \A i \in DOMAIN toWorker' : toWorker'[i].op = "connect" => toWorker'[i].gen # wgen' /\ toWorker'[i].gen # 0
    BY <1>2, <1>4, <2>1, <2>2
  <2>4. \A i \in DOMAIN toGui' : IsReport(toGui'[i]) => toGui'[i].gen # wgen' /\ toGui'[i].gen # 0
    BY <1>2, <1>3, <1>r, <2>1
  <2>5. wactive' # wgen' /\ wgen' # 0 BY <1>2, <1>u, <2>1
  <2> QED BY <1>1, <2>2, <2>3, <2>4, <2>5 DEF NothingOf, Sent, Reported
<1> QED BY <1>5, <1>6

\* The begin of an attempt: nothing of it is with the worker, and what it is
\* connecting for is the timer of a demo or a call it opens.
Begun ==
    /\ \E kept : EndAttempt(kept)
    /\ UNCHANGED <<worker, toGui>>
    /\ tgen' \in {0, wgen'}
    /\ connecting' \/ waiting' => tgen' = wgen'
    /\ waiting' => ~connecting' /\ ~loading'
    /\ \A a \in demoTimers' : a \in demoTimers \/ (a = attempt' /\ demo' /\ connecting')
BegunAlone == stack' = stack /\ (connecting' => demo' /\ attempt' \in demoTimers')
BegunWithCall ==
    \E f : /\ f.kind \in {"proxy", "load", "announce"} /\ f.request.attempt = attempt'
           /\ stack' = Append(stack, f) /\ connecting'

\* Such a begin keeps the invariant.
LEMMA KeepsNewAttempt ==
    ASSUME PaneInv, IInv', Begun, BegunAlone \/ BegunWithCall
    PROVE  PaneInv'
<1> USE DEF Begun
<1>0. PICK kept : EndAttempt(kept) OBVIOUS
<1>u. wactive' = wactive /\ wstate' = wstate BY DEF worker
<1>1. /\ NothingOf(wgen)' /\ ~Sent(tgen)' /\ ~Reported(tgen)'
      /\ wgen' # 0 /\ attempt' = attempt + 1 /\ attempt \in Nat
      /\ \A i \in DOMAIN toWorker' : toWorker'[i].op = "connect" =>
            i \in DOMAIN toWorker /\ toWorker'[i] = toWorker[i] BY <1>0, FreshGeneration
<1>2. ~connected' /\ ~overwritten' BY <1>0 DEF EndAttempt
<1>3. Generations' BY <1>1, <1>2, <1>u DEF PaneInv, Generations
<1>4. FlagsExclude' BY <1>1, <1>2 DEF PaneInv, IInv, TypeOK, FlagsExclude
<1>5. RequestsInOrder' BY <1>1, <1>u DEF PaneInv, RequestsInOrder
<1>n. \A i \in DOMAIN toGui' : ~OfWanted(i)' BY <1>1 DEF Reported, OfWanted
<1>6. ReportsInOrder' BY <1>n, <1>u DEF PaneInv, ReportsInOrder
<1>7. ReportsFit' BY <1>n, <1>1, <1>3 DEF Told, OfWanted, IsReport, NothingOf, Generations, ReportsFit
<1>8. ConnectedIsBacked' /\ ProgressIsBacked'
  BY <1>2, <1>1 DEF ConnectedIsBacked, ProgressIsBacked, Told, Reported, IsReport
<1>9. \A i \in DOMAIN stack : stack[i].kind # "dialog" => stack[i].request.attempt # attempt'
  BY <1>1, AttemptOver, StackElement DEF PaneInv, IInv
<1>10. CASE BegunAlone
  <2>1. ~CallOpen' BY <1>9, <1>10 DEF BegunAlone, CallOpen, OpenFrame
  <2>2. CallsComeFirst' BY <1>1, <1>2, <1>10, <2>1 DEF BegunAlone, PaneInv, CallsComeFirst
  <2>3. ConnectingIsBacked' BY <1>10 DEF BegunAlone, ConnectingIsBacked
  <2> QED BY <1>3, <1>4, <1>5, <1>6, <1>7, <1>8, <2>2, <2>3 DEF PaneInv
<1>11. ASSUME NEW f, f.kind \in {"proxy", "load", "announce"}, f.request.attempt = attempt',
              stack' = Append(stack, f), connecting'
       PROVE  PaneInv'
  <2>1. /\ Len(stack) \in Nat /\ DOMAIN stack = 1 .. Len(stack)
        /\ DOMAIN stack' = 1 .. Len(stack) + 1
        /\ \A i \in 1 .. Len(stack) : stack'[i] = stack[i]
        /\ stack'[Len(stack) + 1] = f BY <1>11, Behind DEF PaneInv, IInv, TypeOK
  <2>2. \A i \in DOMAIN stack' :
           (i \in DOMAIN stack /\ stack'[i] = stack[i]) \/ (i = Len(stack) + 1 /\ stack'[i] = f) BY <2>1
  <2>3. CallOpen' BY <1>11, <2>1 DEF CallOpen, OpenFrame
  <2>4. \A i, j \in DOMAIN stack' : i # j /\ stack'[i].kind # "dialog" /\ stack'[j].kind # "dialog" =>
           stack'[i].request.attempt # stack'[j].request.attempt
    BY <1>9, <1>11, <2>2 DEF PaneInv, CallsComeFirst
  <2>5. CallsComeFirst' BY <1>1, <1>2, <1>11, <2>4 DEF CallsComeFirst
  <2>6. ConnectingIsBacked' BY <2>3 DEF ConnectingIsBacked, CallOpen
  <2> QED BY <1>3, <1>4, <1>5, <1>6, <1>7, <1>8, <2>5, <2>6 DEF PaneInv
<1> QED BY <1>10, <1>11 DEF BegunWithCall

\* The user and the idle timer keep what makes the pane's flags true.
LEMMA PaneUser ==
    ASSUME PaneInv, UserStep \/ IdleTimeout
    PROVE  PaneInv'
<1>i. IInv' BY InvUser DEF PaneInv
<1>a. attempt \in Nat BY BoundAssumption DEF PaneInv, IInv, TypeOK
<1>1. CASE DisconnectFromHost BY <1>1, <1>i, KeepsNewAttempt DEF DisconnectFromHost, Begun, BegunAlone
<1>b. ASSUME NEW p, NEW d, NEW kept, BeginAttempt(p, d, kept)
      PROVE  /\ \E k : EndAttempt(k)
             /\ UNCHANGED <<worker, toGui>> /\ tgen' = wgen' /\ demo' = d BY <1>b DEF BeginAttempt
<1>c. ASSUME NEW p, NEW secret, NEW kept, connecting', ~loading' \/ Open("load", p, secret),
             OpenBehindProxy(p, secret, kept) \/ \E kind \in {"load", "announce"} : Open(kind, p, secret)
      PROVE  BegunWithCall
  <2>1. ASSUME NEW f, stack' = Append(stack, f) /\ f.kind \in {"proxy", "load", "announce"} /\ OfBegun(f)
        PROVE  BegunWithCall BY <1>c, <2>1 DEF BegunWithCall, OfBegun
  <2> QED BY <1>c, <2>1, OpensOfBegun
<1>2. ASSUME NEW s \in Secrets \cup {NoSecret}, ConnectTo(s) PROVE PaneInv'
  <2>1. BeginAttempt(row, FALSE, NoSecret) /\ demoTimers' = demoTimers BY <1>2 DEF ConnectTo
  <2>2. /\ \E k : EndAttempt(k)
        /\ UNCHANGED <<worker, toGui>> /\ tgen' = wgen' BY <2>1, <1>b
  <2>3. waiting' => ~connecting' /\ ~loading' BY <1>2 DEF ConnectTo, OpenBehindProxy
  <2>4. Begun BY <2>1, <2>2, <2>3 DEF Begun
  <2>5. \/ connecting' /\ Open("load", row, NoSecret)
        \/ ~connecting' /\ stack' = stack
        \/ connecting' /\ ~loading' /\ Open("announce", row, s)
        \/ connecting' /\ ~loading' /\ OpenBehindProxy(row, s, NoSecret) BY <1>2 DEF ConnectTo, OpenBehindProxy
  <2>6. BegunAlone \/ BegunWithCall BY <1>c, <2>5 DEF BegunAlone
  <2> QED BY <1>i, <2>4, <2>6, KeepsNewAttempt
<1>4. CASE ConnectToDemo BY <1>4, <1>i, KeepsNewAttempt DEF ConnectToDemo, BeginAttempt, Begun, BegunAlone
<1>5. ASSUME NEW s \in Secrets, NEW keep \in BOOLEAN, ConnectWithPassword(s, keep) PROVE PaneInv'
  <2> DEFINE kept == IF keep THEN s ELSE NoSecret
  <2>1. \E k : BeginAttempt(profile, FALSE, k) BY <1>5 DEF ConnectWithPassword
  <2>2. /\ connecting' /\ ~loading' /\ ~waiting' /\ demoTimers' = demoTimers
        /\ OpenBehindProxy(profile, s, kept) \/ Open("announce", profile, s)
    BY <1>5 DEF ConnectWithPassword, OpenBehindProxy
  <2> HIDE DEF kept
  <2>3. BegunWithCall BY <1>c, <2>2
  <2>4. Begun BY <1>b, <2>1, <2>2 DEF Begun
  <2> QED BY <1>i, <2>3, <2>4, KeepsNewAttempt
<1>6. ASSUME NEW h \in Hosts, EditProfile(h) PROVE PaneInv' BY <1>i, <1>6, KeepsUnmoved DEF EditProfile
<1> QED BY <1>1, <1>2, <1>4, <1>5, <1>6 DEF UserStep, UserDisconnects, IdleTimeout

\* So does the GUI thread.
LEMMA PaneGui ==
    ASSUME PaneInv, GuiStep \/ AnswerStep
    PROVE  PaneInv'
<1>t. TypeOK' BY TypeGui DEF PaneInv, IInv
<1>1. CASE HandleConnected BY <1>1, <1>t, HeardReport DEF HandleConnected, Heard, ReportTypes
<1>2. CASE HandleProgress BY <1>2, <1>t, HeardReport DEF HandleProgress, Heard, ReportTypes
<1>3. CASE HandleFailed BY <1>3, <1>t, HeardReport DEF HandleFailed, Heard, ReportTypes
<1>4. CASE HandlePasswordRejected BY <1>4, <1>t, HeardReport DEF HandlePasswordRejected, Heard, ReportTypes
<1> QED BY <1>1, <1>2, <1>3, <1>4, KeepsReturn, KeepsAnnounce, KeepsTimer, KeepsHostKey, KeepsAnswer
  DEF GuiStep, AnswerStep


----
(* Steps of the worker. *)

\* One report more, of the generation the worker serves; a question for a host
\* key may follow it.
GrownBy(type) ==
    \E n \in DOMAIN toGui' :
        /\ toGui'[n].type = type /\ toGui'[n].gen = wactive'
        /\ \A i \in DOMAIN toGui : i \in DOMAIN toGui' /\ toGui'[i] = toGui[i]
        /\ \A i \in DOMAIN toGui' : \/ i \in DOMAIN toGui /\ toGui'[i] = toGui[i] /\ i < n
                                    \/ i = n
                                    \/ ~IsReport(toGui'[i])

\* The worker takes no request.
RequestsKept == toWorker' = toWorker \/ \E op : op # "connect" /\ Take(op)

\* What a step of the worker does to what the pane may hear: it reports what may
\* come next, and goes where that is true.
Says(type) ==
    /\ wstate # "idle" /\ UNCHANGED <<gui, wactive>>
    /\ GrownBy(type) /\ RequestsKept
    /\ MayBeTold \subseteq Earlier[type] /\ MayBeTold \cup {type} \subseteq MayBeTold'
    /\ wstate = "connected" => type = "down"
    /\ wstate = "rejected" <=> type = "rejected"
    /\ wstate = "rejected" => wstate' = "idle"
    /\ type = "up" => wstate' = "connected"
    /\ type = "progress" => \/ wstate' \in Busy \ {"rejected"}
                            \/ wstate' = "waitKey" /\ KeyAnswerable'

\* It says nothing, because nothing changes for the pane or nobody waits.
SaysNothing ==
    /\ UNCHANGED <<gui, wactive, toGui>> /\ RequestsKept
    /\ \/ wstate' = wstate /\ wstate # "waitKey"
       \/ wstate = "auth" /\ wstate' = "shell"
       \/ wactive # wgen /\ wstate \in {"rejected", "shell"} /\ wstate' = "idle"

\* What the GUI sees of a step of the worker.
LEMMA GuiRests ==
    ASSUME UNCHANGED gui
    PROVE  /\ UNCHANGED <<connected, connecting, loading, waiting, overwritten, attempt, tgen, demo, stack, demoTimers, wgen>>
           /\ CallOpen' <=> CallOpen
           /\ MayBeHeard' = MayBeHeard
BY DEF gui, flags, CallOpen, OpenFrame, MayBeHeard

\* Requests stay queued, and in order, when the worker takes another event.
LEMMA SameRequests ==
    ASSUME PaneInv, RequestsKept
    PROVE  /\ \A g : Sent(g)' <=> Sent(g)
           /\ \A i \in DOMAIN toWorker' : toWorker'[i].op = "connect" =>
                 \E k \in DOMAIN toWorker : toWorker[k] = toWorker'[i]
           /\ \A i, j \in DOMAIN toWorker' : i < j /\ toWorker'[i].op = "connect" /\ toWorker'[j].op = "connect" =>
                 toWorker'[i].gen < toWorker'[j].gen
<1>1. CASE toWorker' = toWorker BY <1>1 DEF Sent, PaneInv, RequestsInOrder
<1>2. ASSUME NEW op, op # "connect", Take(op)
      PROVE  /\ \A g : Sent(g)' <=> Sent(g)
             /\ \A i \in DOMAIN toWorker' : toWorker'[i].op = "connect" =>
                   \E k \in DOMAIN toWorker : toWorker[k] = toWorker'[i]
             /\ \A i, j \in DOMAIN toWorker' :
                   i < j /\ toWorker'[i].op = "connect" /\ toWorker'[j].op = "connect" =>
                      toWorker'[i].gen < toWorker'[j].gen
  <2>1. toWorker \in Seq(WorkerEvents) /\ toWorker # <<>> /\ toWorker' = Tail(toWorker) /\ Head(toWorker).op = op
    BY <1>2 DEF PaneInv, IInv, TypeOK, Take
  <2>2. /\ Len(toWorker) \in Nat /\ DOMAIN toWorker = 1 .. Len(toWorker) /\ toWorker[1] = Head(toWorker)
        /\ \A i \in DOMAIN toWorker' : i \in Nat /\ i + 1 \in DOMAIN toWorker /\ toWorker'[i] = toWorker[i + 1]
        /\ \A i \in DOMAIN toWorker : i = 1 \/ (i - 1 \in DOMAIN toWorker' /\ toWorker'[i - 1] = toWorker[i])
    BY <2>1, Rest
  <2>3. \A g : Sent(g)' <=> Sent(g)
    <3> TAKE g
    <3>1. Sent(g)' => Sent(g) BY <2>2 DEF Sent
    <3>2. Sent(g) => Sent(g)'
      <4> SUFFICES ASSUME NEW i \in DOMAIN toWorker, toWorker[i].op = "connect", toWorker[i].gen = g
                   PROVE  Sent(g)' BY DEF Sent
      <4>1. i # 1 BY <1>2, <2>1, <2>2
      <4> QED BY <2>2, <4>1 DEF Sent
    <3> QED BY <3>1, <3>2
  <2>4. \A i, j \in DOMAIN toWorker' : i < j => i + 1 < j + 1 BY <2>2
  <2>5. \A i, j \in DOMAIN toWorker' :
           i < j /\ toWorker'[i].op = "connect" /\ toWorker'[j].op = "connect" => toWorker'[i].gen < toWorker'[j].gen
    BY <2>2, <2>4 DEF PaneInv, RequestsInOrder
  <2> QED BY <2>2, <2>3, <2>5
<1> QED BY <1>1, <1>2 DEF RequestsKept

\* The order of the requests outlives the step, if the worker starts nothing.
LEMMA KeepsRequests ==
    ASSUME PaneInv, RequestsKept, UNCHANGED <<gui, wactive>>, wstate = "idle" => wstate' = "idle",
           Sent(tgen) => (Reported(tgen)' => Reported(tgen))
    PROVE  RequestsInOrder'
BY SameRequests, GuiRests DEF PaneInv, RequestsInOrder, Sent, Reported

\* A report of the worker keeps what makes the pane's flags true: it was the next
\* one to come for its generation, and the worker moved to where it is true.
LEMMA KeepsSays ==
    ASSUME PaneInv, IInv', NEW type \in ReportTypes, Says(type)
    PROVE  PaneInv'
<1>1. UNCHANGED <<connected, connecting, loading, waiting, overwritten, attempt, tgen, demo, stack, demoTimers, wgen>>
  BY GuiRests DEF Says
<1>2. /\ CallOpen' <=> CallOpen
      /\ MayBeHeard' = MayBeHeard BY GuiRests DEF Says
<1>s. \A g : Sent(g)' <=> Sent(g) BY SameRequests DEF Says
<1>a. wactive' = wactive /\ wstate # "idle" BY DEF Says
<1>3. PICK n \in DOMAIN toGui' :
        /\ toGui'[n].type = type /\ toGui'[n].gen = wactive'
        /\ \A i \in DOMAIN toGui : i \in DOMAIN toGui' /\ toGui'[i] = toGui[i]
        /\ \A i \in DOMAIN toGui' : \/ i \in DOMAIN toGui /\ toGui'[i] = toGui[i] /\ i < n
                                    \/ i = n
                                    \/ ~IsReport(toGui'[i]) BY DEF Says, GrownBy
<1>r. IsReport(toGui'[n]) BY <1>3 DEF IsReport, ReportTypes
<1>4. \A g : Reported(g)' => Reported(g) \/ g = wactive BY <1>3, <1>a DEF Reported, IsReport
<1>5. \A t, g : Told(t, g) => Told(t, g)' BY <1>3 DEF Told
<1>6. Told(type, wactive)' BY <1>3, <1>a DEF Told
<1>7. \A g : \A t \in ReportTypes : Told(t, g)' => Told(t, g) \/ (t = type /\ g = wactive)
  <2> SUFFICES ASSUME NEW t \in ReportTypes, NEW g, NEW i \in DOMAIN toGui', toGui'[i].type = t, toGui'[i].gen = g
               PROVE  Told(t, g) \/ (t = type /\ g = wactive) BY DEF Told
  <2>1. IsReport(toGui'[i]) BY DEF IsReport, ReportTypes
  <2> QED BY <1>3, <1>a, <2>1 DEF Told
<1>8. Sent(tgen) => tgen # wactive BY <1>a DEF PaneInv, RequestsInOrder, Sent
<1>9. Generations' /\ FlagsExclude' BY <1>1, <1>a DEF PaneInv, Generations, FlagsExclude
<1>10. CallsComeFirst' BY <1>1, <1>4, <1>a, <1>s, <1>2 DEF NothingOf, PaneInv, CallsComeFirst
<1>11. RequestsInOrder' BY <1>4, <1>8, <1>1, KeepsRequests DEF Says
<1>w. \A i \in DOMAIN toGui' : OfWanted(i)' => (i \in DOMAIN toGui /\ OfWanted(i) /\ i < n /\ toGui'[i] = toGui[i]) \/ i = n
  BY <1>1, <1>3 DEF OfWanted, IsReport
<1>t. \A i \in DOMAIN toGui : OfWanted(i) =>
         toGui[i].type \in MayBeTold /\ (overwritten \/ toGui[i].type \in MayBeHeard) BY DEF PaneInv, ReportsFit
<1>n. wactive \in Nat /\ wactive # 0 BY DEF PaneInv, IInv, TypeOK, Generations
<1>12. ReportsInOrder'
  <2>1. \A i \in DOMAIN toGui' : IsReport(toGui'[i]) => toGui'[i].gen <= wactive' /\ toGui'[i].gen # 0
    BY <1>3, <1>a, <1>n DEF PaneInv, ReportsInOrder
  <2>2. ASSUME NEW i \in DOMAIN toGui', NEW j \in DOMAIN toGui', i < j, OfWanted(i)', OfWanted(j)'
        PROVE  toGui'[i].type \in Earlier[toGui'[j].type]
    <3>0. DOMAIN toGui' \subseteq Nat BY LenProperties DEF IInv, TypeOK
    <3>1. i # n BY <1>w, <2>2, <3>0
    <3>2. i \in DOMAIN toGui /\ OfWanted(i) /\ toGui'[i] = toGui[i] BY <1>w, <2>2, <3>1
    <3>3. CASE j = n BY <1>3, <1>t, <3>2, <3>3 DEF Says
    <3>4. CASE j # n BY <1>w, <2>2, <3>4, <3>2 DEF PaneInv, ReportsInOrder
    <3> QED BY <3>3, <3>4
  <2> QED BY <2>1, <2>2 DEF ReportsInOrder
<1>13. wactive = tgen /\ ~connecting /\ ~overwritten => wstate \in {"connected", "rejected"}
  <2> SUFFICES ASSUME wactive = tgen, ~connecting, ~overwritten PROVE wstate \in {"connected", "rejected"} OBVIOUS
  <2>1. CASE ~connected BY <1>a, <2>1 DEF PaneInv, ReportsFit
  <2>2. CASE connected
    <3>1. tgen = wgen BY <2>2 DEF PaneInv, Generations
    <3>2. ~demo BY <1>a, <3>1 DEF PaneInv, CallsComeFirst, NothingOf
    <3>3. CASE Told("down", tgen)
      <4>1. PICK i \in DOMAIN toGui : toGui[i].type = "down" /\ toGui[i].gen = tgen BY <3>3 DEF Told
      <4>2. "down" \in MayBeTold BY <1>t, <4>1 DEF OfWanted, IsReport
      <4> QED BY <1>a, <4>2 DEF MayBeTold
    <3> QED BY <2>2, <3>2, <3>3 DEF PaneInv, ConnectedIsBacked
  <2> QED BY <2>1, <2>2
<1>14. wactive = tgen => overwritten \/ type \in MayBeHeard
  <2> SUFFICES ASSUME wactive = tgen, ~overwritten PROVE type \in MayBeHeard OBVIOUS
  <2>1. CASE connecting BY <2>1 DEF MayBeHeard, ReportTypes
  <2>2. CASE ~connecting BY <1>13, <2>2 DEF Says, PaneInv, ReportsFit, MayBeHeard
  <2> QED BY <2>1, <2>2
<1>15. ReportsFit'
  <2>1. ASSUME NEW i \in DOMAIN toGui', OfWanted(i)'
        PROVE  toGui'[i].type \in MayBeTold' /\ (overwritten' \/ toGui'[i].type \in MayBeHeard')
    <3>1. CASE i = n BY <1>1, <1>3, <1>a, <2>1, <3>1, <1>2, <1>14 DEF OfWanted, Says
    <3>2. CASE i # n BY <1>1, <1>2, <1>t, <1>w, <2>1, <3>2 DEF Says
    <3> QED BY <3>1, <3>2
  <2>2. ASSUME Told("up", tgen)' PROVE wstate' = "connected" \/ Told("down", tgen)'
    <3>1. CASE type = "up" BY <3>1 DEF Says
    <3>2. CASE type # "up"
      <4>1. Told("up", tgen) BY <1>1, <1>7, <2>2, <3>2 DEF ReportTypes
      <4>2. CASE Told("down", tgen) BY <1>1, <1>5, <4>2
      <4>3. CASE wstate = "connected"
        <5>1. PICK i \in DOMAIN toGui : toGui[i].type = "up" /\ toGui[i].gen = tgen BY <4>1 DEF Told
        <5>2. toGui[i].gen <= wactive /\ toGui[i].gen # 0 BY <5>1 DEF PaneInv, ReportsInOrder, IsReport
        <5>3. tgen = wgen /\ tgen <= wactive BY <5>1, <5>2 DEF PaneInv, Generations
        <5>4. wactive = tgen BY <5>3 DEF PaneInv, IInv, TypeOK, TransportIsWanted
        <5> QED BY <1>1, <1>6, <4>3, <5>4 DEF Says
      <4> QED BY <4>1, <4>2, <4>3 DEF PaneInv, ReportsFit
    <3> QED BY <3>1, <3>2
  <2>3. ~connected' /\ ~connecting' /\ wactive' = tgen' => overwritten' \/ wstate' \in {"idle", "rejected"}
    BY <1>1, <1>a DEF Says, PaneInv, ReportsFit
  <2> QED BY <2>1, <2>2, <2>3 DEF ReportsFit
<1>16. ConnectedIsBacked' BY <1>1, <1>5, <1>6 DEF Says, PaneInv, ConnectedIsBacked
<1>17. ConnectingIsBacked'
  <2> SUFFICES ASSUME connecting PROVE ConnectingIsBacked' BY <1>1 DEF ConnectingIsBacked
  <2>1. CASE CallOpen \/ Sent(tgen) \/ (demo /\ attempt \in demoTimers)
    BY <1>1, <1>2, <1>s, <2>1 DEF ConnectingIsBacked, CallOpen, Sent
  <2>2. CASE Told("up", tgen) \/ Told("down", tgen) BY <1>1, <1>5, <2>2 DEF ConnectingIsBacked
  <2>3. CASE wactive = tgen /\ wstate # "rejected" BY <2>3, <1>1, <1>6, <1>a DEF Says, ReportTypes, ConnectingIsBacked
  <2> QED BY <2>1, <2>2, <2>3 DEF PaneInv, ConnectingIsBacked, CallOpen, Sent
<1>18. ProgressIsBacked'
  <2> SUFFICES ASSUME Told("progress", tgen)', ~Told("up", tgen)', ~Told("down", tgen)'
               PROVE  wactive = tgen /\ (wstate' \in Busy \ {"rejected"} \/ (wstate' = "waitKey" /\ KeyAnswerable'))
    <3> DEFINE backed == wactive = tgen /\ (wstate' \in Busy \ {"rejected"} \/ (wstate' = "waitKey" /\ KeyAnswerable'))
    <3>1. ASSUME backed PROVE ProgressIsBacked'
      <4>1. CASE wstate' \in Busy \ {"rejected"} BY <4>1, <3>1, <1>1, <1>a DEF ProgressIsBacked
      <4>2. CASE wstate' = "waitKey" /\ KeyAnswerable' BY <4>2, <3>1, <1>1, <1>a DEF ProgressIsBacked
      <4> QED BY <4>1, <4>2, <3>1
    <3>2. ASSUME ~(Told("progress", tgen)' /\ ~Told("up", tgen)' /\ ~Told("down", tgen)') PROVE ProgressIsBacked'
      BY <3>2 DEF ProgressIsBacked
    <3> QED BY <3>1, <3>2
  <2>1. ~Told("up", tgen) /\ ~Told("down", tgen) BY <1>1, <1>5
  <2>2. wactive = tgen BY <1>1, <1>7, <2>1 DEF ReportTypes, PaneInv, ProgressIsBacked
  <2>3. type \in {"progress", "rejected"}
    <3>1. toGui'[n].gen = tgen' BY <1>1, <1>3, <1>a, <2>2
    <3>2. toGui'[n].type # "up" /\ toGui'[n].type # "down" BY <3>1 DEF Told
    <3> QED BY <1>3, <3>2 DEF ReportTypes
  <2>4. type # "rejected" BY <1>1, <1>7, <2>1 DEF ReportTypes, PaneInv, ProgressIsBacked, Says
  <2> QED BY <2>2, <2>3, <2>4 DEF Says
<1> QED BY <1>9, <1>10, <1>11, <1>12, <1>15, <1>16, <1>17, <1>18 DEF PaneInv

\* A step nobody hears keeps it too.
LEMMA KeepsSilence ==
    ASSUME PaneInv, IInv', SaysNothing
    PROVE  PaneInv'
<1>1. UNCHANGED <<connected, connecting, loading, waiting, overwritten, attempt, tgen, demo, stack, demoTimers, wgen>>
  BY GuiRests DEF SaysNothing
<1>2. /\ CallOpen' <=> CallOpen
      /\ MayBeHeard' = MayBeHeard BY GuiRests DEF SaysNothing
<1>s. \A g : Sent(g)' <=> Sent(g) BY SameRequests DEF SaysNothing
<1>a. wactive' = wactive /\ toGui' = toGui BY DEF SaysNothing
<1>r. (\A t, g : Told(t, g)' <=> Told(t, g)) /\ (\A g : Reported(g)' <=> Reported(g)) BY <1>a DEF Told, Reported
<1>w. /\ wstate = "idle" => wstate' = "idle"
      /\ wstate' = "connected" <=> wstate = "connected"
      /\ wstate \in {"idle", "rejected"} => wstate' \in {"idle", "rejected"}
      /\ MayBeTold \subseteq MayBeTold' BY DEF SaysNothing, MayBeTold
<1>3. Generations' /\ FlagsExclude' BY <1>1, <1>a DEF PaneInv, Generations, FlagsExclude
<1>4. CallsComeFirst' BY <1>1, <1>a, <1>r, <1>s, <1>w, <1>2 DEF NothingOf, PaneInv, CallsComeFirst
<1>5. RequestsInOrder' BY <1>1, <1>r, <1>w, KeepsRequests DEF SaysNothing
<1>6. ReportsInOrder' BY <1>1, <1>a DEF PaneInv, ReportsInOrder, OfWanted
<1>7. ReportsFit' BY <1>1, <1>2, <1>a, <1>w, <1>r DEF PaneInv, ReportsFit, OfWanted
<1>8. ConnectedIsBacked' BY <1>1, <1>a, <1>r, <1>w DEF PaneInv, ConnectedIsBacked
<1>9. ConnectingIsBacked'
  <2> SUFFICES ASSUME connecting PROVE ConnectingIsBacked' BY <1>1 DEF ConnectingIsBacked
  <2>1. CASE CallOpen \/ Sent(tgen) \/ (demo /\ attempt \in demoTimers)
    BY <1>1, <1>2, <1>s, <2>1 DEF ConnectingIsBacked, CallOpen, Sent
  <2>2. CASE Told("up", tgen) \/ Told("down", tgen) BY <1>1, <1>r, <2>2 DEF ConnectingIsBacked
  <2>3. CASE wactive = tgen /\ wstate \in (Busy \ {"rejected"}) \cup {"waitKey"}
    BY <2>3, <1>1, <1>a DEF PaneInv, Generations, SaysNothing, Busy, ConnectingIsBacked
  <2> QED BY <2>1, <2>2, <2>3 DEF PaneInv, ConnectingIsBacked, CallOpen, Sent
<1>10. ProgressIsBacked'
  <2> SUFFICES ASSUME Told("progress", tgen) PROVE ProgressIsBacked' BY <1>1, <1>r DEF ProgressIsBacked
  <2>1. tgen = wgen BY DEF Told, PaneInv, ReportsInOrder, IsReport, Generations
  <2>2. CASE Told("up", tgen) \/ Told("down", tgen) BY <1>1, <1>r, <2>2 DEF ProgressIsBacked
  <2>3. CASE wactive = tgen /\ wstate \in (Busy \ {"rejected"}) \cup {"waitKey"}
    BY <2>1, <2>3, <1>1, <1>a DEF SaysNothing, Busy, ProgressIsBacked
  <2> QED BY <2>2, <2>3 DEF PaneInv, ProgressIsBacked
<1> QED BY <1>3, <1>4, <1>5, <1>6, <1>7, <1>8, <1>9, <1>10 DEF PaneInv

\* The worker starts the next request: the one the session waits for, or a
\* canceled one that it drops without a word.
LEMMA KeepsConnect ==
    ASSUME PaneInv, IInv', WorkerConnects
    PROVE  PaneInv'
<1>1. UNCHANGED <<connected, connecting, loading, waiting, overwritten, attempt, tgen, demo, stack, demoTimers, wgen>>
  BY GuiRests DEF WorkerConnects
<1>2. /\ CallOpen' <=> CallOpen
      /\ MayBeHeard' = MayBeHeard BY GuiRests DEF WorkerConnects
<1> DEFINE g == Head(toWorker).gen
<1>3. /\ toWorker \in Seq(WorkerEvents) /\ toWorker # <<>> /\ toWorker' = Tail(toWorker) /\ Head(toWorker).op = "connect"
      /\ wactive' = g BY DEF WorkerConnects, Take, PaneInv, IInv, TypeOK
<1>4. /\ Len(toWorker) \in Nat /\ DOMAIN toWorker = 1 .. Len(toWorker) /\ 1 \in DOMAIN toWorker /\ toWorker[1] = Head(toWorker)
      /\ \A i \in DOMAIN toWorker' : i \in Nat \ {0} /\ i + 1 \in DOMAIN toWorker /\ toWorker'[i] = toWorker[i + 1]
      /\ \A i \in DOMAIN toWorker : i = 1 \/ (i - 1 \in DOMAIN toWorker' /\ toWorker'[i - 1] = toWorker[i])
  BY <1>3, Rest
<1>5. /\ g \in Nat /\ wactive \in Nat /\ wgen \in Nat
      /\ wactive <= g /\ wactive # 0 /\ g <= wgen
      /\ g = wgen => tgen = wgen /\ ~demo
  BY <1>3, <1>4, QueueElement DEF PaneInv, IInv, RequestsInOrder, RequestsAreWanted, Generations, TypeOK
<1> HIDE DEF g
<1>6. \A i \in DOMAIN toWorker' : toWorker'[i].op = "connect" => g < toWorker'[i].gen /\ toWorker'[i].gen \in Nat
  <2> SUFFICES ASSUME NEW i \in DOMAIN toWorker', toWorker'[i].op = "connect"
               PROVE  g < toWorker'[i].gen /\ toWorker'[i].gen \in Nat OBVIOUS
  <2>1. i + 1 \in DOMAIN toWorker /\ 1 < i + 1 /\ toWorker[i + 1] = toWorker'[i] BY <1>4
  <2>2. toWorker[1].op = "connect" /\ toWorker[1].gen = g BY <1>3, <1>4 DEF g
  <2>3. toWorker[1].gen < toWorker[i + 1].gen BY <1>4, <2>1, <2>2 DEF PaneInv, RequestsInOrder
  <2> QED BY <2>1, <2>2, <2>3, QueueElement DEF PaneInv, IInv
<1>7. \A i, j \in DOMAIN toWorker' : i < j /\ toWorker'[i].op = "connect" /\ toWorker'[j].op = "connect" =>
         toWorker'[i].gen < toWorker'[j].gen BY <1>4 DEF PaneInv, RequestsInOrder
<1>s. \A h : Sent(h)' => Sent(h) BY <1>4 DEF Sent
<1>h. Sent(g) BY <1>3, <1>4 DEF Sent, g
<1>8. \A i \in DOMAIN toWorker' : toWorker'[i].op = "connect" =>
         wactive' <= toWorker'[i].gen /\ (toWorker'[i].gen = wactive' => wstate' = "idle") BY <1>3, <1>5, <1>6
<1>9. Generations' /\ FlagsExclude' BY <1>3, <1>5, <1>1 DEF PaneInv, Generations, FlagsExclude
<1>r. \A i \in DOMAIN toGui : IsReport(toGui[i]) => toGui[i].gen \in Nat /\ toGui[i].gen <= g /\ toGui[i].gen # 0
  <2> SUFFICES ASSUME NEW i \in DOMAIN toGui, IsReport(toGui[i])
               PROVE  toGui[i].gen \in Nat /\ toGui[i].gen <= g /\ toGui[i].gen # 0 OBVIOUS
  <2>1. toGui[i] \in GuiEvents BY ElementOfSeq, LenProperties DEF PaneInv, IInv, TypeOK
  <2>2. toGui[i].gen \in Nat BY <2>1 DEF GuiEvents, IsReport
  <2>3. toGui[i].gen <= wactive /\ toGui[i].gen # 0 BY DEF PaneInv, ReportsInOrder
  <2> QED BY <1>5, <2>2, <2>3
<1>10. CASE g # wgen
  <2>1. wstate' = "idle" /\ toGui' = toGui BY <1>3, <1>10 DEF WorkerConnects
  <2>2. wactive # wgen BY <1>5, <1>10
  <2>3. \A i \in DOMAIN toGui : ~OfWanted(i) BY <1>5, <1>10, <1>r DEF OfWanted, PaneInv, Generations
  <2>4. ~Told("up", tgen) /\ ~Told("down", tgen) /\ ~Told("progress", tgen) BY <2>3 DEF Told, OfWanted, IsReport
  <2>5. tgen = wgen => (Sent(tgen) => Sent(tgen)')
    <3> SUFFICES ASSUME tgen = wgen, NEW i \in DOMAIN toWorker, toWorker[i].op = "connect", toWorker[i].gen = tgen
                 PROVE  Sent(tgen)' BY DEF Sent
    <3>1. i # 1 BY <1>4, <1>10 DEF g
    <3> QED BY <1>1, <1>4, <3>1 DEF Sent
  <2>6. CallsComeFirst' BY <1>1, <1>3, <1>10, <1>s, <2>1, <1>2 DEF NothingOf, Reported, PaneInv, CallsComeFirst
  <2>7. RequestsInOrder' BY <1>1, <1>s, <2>1, <1>7, <1>8 DEF PaneInv, RequestsInOrder, Reported, Sent
  <2>8. ReportsInOrder' BY <1>1, <1>3, <1>r, <2>1, <2>3 DEF ReportsInOrder, OfWanted
  <2>9. ReportsFit' BY <1>1, <2>1, <2>3, <2>4 DEF ReportsFit, OfWanted, Told
  <2>10. ConnectedIsBacked' BY <1>1, <2>2, <2>4 DEF PaneInv, ConnectedIsBacked, Generations
  <2>11. ConnectingIsBacked'
    <3> SUFFICES ASSUME connecting PROVE ConnectingIsBacked' BY <1>1 DEF ConnectingIsBacked
    <3>1. tgen = wgen BY DEF PaneInv, Generations
    <3>2. CallOpen \/ Sent(tgen) \/ (demo /\ attempt \in demoTimers)
      BY <2>2, <2>4, <3>1 DEF PaneInv, ConnectingIsBacked, CallOpen, Sent
    <3> QED BY <1>1, <1>2, <2>5, <3>1, <3>2 DEF ConnectingIsBacked, CallOpen, Sent
  <2>12. ProgressIsBacked' BY <1>1, <2>1, <2>4 DEF ProgressIsBacked, Told
  <2> QED BY <1>9, <2>6, <2>7, <2>8, <2>9, <2>10, <2>11, <2>12 DEF PaneInv
<1>11. CASE g = wgen
  <2>0. tgen = wgen /\ Sent(tgen) /\ ~Reported(tgen) /\ ~demo /\ ~CallOpen /\ tgen # 0 /\ (connecting \/ overwritten)
    BY <1>5, <1>11, <1>h DEF PaneInv, RequestsInOrder, CallsComeFirst, NothingOf, Generations
  <2>c. ~connected BY <2>0 DEF PaneInv, ConnectedIsBacked, RequestsInOrder, Sent, Told, Reported, IsReport
  <2>1. /\ tgen = wgen /\ Sent(tgen) /\ ~connected /\ ~Reported(tgen) /\ ~demo /\ ~CallOpen /\ tgen # 0
        /\ connecting \/ overwritten BY <2>0, <2>c
  <2> DEFINE e == [type |-> "progress", gen |-> wactive']
  <2>2. wstate' = "tcp" /\ toGui' = Append(toGui, e) BY <1>3, <1>11 DEF WorkerConnects
  <2>e. e.type = "progress" /\ e.gen = tgen /\ IsReport(e) BY <1>3, <1>11, <2>1 DEF IsReport
  <2> HIDE DEF e
  <2>3. /\ Len(toGui) \in Nat /\ DOMAIN toGui = 1 .. Len(toGui)
        /\ DOMAIN toGui' = 1 .. Len(toGui) + 1
        /\ \A i \in 1 .. Len(toGui) : toGui'[i] = toGui[i]
        /\ toGui'[Len(toGui) + 1] = e BY <2>2, Behind DEF PaneInv, IInv, TypeOK
  <2>4. \A i \in DOMAIN toGui' : (i \in DOMAIN toGui /\ toGui'[i] = toGui[i]) \/ (i = Len(toGui) + 1 /\ toGui'[i] = e)
    BY <2>3
  <2>5. \A i \in DOMAIN toGui' : OfWanted(i)' => i = Len(toGui) + 1 /\ toGui'[i] = e
    BY <1>1, <2>1, <2>4 DEF OfWanted, Reported
  <2>6. ~Sent(tgen)' BY <1>1, <1>5, <1>6, <1>11, <2>1 DEF Sent
  <2>7. CallsComeFirst' BY <1>1, <1>2, <2>1 DEF PaneInv, CallsComeFirst
  <2>8. RequestsInOrder' BY <1>7, <1>8, <2>6 DEF RequestsInOrder
  <2>9. ReportsInOrder'
    <3>1. \A i \in DOMAIN toGui' : IsReport(toGui'[i]) => toGui'[i].gen <= wactive' /\ toGui'[i].gen # 0
      BY <1>3, <1>5, <1>11, <1>r, <2>1, <2>4, <2>e
    <3>2. \A i, j \in DOMAIN toGui' : i < j => ~(OfWanted(i)' /\ OfWanted(j)') BY <2>3, <2>5
    <3> QED BY <3>1, <3>2 DEF ReportsInOrder
  <2>10. ReportsFit' BY <1>1, <2>1, <2>2, <2>5, <2>e DEF MayBeTold, MayBeHeard, Told, OfWanted, IsReport, ReportsFit
  <2>11. ConnectedIsBacked' BY <1>1, <2>1 DEF ConnectedIsBacked
  <2>12. ConnectingIsBacked' BY <1>1, <1>3, <1>11, <2>1, <2>2 DEF ConnectingIsBacked, Busy
  <2>13. ProgressIsBacked' BY <1>1, <1>3, <1>11, <2>1, <2>2 DEF ProgressIsBacked, Busy
  <2> QED BY <1>9, <2>7, <2>8, <2>9, <2>10, <2>11, <2>12, <2>13 DEF PaneInv
<1> QED BY <1>10, <1>11

\* What the queue to the GUI is after the worker's reports.
LEMMA ReportGrows ==
    ASSUME TypeOK, NEW type, toGui' = Report(type), wactive' = wactive
    PROVE  GrownBy(type)
<1> DEFINE e == [type |-> type, gen |-> wactive]
<1>1. toGui' = Append(toGui, e) BY DEF Report
<1>e. e.type = type /\ e.gen = wactive OBVIOUS
<1> HIDE DEF e
<1>2. /\ Len(toGui) \in Nat /\ DOMAIN toGui = 1 .. Len(toGui)
      /\ DOMAIN toGui' = 1 .. Len(toGui) + 1
      /\ \A i \in 1 .. Len(toGui) : toGui'[i] = toGui[i]
      /\ toGui'[Len(toGui) + 1] = e BY <1>1, Behind DEF TypeOK
<1> DEFINE n == Len(toGui) + 1
<1>3. n \in DOMAIN toGui' /\ toGui'[n] = e BY <1>2
<1>4. \A i \in DOMAIN toGui : i \in DOMAIN toGui' /\ toGui'[i] = toGui[i] BY <1>2
<1>5. \A i \in DOMAIN toGui' : (i \in DOMAIN toGui /\ toGui'[i] = toGui[i] /\ i < n) \/ i = n BY <1>2
<1> HIDE DEF n
<1> QED BY <1>e, <1>3, <1>4, <1>5 DEF GrownBy

\* A question for a host key follows the report.
LEMMA ReportAndKeyGrow ==
    ASSUME TypeOK, NEW type \in ReportTypes, NEW k, k.type = "hostKey",
           toGui' = Append(Report(type), k), wactive' = wactive
    PROVE  /\ GrownBy(type)
           /\ \E i \in DOMAIN toGui' : toGui'[i].type = "hostKey"
<1> DEFINE e == [type |-> type, gen |-> wactive]
           q == Append(toGui, e)
<1>e. e.type = type /\ e.gen = wactive OBVIOUS
<1>1. q = Report(type) BY DEF Report
<1>2. q \in Seq(GuiEvents) BY <1>1, ReportType DEF ReportTypes
<1> HIDE DEF e
<1>3. /\ Len(toGui) \in Nat /\ DOMAIN toGui = 1 .. Len(toGui)
      /\ DOMAIN q = 1 .. Len(toGui) + 1
      /\ \A i \in 1 .. Len(toGui) : q[i] = toGui[i]
      /\ q[Len(toGui) + 1] = e BY Behind DEF TypeOK
<1>4. toGui' = Append(q, k) BY <1>1
<1> HIDE DEF q
<1>5. /\ Len(q) \in Nat /\ DOMAIN q = 1 .. Len(q) /\ DOMAIN toGui' = 1 .. Len(q) + 1
      /\ \A i \in 1 .. Len(q) : toGui'[i] = q[i]
      /\ toGui'[Len(q) + 1] = k BY <1>2, <1>4, Behind
<1> DEFINE n == Len(toGui) + 1
<1>6. n \in DOMAIN q /\ q[n] = e BY <1>3
<1>7. \A i \in DOMAIN toGui : i \in DOMAIN q /\ q[i] = toGui[i] BY <1>3
<1>8. \A i \in DOMAIN q : (i \in DOMAIN toGui /\ q[i] = toGui[i] /\ i < n) \/ i = n BY <1>3
<1>9. \A i \in DOMAIN q : i \in DOMAIN toGui' /\ toGui'[i] = q[i] BY <1>5
<1>10. \A i \in DOMAIN toGui' : (i \in DOMAIN q /\ toGui'[i] = q[i]) \/ toGui'[i] = k BY <1>5
<1>11. \E i \in DOMAIN toGui' : toGui'[i] = k BY <1>5
<1> HIDE DEF n
<1>12. n \in DOMAIN toGui' /\ toGui'[n] = e BY <1>6, <1>9
<1>13. \A i \in DOMAIN toGui : i \in DOMAIN toGui' /\ toGui'[i] = toGui[i] BY <1>7, <1>9
<1>14. \A i \in DOMAIN toGui' : \/ i \in DOMAIN toGui /\ toGui'[i] = toGui[i] /\ i < n
                               \/ i = n
                               \/ ~IsReport(toGui'[i]) BY <1>8, <1>10 DEF IsReport
<1> QED BY <1>e, <1>11, <1>12, <1>13, <1>14 DEF GrownBy

\* The worker keeps the invariant.
LEMMA PaneWorker ==
    ASSUME PaneInv, WorkerStep \/ TransportLost
    PROVE  PaneInv'
<1>i. IInv' BY InvWorker DEF PaneInv
<1>t. TypeOK /\ wstate \in Resting \cup Busy BY DEF PaneInv, IInv, TypeOK
<1>s. ASSUME NEW type \in ReportTypes, Says(type) PROVE PaneInv' BY <1>i, <1>s, KeepsSays
<1>q. ASSUME SaysNothing PROVE PaneInv' BY <1>i, <1>q, KeepsSilence
<1>f. ASSUME Fail, UNCHANGED <<gui, wactive>>, RequestsKept, wstate \notin {"idle", "rejected"}
      PROVE  PaneInv' BY <1>f, <1>t, <1>s, ReportGrows DEF Fail, MayBeTold, Earlier, Says, ReportTypes
<1>p. ASSUME toGui' = Report("progress"), UNCHANGED <<gui, wactive>>, RequestsKept,
             wstate \in {"tcp", "handshake", "waitKey"}, wstate' \in {"handshake", "auth"}
      PROVE  PaneInv' BY <1>t, <1>p, <1>s, ReportGrows DEF MayBeTold, Earlier, Says, Busy, ReportTypes
<1>1. CASE WorkerDisconnects
  <2>1. Take("disconnect") /\ UNCHANGED <<gui, wactive>> /\ RequestsKept
    BY <1>1 DEF WorkerDisconnects, RequestsKept
  <2>2. CASE wstate = "idle" BY <1>1, <2>1, <2>2, <1>q DEF WorkerDisconnects, SaysNothing
  <2>3. CASE wstate # "idle" BY <1>1, <2>3, <2>1, <1>f DEF WorkerDisconnects, Take, Resting
  <2> QED BY <2>2, <2>3
<1>2. CASE WorkerApproves
  <2>1. Take("approve") /\ UNCHANGED <<gui, wactive>> /\ RequestsKept BY <1>2 DEF WorkerApproves, RequestsKept
  <2>2. CASE wstate # "waitKey" BY <1>2, <2>1, <2>2, <1>q DEF WorkerApproves, SaysNothing
  <2>3. CASE wstate = "waitKey" /\ Head(toWorker).approved BY <1>2, <2>3, <1>p, <2>1 DEF WorkerApproves
  <2>4. CASE wstate = "waitKey" /\ ~Head(toWorker).approved BY <1>2, <2>4, <1>f, <2>1 DEF WorkerApproves
  <2> QED BY <2>2, <2>3, <2>4
<1>3. CASE StageFails BY <1>3, <1>f DEF StageFails, RequestsKept, Busy
<1>4. CASE TcpDone BY <1>4, <1>p DEF TcpDone, RequestsKept
<1>5. CASE HandshakeDone
  <2>1. UNCHANGED <<gui, wactive>> /\ RequestsKept /\ wstate = "handshake"
    BY <1>5 DEF HandshakeDone, RequestsKept
  <2> DEFINE k == [type |-> "hostKey", key |-> HostKey[wjob.host]]
  <2>k. k.type = "hostKey" OBVIOUS
  <2>2. CASE wstate' = "waitKey" /\ toGui' = Append(Report("progress"), k)
    <3> HIDE DEF k
    <3>1. GrownBy("progress") /\ \E i \in DOMAIN toGui' : toGui'[i].type = "hostKey"
      BY <1>t, <2>1, <2>2, <2>k, ReportAndKeyGrow DEF ReportTypes
    <3>2. MayBeTold \subseteq Earlier["progress"] /\ MayBeTold \cup {"progress"} \subseteq MayBeTold'
      BY <2>1, <2>2 DEF MayBeTold, Earlier
    <3>3. KeyAnswerable' BY <3>1 DEF KeyAnswerable
    <3>4. Says("progress") BY <2>1, <2>2, <3>1, <3>2, <3>3 DEF Says
    <3> QED BY <1>s, <3>4 DEF ReportTypes
  <2>3. CASE wstate' = "auth" /\ toGui' = Report("progress") BY <1>p, <2>1, <2>3
  <2>4. CASE Fail BY <1>f, <2>1, <2>4
  <2> QED BY <1>5, <2>2, <2>3, <2>4 DEF HandshakeDone
<1>6. CASE AuthDone
  <2>1. UNCHANGED <<gui, wactive>> /\ RequestsKept /\ wstate = "auth" BY <1>6 DEF AuthDone, RequestsKept
  <2>2. CASE wstate' = "shell" /\ toGui' = toGui BY <2>1, <2>2, <1>q DEF SaysNothing
  <2>3. CASE wstate' = "rejected" /\ toGui' = Report("down")
    BY <1>t, <2>1, <2>3, <1>s, ReportGrows DEF MayBeTold, Earlier, Says, ReportTypes
  <2> QED BY <1>6, <2>2, <2>3 DEF AuthDone
<1>7. CASE ReportRejected
  <2>1. UNCHANGED <<gui, wactive>> /\ RequestsKept /\ wstate = "rejected" /\ wstate' = "idle"
    BY <1>7 DEF ReportRejected, RequestsKept
  <2>2. CASE Canceled BY <1>7, <2>2, <2>1, <1>q DEF ReportRejected, Canceled, SaysNothing
  <2>3. CASE ~Canceled
    BY <1>7, <2>3, <1>t, <2>1, <1>s, ReportGrows DEF ReportRejected, MayBeTold, Earlier, Says, ReportTypes
  <2> QED BY <2>2, <2>3
<1>8. CASE ShellDone
  <2>1. UNCHANGED <<gui, wactive>> /\ RequestsKept /\ wstate = "shell" BY <1>8 DEF ShellDone, RequestsKept
  <2>2. CASE Canceled BY <1>8, <2>2, <2>1, <1>q DEF ShellDone, Canceled, SaysNothing
  <2>3. CASE ~Canceled BY <1>8, <2>3, <1>t, <2>1, <1>s, ReportGrows DEF ShellDone, MayBeTold, Earlier, Says, ReportTypes
  <2> QED BY <2>2, <2>3
<1>9. CASE TransportLost BY <1>9, <1>f DEF TransportLost, RequestsKept
<1>10. CASE WorkerConnects BY <1>i, <1>10, KeepsConnect
<1> QED BY <1>1, <1>2, <1>3, <1>4, <1>5, <1>6, <1>7, <1>8, <1>9, <1>10 DEF WorkerStep

\* Nothing is queued, shown or running at the start.
LEMMA PaneInit == Init => PaneInv
<1> SUFFICES ASSUME Init PROVE PaneInv OBVIOUS
<1>1. DOMAIN stack = {} /\ DOMAIN toWorker = {} /\ DOMAIN toGui = {} BY DEF Init
<1>2. ~connected /\ ~connecting /\ ~waiting /\ tgen = 0 /\ wgen = 1 /\ wactive = 1 /\ wstate = "idle" /\ demoTimers = {}
  BY DEF Init
<1>3. Generations /\ FlagsExclude BY <1>2 DEF Generations, FlagsExclude
<1>4. CallsComeFirst BY <1>1, <1>2 DEF CallsComeFirst, CallOpen, OpenFrame, NothingOf, Sent, Reported
<1>5. RequestsInOrder /\ ReportsInOrder BY <1>1 DEF RequestsInOrder, ReportsInOrder, Sent
<1>6. ReportsFit /\ ProgressIsBacked BY <1>1, <1>2 DEF ReportsFit, ProgressIsBacked, Told
<1>7. ConnectedIsBacked /\ ConnectingIsBacked BY <1>2 DEF ConnectedIsBacked, ConnectingIsBacked
<1> QED BY <1>3, <1>4, <1>5, <1>6, <1>7, InvInit DEF PaneInv

\* Every step keeps it.
LEMMA PaneStep == PaneInv /\ [Next]_vars => PaneInv'
<1> SUFFICES ASSUME PaneInv, [Next]_vars PROVE PaneInv' OBVIOUS
<1>1. CASE UNCHANGED vars BY <1>1, InvStep, KeepsUnmoved DEF PaneInv, vars
<1> QED BY <1>1, PaneUser, PaneGui, PaneWorker DEF Next

\* A pane that asks for a password, and is not overwritten, has nothing running
\* and nothing on its way.
LEMMA PromptExcludes == PaneInv => overwritten \/ PromptIsExclusive
<1> SUFFICES ASSUME PaneInv, waiting, ~overwritten PROVE PromptIsExclusive BY DEF PromptIsExclusive
<1>1. ~connected /\ ~connecting /\ ~loading BY DEF PaneInv, FlagsExclude
<1>2. ~Told("up", tgen)
  <2> SUFFICES ASSUME NEW i \in DOMAIN toGui, toGui[i].type = "up", toGui[i].gen = tgen PROVE FALSE BY DEF Told
  <2>1. "up" \in MayBeHeard BY DEF PaneInv, ReportsFit, OfWanted, IsReport
  <2> QED BY <1>1, <2>1 DEF MayBeHeard
<1>3. wactive = tgen => wstate \in {"idle", "rejected"} BY <1>1 DEF PaneInv, ReportsFit
<1> QED BY <1>1, <1>2, <1>3 DEF PromptIsExclusive

\* However calls nest, attempts replace each other and reports come late, a pane
\* is connected to a live transport or about to hear of its end, connecting with
\* something on its way that ends it, and asks for a password only when nothing
\* of the session is running, unless a call of an earlier attempt overwrote it.
THEOREM PaneCorrect == Spec => []PaneIsBacked
<1>1. PaneInv => PaneIsBacked BY PromptExcludes DEF PaneInv, IInv, PaneIsBacked
<1> QED BY <1>1, PaneInit, PaneStep, PTL DEF Spec

----
(* ImplementsSessionView.  The invariant tells which reports the pane can    *)
(* hear, so a late one never moves an attempt backwards.                     *)

\* It stays if they do.
LEMMA ViewStays == UNCHANGED <<connected, connecting, waiting, overwritten, tgen>> => view' = view
BY DEF view

\* A session starts with no attempt and an empty pane.
LEMMA ViewInit == Init => Lifecycle!Init
BY DEF Init, view, Lifecycle!Init

\* Whatever opens an attempt moves the pane as a new attempt may.
LEMMA ViewNewAttempt ==
    ASSUME NEW kept, EndAttempt(kept)
    PROVE  Lifecycle!NewAttempt
BY DEF EndAttempt, view, Lifecycle!NewAttempt

\* A report the pane believes moves the attempt forward or changes nothing.
LEMMA ViewHeard ==
    ASSUME PaneInv, NEW type \in ReportTypes, Deliver(type), Heard(type), UNCHANGED <<attempt, tgen, overwritten>>
    PROVE  [Lifecycle!Next]_(Lifecycle!vars)
<1> SUFFICES Lifecycle!Advance \/ view' = view BY DEF Lifecycle!Next, Lifecycle!vars
<1>o. CASE overwritten BY <1>o DEF view
<1>1. CASE ~Current BY <1>1, ViewStays DEF Heard
<1>2. CASE Current /\ ~overwritten
  <2>1. type \in MayBeHeard /\ tgen # 0 BY <1>2, CurrentReport
  <2>2. ~(connected /\ connecting) /\ (connected \/ connecting => ~waiting) BY <1>2 DEF PaneInv, FlagsExclude
  <2>3. CASE type = "progress" BY <2>1, <2>2, <2>3, <1>2 DEF MayBeHeard, Heard, view
  <2>4. CASE type = "up" BY <2>1, <2>2, <2>4, <1>2 DEF MayBeHeard, Heard, view, Lifecycle!Advance
  <2>5. CASE type = "down" BY <2>1, <2>2, <2>5, <1>2 DEF MayBeHeard, Heard, view, Lifecycle!Advance
  <2>6. CASE type = "rejected"
    <3>1. /\ UNCHANGED <<connected, connecting, tgen>>
          /\ UNCHANGED waiting \/ (waiting' /\ ~connected /\ ~connecting) BY <1>2, <2>6 DEF Heard
    <3>2. CASE UNCHANGED waiting BY <3>1, <3>2, ViewStays
    <3>3. CASE waiting' /\ ~connected /\ ~connecting BY <2>1, <3>1, <3>3 DEF view, Lifecycle!Advance
    <3> QED BY <3>1, <3>2, <3>3
  <2> QED BY <2>3, <2>4, <2>5, <2>6 DEF ReportTypes
<1> QED BY <1>o, <1>1, <1>2

\* Every step of session and worker is one of the view, or none.
LEMMA ViewStep ==
    ASSUME PaneInv, [Next]_vars
    PROVE  [Lifecycle!Next]_(Lifecycle!vars)
<1>a. ASSUME NEW kept, EndAttempt(kept) PROVE [Lifecycle!Next]_(Lifecycle!vars)
  BY <1>a, ViewNewAttempt DEF Lifecycle!Next
<1>s. ASSUME UNCHANGED <<connected, connecting, waiting, overwritten, tgen, attempt>> PROVE [Lifecycle!Next]_(Lifecycle!vars)
  BY <1>s, ViewStays DEF Lifecycle!vars
<1>1. CASE UserStep \/ IdleTimeout
  <2>1. CASE DisconnectFromHost BY <1>a, <2>1 DEF DisconnectFromHost
  <2>2. CASE \E h \in Hosts : EditProfile(h) BY <1>s, <2>2 DEF EditProfile, flags
  <2>3. CASE \/ \E s \in Secrets \cup {NoSecret} : ConnectTo(s)
             \/ ConnectToDemo
             \/ \E s \in Secrets, keep \in BOOLEAN : ConnectWithPassword(s, keep)
    BY <2>3, <1>a DEF ConnectTo, ConnectToDemo, ConnectWithPassword, BeginAttempt
  <2> QED BY <1>1, <2>1, <2>2, <2>3 DEF UserStep, UserDisconnects, IdleTimeout
<1>w. CASE overwritten' /\ UNCHANGED attempt BY <1>w DEF view, Lifecycle!Next, Lifecycle!Overwrite
<1>2. CASE (ProxyReturns \/ LoadReturns) /\ ~overwritten'
  <2>1. UNCHANGED <<attempt, tgen, connected>> /\ stack # <<>> /\ Top.kind \in {"proxy", "load"}
    BY <1>2 DEF ProxyReturns, LoadReturns, flags
  <2>0. overwritten' = overwritten BY <1>2 DEF ProxyReturns, LoadReturns, PaneInv, IInv, TypeOK
  <2>2. CASE UNCHANGED <<connecting, waiting>> BY <1>s, <2>0, <2>1, <2>2
  <2>3. CASE Top.request.attempt = attempt /\ ~connecting' /\ (waiting' \/ waiting' = waiting)
    <3>2. Len(stack) \in DOMAIN stack /\ Top = stack[Len(stack)]
      BY <2>1, TopAndPop, LenProperties DEF PaneInv, IInv, TypeOK, Top
    <3>3. CallOpen BY <2>1, <2>3, <3>2 DEF CallOpen, OpenFrame
    <3>4. connecting /\ ~connected BY <1>2, <2>0, <3>3 DEF PaneInv, CallsComeFirst
    <3>5. tgen # 0 BY <3>4 DEF PaneInv, Generations
    <3>6. view = "connecting" /\ view' \in {"prompt", "failed"} BY <1>2, <2>0, <2>1, <2>3, <3>4, <3>5 DEF view
    <3> QED BY <2>1, <3>6 DEF Lifecycle!Next, Lifecycle!Advance
  <2>4. CASE ProxyReturns /\ Top.request.attempt # attempt
    BY <1>2, <1>s, <2>0, <2>1, <2>4 DEF ProxyReturns, flags
  <2> QED BY <1>2, <2>2, <2>3, <2>4 DEF ProxyReturns, LoadReturns, flags
<1>3. ASSUME NEW a \in demoTimers, DemoTimerFires(a) PROVE [Lifecycle!Next]_(Lifecycle!vars)
  <2>1. UNCHANGED <<attempt, tgen, waiting, overwritten>> BY <1>3 DEF DemoTimerFires
  <2>o. CASE overwritten BY <1>w, <2>1, <2>o
  <2>2. CASE demo /\ a = attempt /\ ~overwritten
    BY <1>3, <2>2, <2>1 DEF DemoTimerFires, PaneInv, FlagsExclude, view, Lifecycle!Next, Lifecycle!Advance
  <2>3. CASE ~(demo /\ a = attempt) BY <1>3, <2>3, <1>s, <2>1 DEF DemoTimerFires
  <2> QED BY <2>o, <2>2, <2>3
<1>4. CASE AnnounceReturns \/ HandleHostKey \/ AnswerStep
  BY <1>s, <1>4 DEF AnnounceReturns, HandleHostKey, AnswerStep, AnswerHostKey, flags
<1>5. CASE HandleConnected BY <1>5, ViewHeard DEF HandleConnected, Heard, ReportTypes
<1>6. CASE HandleProgress BY <1>6, ViewHeard DEF HandleProgress, Heard, ReportTypes
<1>7. CASE HandleFailed BY <1>7, ViewHeard DEF HandleFailed, Heard, ReportTypes
<1>8. CASE HandlePasswordRejected BY <1>8, ViewHeard DEF HandlePasswordRejected, Heard, ReportTypes
<1>9. CASE WorkerStep \/ TransportLost
  <2>1. UNCHANGED gui
    BY <1>9 DEF WorkerStep, WorkerConnects, WorkerDisconnects, WorkerApproves, StageFails, TcpDone, HandshakeDone,
       AuthDone, ReportRejected, ShellDone, TransportLost
  <2> QED BY <1>s, <2>1 DEF gui, flags
<1>10. CASE UNCHANGED vars BY <1>s, <1>10 DEF vars, flags
<1>u. ProxyReturns \/ LoadReturns => UNCHANGED attempt BY DEF ProxyReturns, LoadReturns
<1> QED BY <1>w, <1>u, <1>1, <1>2, <1>3, <1>4, <1>5, <1>6, <1>7, <1>8, <1>9, <1>10 DEF Next, GuiStep

\* What the user sees is one attempt after the other, each only moving forward:
\* the session, its queues and its worker implement the view of a session.
THEOREM ViewImplemented == Spec => ImplementsSessionView
<1>1. PaneInv /\ [Next]_vars => [Lifecycle!Next]_(Lifecycle!vars) BY ViewStep
<1> QED BY <1>1, ViewInit, PaneInit, PaneStep, PTL DEF Spec, ImplementsSessionView, Lifecycle!Spec

----
(* RemembersAcceptedSecret.  The password to remember is the one the attempt *)
(* carries, from its open call through its request to the worker, to the     *)
(* address of the profile; a call that waits for a proxy's password first    *)
(* brings both along.                                                        *)

CarriesRemembered(r) == r.host = profile.host /\ r.secret = remember

SecretIsCarried ==
    remember # NoSecret /\ ~overwritten =>
        /\ \A i \in DOMAIN stack : stack[i].kind # "dialog" /\ stack[i].request.attempt = attempt =>
               stack[i].kind = "announce" /\ CarriesRemembered(stack[i].request)
        /\ \A i \in DOMAIN toWorker : toWorker[i].op = "connect" /\ toWorker[i].gen = tgen =>
               CarriesRemembered(toWorker[i].request)
        /\ wactive = tgen /\ wstate # "idle" => CarriesRemembered(wjob)
        /\ Told("up", tgen) => remember = HostSecret[profile.host]

ProxyCarries ==
    \A i \in DOMAIN stack :
        stack[i].kind = "proxy" /\ stack[i].request.attempt = attempt /\ stack[i].kept # NoSecret =>
            stack[i].request.host = profile.host /\ stack[i].request.secret = stack[i].kept

\* A transport that passed the authentication was accepted by its host.
JobAccepted == wstate \in {"shell", "connected"} => wjob.secret = HostSecret[wjob.host]

SecretInv == PaneInv /\ SecretIsCarried /\ ProxyCarries /\ JobAccepted

\* What was reported after the worker's queue grew by a report.
LEMMA ToldAfter ==
    ASSUME NEW type \in ReportTypes, GrownBy(type), NEW t \in ReportTypes, NEW g, Told(t, g)'
    PROVE  Told(t, g) \/ (t = type /\ g = wactive')
<1>1. PICK n \in DOMAIN toGui' :
        /\ toGui'[n].type = type /\ toGui'[n].gen = wactive'
        /\ \A i \in DOMAIN toGui : i \in DOMAIN toGui' /\ toGui'[i] = toGui[i]
        /\ \A i \in DOMAIN toGui' : \/ i \in DOMAIN toGui /\ toGui'[i] = toGui[i] /\ i < n
                                    \/ i = n
                                    \/ ~IsReport(toGui'[i]) BY DEF GrownBy
<1>2. PICK i \in DOMAIN toGui' : toGui'[i].type = t /\ toGui'[i].gen = g BY DEF Told
<1>3. IsReport(toGui'[i]) BY <1>2 DEF IsReport, ReportTypes
<1> QED BY <1>1, <1>2, <1>3 DEF Told

\* What a step of the worker that starts no request may change of its job.
WorkerMoves ==
    /\ UNCHANGED <<gui, wactive, wjob>> /\ RequestsKept
    /\ wstate = "idle" => wstate' = "idle"
    /\ wstate' \in {"shell", "connected"} =>
           wstate \in {"shell", "connected"} \/ wjob.secret = HostSecret[wjob.host]
    /\ \A g : Told("up", g)' => Told("up", g) \/ (wstate = "shell" /\ g = wactive)

\* That is what every other step of the worker does.
LEMMA OtherWorkerStep ==
    ASSUME TypeOK, WorkerStep \/ TransportLost
    PROVE  WorkerConnects \/ WorkerMoves
<1>0. UNCHANGED toGui => \A g : Told("up", g)' => Told("up", g) BY DEF Told
<1>r. ASSUME NEW type \in ReportTypes, wactive' = wactive, GrownBy(type), type # "up"
      PROVE  \A g : Told("up", g)' => Told("up", g) BY <1>r, ToldAfter DEF ReportTypes
<1>f. Fail /\ wactive' = wactive => wstate' = "idle" /\ \A g : Told("up", g)' => Told("up", g)
  BY <1>r, ReportGrows DEF Fail, ReportTypes
<1>p. toGui' = Report("progress") /\ wactive' = wactive => \A g : Told("up", g)' => Told("up", g)
  BY <1>r, ReportGrows DEF ReportTypes
<1>1. CASE WorkerDisconnects BY <1>0, <1>1, <1>f DEF WorkerDisconnects, WorkerMoves, RequestsKept
<1>2. CASE WorkerApproves BY <1>2, <1>0, <1>f, <1>p DEF WorkerApproves, RequestsKept, WorkerMoves
<1>3. CASE StageFails BY <1>3, <1>f DEF StageFails, WorkerMoves, RequestsKept
<1>4. CASE TcpDone BY <1>4, <1>p DEF TcpDone, WorkerMoves, RequestsKept
<1>5. CASE HandshakeDone
  <2>1. UNCHANGED <<gui, wactive, wjob>> /\ RequestsKept /\ wstate = "handshake"
    BY <1>5 DEF HandshakeDone, RequestsKept
  <2> DEFINE k == [type |-> "hostKey", key |-> HostKey[wjob.host]]
  <2>k. k.type = "hostKey" OBVIOUS
  <2>2. \/ wstate' = "waitKey" /\ toGui' = Append(Report("progress"), k)
        \/ wstate' = "auth" /\ toGui' = Report("progress")
        \/ Fail BY <1>5 DEF HandshakeDone
  <2> HIDE DEF k
  <2>3. CASE wstate' = "waitKey" /\ toGui' = Append(Report("progress"), k)
    BY <2>1, <2>3, <2>k, <1>r, ReportAndKeyGrow DEF ReportTypes, WorkerMoves
  <2> QED BY <2>1, <2>2, <2>3, <1>f, <1>p DEF WorkerMoves
<1>6. CASE AuthDone
  <2>1. UNCHANGED <<gui, wactive, wjob>> /\ RequestsKept /\ wstate = "auth" BY <1>6 DEF AuthDone, RequestsKept
  <2>2. CASE wjob.secret = HostSecret[wjob.host] /\ wstate' = "shell" /\ toGui' = toGui
    BY <1>0, <2>1, <2>2 DEF WorkerMoves
  <2>3. CASE wstate' = "rejected" /\ toGui' = Report("down")
    BY <2>1, <2>3, <1>r, ReportGrows DEF ReportTypes, WorkerMoves
  <2> QED BY <1>6, <2>2, <2>3 DEF AuthDone
<1>7. CASE ReportRejected
  <2>1. UNCHANGED <<gui, wactive, wjob>> /\ RequestsKept /\ wstate = "rejected" /\ wstate' = "idle"
    BY <1>7 DEF ReportRejected, RequestsKept
  <2>2. toGui' = toGui \/ toGui' = Report("rejected") BY <1>7 DEF ReportRejected
  <2>3. CASE toGui' = Report("rejected") BY <2>1, <2>3, <1>r, ReportGrows DEF ReportTypes, WorkerMoves
  <2> QED BY <1>0, <2>1, <2>2, <2>3 DEF WorkerMoves
<1>8. CASE ShellDone
  <2>1. UNCHANGED <<gui, wactive, wjob>> /\ RequestsKept /\ wstate = "shell" BY <1>8 DEF ShellDone, RequestsKept
  <2>2. toGui' = toGui \/ toGui' = Report("up") BY <1>8 DEF ShellDone
  <2>3. CASE toGui' = Report("up") BY <2>1, <2>3, ReportGrows, ToldAfter DEF ReportTypes, WorkerMoves
  <2> QED BY <1>0, <2>1, <2>2, <2>3 DEF WorkerMoves
<1>9. CASE TransportLost BY <1>9, <1>f DEF TransportLost, WorkerMoves, RequestsKept
<1> QED BY <1>1, <1>2, <1>3, <1>4, <1>5, <1>6, <1>7, <1>8, <1>9 DEF WorkerStep

\* Nothing is to be remembered, or nothing that the password depends on changed.
LEMMA KeepsCarried ==
    ASSUME SecretIsCarried,
           \/ remember' = NoSecret \/ overwritten'
           \/ /\ UNCHANGED <<overwritten, remember, profile, attempt, tgen, wactive, wjob>>
              /\ wstate = "idle" => wstate' = "idle"
              /\ \A i \in DOMAIN stack' : stack'[i].kind # "dialog" /\ stack'[i].request.attempt = attempt =>
                     \E k \in DOMAIN stack : stack[k] = stack'[i]
              /\ \A i \in DOMAIN toWorker' : toWorker'[i].op = "connect" =>
                     \E k \in DOMAIN toWorker : toWorker[k] = toWorker'[i]
              /\ Told("up", tgen)' => Told("up", tgen)
    PROVE  SecretIsCarried'
BY DEF SecretIsCarried, CarriesRemembered

\* What waits for a proxy's password carries what is to be remembered with it:
\* a new attempt has no earlier calls, and no other step opens one.
LEMMA ProxyStep ==
    ASSUME SecretInv, [Next]_vars
    PROVE  ProxyCarries'
<1>p. PaneInv /\ TypeOK /\ stack \in Seq(Frames) BY DEF SecretInv, PaneInv, IInv, TypeOK
<1>1. ASSUME attempt' = attempt, (profile').host = profile.host,
             \A i \in DOMAIN stack' : stack'[i].kind = "proxy" => \E k \in DOMAIN stack : stack[k] = stack'[i]
      PROVE  ProxyCarries' BY <1>1 DEF SecretInv, ProxyCarries
<1>2. ASSUME NEW kept, EndAttempt(kept), UNCHANGED worker,
             stack' = stack \/ \E f : /\ stack' = Append(stack, f)
                                      /\ f.kind = "proxy" /\ f.kept # NoSecret =>
                                             f.request.host = (profile').host /\ f.request.secret = f.kept
      PROVE  ProxyCarries'
  <2>1. \A i \in DOMAIN stack : stack[i].kind # "dialog" => stack[i].request.attempt # attempt'
    <3>1. attempt' \in Nat BY <1>p, <1>2, BoundAssumption DEF EndAttempt, TypeOK
    <3> QED BY <1>p, <1>2, <3>1, AttemptOver, StackElement DEF PaneInv
  <2>2. CASE stack' = stack BY <2>1, <2>2 DEF ProxyCarries
  <2>3. ASSUME NEW f, stack' = Append(stack, f),
               f.kind = "proxy" /\ f.kept # NoSecret => f.request.host = (profile').host /\ f.request.secret = f.kept
        PROVE  ProxyCarries'
    <3>1. \A i \in DOMAIN stack' : (i \in DOMAIN stack /\ stack'[i] = stack[i]) \/ stack'[i] = f
      BY <1>p, <2>3, Behind
    <3> QED BY <2>1, <2>3, <3>1 DEF ProxyCarries
  <2> QED BY <1>2, <2>2, <2>3
<1>o. ASSUME NEW p, NEW secret, NEW kept, (profile').host = p.host, kept \in {NoSecret, secret},
             OpenBehindProxy(p, secret, kept) \/ \E kind \in {"load", "announce"} : Open(kind, p, secret)
      PROVE  \E f : /\ stack' = Append(stack, f)
                    /\ f.kind = "proxy" /\ f.kept # NoSecret =>
                           f.request.host = (profile').host /\ f.request.secret = f.kept
  <2>1. CASE OpenBehindProxy(p, secret, kept)
    <3> DEFINE f == [kind |-> "proxy", ref |-> p.ref, kept |-> kept,
                     request |-> [attempt |-> attempt', host |-> p.host, expected |-> NoKey, secret |-> secret]]
    <3>1. stack' = Append(stack, f) BY <2>1 DEF OpenBehindProxy
    <3>2. f.kept = kept /\ f.request.host = p.host /\ f.request.secret = secret OBVIOUS
    <3> HIDE DEF f
    <3> QED BY <1>o, <3>1, <3>2
  <2>2. CASE \E kind \in {"load", "announce"} : Open(kind, p, secret) BY <2>2, OpensOfBegun DEF Open
  <2> QED BY <1>o, <2>1, <2>2
<1>3. CASE DisconnectFromHost BY <1>2, <1>3 DEF DisconnectFromHost
<1>4. ASSUME NEW s \in Secrets \cup {NoSecret}, ConnectTo(s) PROVE ProxyCarries'
  <2>1. EndAttempt(NoSecret) /\ UNCHANGED worker /\ profile' = row BY <1>4 DEF ConnectTo, BeginAttempt
  <2>2. \/ stack' = stack \/ Open("load", row, NoSecret) \/ Open("announce", row, s)
        \/ OpenBehindProxy(row, s, NoSecret) BY <1>4 DEF ConnectTo
  <2> QED BY <1>2, <1>o, <2>1, <2>2
<1>5. CASE ConnectToDemo BY <1>2, <1>5 DEF ConnectToDemo, BeginAttempt
<1>6. ASSUME NEW s \in Secrets, NEW keep \in BOOLEAN, ConnectWithPassword(s, keep) PROVE ProxyCarries'
  <2> DEFINE kept == IF keep THEN s ELSE NoSecret
  <2>1. /\ \E k : EndAttempt(k) 
        /\ UNCHANGED worker /\ profile' = profile
        /\ OpenBehindProxy(profile, s, kept) \/ Open("announce", profile, s)
    BY <1>6 DEF ConnectWithPassword, BeginAttempt
  <2>2. kept \in {NoSecret, s} OBVIOUS
  <2> HIDE DEF kept
  <2> QED BY <1>2, <1>o, <2>1, <2>2
<1>7. CASE ProxyReturns \/ LoadReturns \/ AnnounceReturns \/ AnswerStep
  <2>1. /\ stack # <<>> /\ attempt' = attempt /\ profile' = profile
        /\ stack' = Pop \/ \E f : f.kind # "proxy" /\ stack' = Append(Pop, f)
    BY <1>7 DEF ProxyReturns, LoadReturns, AnnounceReturns, AnswerStep, AnswerHostKey
  <2>2. Pop \in Seq(Frames) /\ DOMAIN Pop \subseteq DOMAIN stack /\ \A i \in DOMAIN Pop : Pop[i] = stack[i]
    BY <1>p, <2>1, PoppedCalls, TopAndPop DEF PaneInv
  <2>3. ASSUME NEW f, f.kind # "proxy", stack' = Append(Pop, f) PROVE ProxyCarries'
    <3>1. \A i \in DOMAIN stack' : (i \in DOMAIN Pop /\ stack'[i] = Pop[i]) \/ stack'[i] = f
      BY <2>2, <2>3, Behind
    <3> QED BY <1>1, <2>1, <2>2, <2>3, <3>1
  <2> QED BY <1>1, <2>1, <2>2, <2>3
<1>8. CASE HandleHostKey
  <2> DEFINE f == [kind |-> "dialog"]
  <2>1. stack' = Append(stack, f) /\ attempt' = attempt /\ profile' = profile BY <1>8 DEF HandleHostKey
  <2>2. f.kind # "proxy" OBVIOUS
  <2> HIDE DEF f
  <2>3. \A i \in DOMAIN stack' : (i \in DOMAIN stack /\ stack'[i] = stack[i]) \/ stack'[i] = f
    BY <1>p, <2>1, Behind
  <2> QED BY <1>1, <2>1, <2>2, <2>3
<1>9. CASE HandleConnected
  BY <1>1, <1>9, <1>p DEF HandleConnected, RememberSuccessfulCredential, TypeOK, Profiles
<1>10. ASSUME UNCHANGED <<stack, attempt, profile>> PROVE ProxyCarries' BY <1>1, <1>10
<1>11. CASE GuiStep BY <1>7, <1>8, <1>9, <1>10, <1>11
  DEF GuiStep, DemoTimerFires, HandleProgress, HandleFailed, HandlePasswordRejected
<1>12. CASE UserStep \/ IdleTimeout
  BY <1>3, <1>4, <1>5, <1>6, <1>10, <1>12 DEF UserStep, UserDisconnects, IdleTimeout, EditProfile
<1>13. CASE WorkerStep \/ TransportLost
  BY <1>10, <1>13 DEF WorkerStep, WorkerConnects, WorkerDisconnects, WorkerApproves, StageFails, TcpDone, HandshakeDone,
     AuthDone, ReportRejected, ShellDone, TransportLost, gui
<1> QED BY <1>7, <1>10, <1>11, <1>12, <1>13 DEF Next, vars

\* Every step keeps the password with its attempt.
LEMMA SecretStep == SecretInv /\ [Next]_vars => SecretInv'
<1> SUFFICES ASSUME SecretInv, [Next]_vars PROVE SecretInv' OBVIOUS
<1>p. PaneInv /\ PaneInv' /\ ProxyCarries' BY PaneStep, ProxyStep DEF SecretInv
<1>k. SecretIsCarried /\ JobAccepted BY DEF SecretInv
<1>j. UNCHANGED worker => JobAccepted' BY <1>k DEF JobAccepted, worker
<1>0. (UNCHANGED toGui => (Told("up", tgen)' => Told("up", tgen)) \/ tgen' # tgen) BY DEF Told
<1>e. ASSUME EndAttempt(NoSecret), UNCHANGED worker PROVE SecretInv'
  BY <1>e, <1>p, <1>k, <1>j, KeepsCarried DEF EndAttempt, SecretInv
<1>1. CASE UserStep \/ IdleTimeout
  <2>1. CASE DisconnectFromHost BY <1>e, <2>1 DEF DisconnectFromHost
  <2>2. ASSUME NEW s \in Secrets \cup {NoSecret}, ConnectTo(s) PROVE SecretInv'
    BY <1>e, <2>2 DEF ConnectTo, BeginAttempt
  <2>4. CASE ConnectToDemo BY <1>e, <2>4 DEF ConnectToDemo, BeginAttempt
  <2>5. ASSUME NEW s \in Secrets, NEW keep \in BOOLEAN, ConnectWithPassword(s, keep) PROVE SecretInv'
    <3>p. CASE BeginAttempt(profile, FALSE, NoSecret) BY <1>e, <3>p DEF BeginAttempt
    <3>o. CASE BeginAttempt(profile, FALSE, IF keep THEN s ELSE NoSecret) /\ Open("announce", profile, s)
      <4> DEFINE kept == IF keep THEN s ELSE NoSecret
                 r == [attempt |-> attempt', host |-> profile.host, expected |-> knownHosts[profile.host], secret |-> s]
                 f == [kind |-> "announce", request |-> r]
      <4>1. /\ EndAttempt(kept) /\ tgen' = wgen' /\ profile' = profile /\ UNCHANGED <<worker, toGui>>
            /\ stack' = Append(stack, f) BY <3>o DEF BeginAttempt, Open
      <4>2. f.kind = "announce" /\ f.request.host = profile.host /\ f.request.secret = s OBVIOUS
      <4>3. remember' = kept BY <4>1 DEF EndAttempt
      <4>4. CASE keep
        <5>1. remember' = s BY <4>3, <4>4
        <5> HIDE DEF f, kept
        <5>2. /\ NothingOf(wgen)' /\ ~Sent(tgen)' /\ ~Reported(tgen)'
              /\ attempt' = attempt + 1 /\ attempt \in Nat BY <1>p, <4>1, FreshGeneration
        <5>3. \A i \in DOMAIN stack : stack[i].kind # "dialog" => stack[i].request.attempt # attempt'
          BY <1>p, <4>1, <5>2, AttemptOver, StackElement DEF PaneInv, IInv
        <5>4. \A i \in DOMAIN stack' : (i \in DOMAIN stack /\ stack'[i] = stack[i]) \/ stack'[i] = f
          BY <1>p, <4>1, Behind DEF PaneInv, IInv, TypeOK
        <5>5. \A i \in DOMAIN stack' : stack'[i].kind # "dialog" /\ stack'[i].request.attempt = attempt' =>
                 /\ stack'[i].kind = "announce"
                 /\ stack'[i].request.host = (profile').host /\ stack'[i].request.secret = remember'
          BY <4>1, <4>2, <5>1, <5>3, <5>4
        <5>6. ~Told("up", tgen)' BY <5>2 DEF Told, Reported, IsReport
        <5>7. wactive' = tgen' => wstate' = "idle" BY <4>1, <5>2 DEF NothingOf
        <5>8. SecretIsCarried' BY <5>2, <5>5, <5>6, <5>7 DEF SecretIsCarried, Sent, CarriesRemembered
        <5> QED BY <1>p, <1>j, <4>1, <5>8 DEF SecretInv
      <4>5. CASE ~keep BY <4>3, <4>5, <1>p, <1>k, <1>j, <4>1, KeepsCarried DEF SecretInv
      <4> QED BY <4>4, <4>5
    <3> QED BY <2>5, <3>p, <3>o DEF ConnectWithPassword
  <2>6. ASSUME NEW h \in Hosts, EditProfile(h) PROVE SecretInv'
    BY <2>6, <1>0, <1>k, <1>p, <1>j, KeepsCarried DEF EditProfile, worker, SecretInv
  <2> QED BY <1>1, <2>1, <2>2, <2>4, <2>5, <2>6 DEF UserStep, UserDisconnects, IdleTimeout
<1>r. CASE ProxyReturns
  <2> DEFINE r == [Top.request EXCEPT !.expected = knownHosts[Top.request.host]]
  <2>1. /\ stack # <<>> /\ Top.kind = "proxy" /\ Top \in Frames /\ Pop \in Seq(Frames)
        /\ UNCHANGED <<profile, attempt, tgen, worker, toWorker, toGui>>
    BY <1>r, <1>p, TopAndPop DEF ProxyReturns, PaneInv, IInv
  <2>2. /\ DOMAIN Pop \subseteq DOMAIN stack /\ \A i \in DOMAIN Pop : Pop[i] = stack[i]
    BY <1>p, <2>1, PoppedCalls DEF PaneInv
  <2>3. Len(stack) \in DOMAIN stack /\ Top = stack[Len(stack)] /\ Len(stack) \notin DOMAIN Pop
    BY <1>p, <2>1, TopAndPop, LenProperties DEF PaneInv, IInv, TypeOK, Top
  <2>4. r.attempt = Top.request.attempt /\ r.host = Top.request.host /\ r.secret = Top.request.secret
    BY <2>1 DEF Frames, Requests
  <2>5. SecretIsCarried'
    <3>1. CASE overwritten' \/ remember' = NoSecret BY <1>k, <3>1, KeepsCarried
    <3>2. CASE Top.request.attempt # attempt /\ ~overwritten'
      <4>1. remember' = remember /\ overwritten' = overwritten
            /\ (stack' = Pop \/ stack' = Append(Pop, [kind |-> "announce", request |-> r]))
        BY <1>r, <3>2, <2>4, <1>p DEF ProxyReturns, flags, PaneInv, IInv, TypeOK
      <4> DEFINE f == [kind |-> "announce", request |-> r]
      <4>2. f.request = r OBVIOUS
      <4> HIDE DEF f, r
      <4>3. \A i \in DOMAIN stack' : (i \in DOMAIN Pop /\ stack'[i] = Pop[i]) \/ stack'[i] = f
        BY <2>1, <4>1, Behind DEF f
      <4> QED BY <1>0, <1>k, <2>1, <2>2, <2>4, <3>2, <4>1, <4>2, <4>3, KeepsCarried DEF worker
    <3>3. CASE Top.request.attempt = attempt /\ ~overwritten' /\ remember' # NoSecret
      <4>0. overwritten' = overwritten BY <1>p, <1>r, <3>3 DEF ProxyReturns, PaneInv, IInv, TypeOK
      <4>1. remember = NoSecret BY <1>k, <2>1, <2>3, <3>3, <4>0 DEF SecretIsCarried
      <4>2. /\ remember' = Top.kept /\ Top.kept # NoSecret
            /\ stack' = Append(Pop, [kind |-> "announce", request |-> r]) BY <1>r, <3>3, <4>1 DEF ProxyReturns
      <4>3. r.host = profile.host /\ r.secret = remember'
        BY <2>1, <2>3, <2>4, <3>3, <4>2 DEF SecretInv, ProxyCarries
      <4>4. NothingOf(tgen)
        <5>1. CallOpen BY <2>1, <2>3, <3>3 DEF CallOpen, OpenFrame
        <5>2. tgen = wgen BY <1>p, <2>1, <2>3, <3>3 DEF PaneInv, IInv, CallsAreOfAttempts
        <5> QED BY <1>p, <5>1, <5>2 DEF PaneInv, CallsComeFirst
      <4> DEFINE f == [kind |-> "announce", request |-> r]
      <4>5. f.kind = "announce" /\ f.request = r OBVIOUS
      <4> HIDE DEF f, r
      <4>6. \A i \in DOMAIN stack' : (i \in DOMAIN Pop /\ stack'[i] = Pop[i]) \/ stack'[i] = f
        BY <2>1, <4>2, Behind DEF f
      <4>7. \A i \in DOMAIN Pop : Pop[i].kind # "dialog" => Pop[i].request.attempt # attempt
        BY <1>p, <2>1, <2>2, <2>3, <3>3 DEF PaneInv, CallsComeFirst
      <4> QED BY <2>1, <4>3, <4>4, <4>5, <4>6, <4>7
              DEF SecretIsCarried, CarriesRemembered, NothingOf, Sent, Reported, Told, IsReport, worker
    <3> QED BY <3>1, <3>2, <3>3
  <2> QED BY <1>p, <1>j, <2>1, <2>5 DEF SecretInv
<1>2. CASE LoadReturns
  <2>1. /\ stack # <<>> /\ Top.kind = "load"
        /\ UNCHANGED <<overwritten, remember, profile, attempt, tgen, worker, toWorker, toGui>>
    BY <1>2 DEF LoadReturns
  <2>2. /\ DOMAIN Pop \subseteq DOMAIN stack /\ \A i \in DOMAIN Pop : Pop[i] = stack[i]
    BY <1>p, <2>1, PoppedCalls DEF PaneInv
  <2>3. CASE remember # NoSecret /\ ~overwritten
    <3>1. Len(stack) \in DOMAIN stack /\ Top = stack[Len(stack)]
      BY <1>p, <2>1, TopAndPop, LenProperties DEF PaneInv, IInv, TypeOK, Top
    <3>2. Top.request.attempt # attempt BY <1>k, <2>1, <2>3, <3>1 DEF SecretIsCarried
    <3>3. stack' = Pop BY <1>2, <3>2 DEF LoadReturns
    <3>4. SecretIsCarried' BY <1>0, <1>k, <2>1, <2>2, <3>3, KeepsCarried DEF worker
    <3> QED BY <1>p, <1>j, <2>1, <3>4 DEF SecretInv
  <2>4. CASE remember = NoSecret \/ overwritten BY <1>k, <2>1, <2>4, <1>p, <1>j, KeepsCarried DEF SecretInv
  <2> QED BY <2>3, <2>4
<1>3. CASE AnnounceReturns
  <2>1. /\ stack # <<>> /\ Top.kind = "announce" /\ stack' = Pop
        /\ UNCHANGED <<overwritten, remember, profile, attempt, tgen, worker, toGui>>
    BY <1>3 DEF AnnounceReturns
  <2>2. /\ DOMAIN Pop \subseteq DOMAIN stack /\ \A i \in DOMAIN Pop : Pop[i] = stack[i]
    BY <1>p, <2>1, PoppedCalls DEF PaneInv
  <2>3. Len(stack) \in DOMAIN stack /\ Top = stack[Len(stack)]
    BY <1>p, <2>1, TopAndPop, LenProperties DEF PaneInv, IInv, TypeOK, Top
  <2>4. CASE Top.request.attempt # attempt
    <3>1. toWorker' = toWorker BY <1>3, <2>4 DEF AnnounceReturns
    <3>2. SecretIsCarried' BY <1>0, <1>k, <2>1, <2>2, <3>1, KeepsCarried DEF worker
    <3> QED BY <1>p, <1>j, <2>1, <3>2 DEF SecretInv
  <2>5. CASE Top.request.attempt = attempt
    <3> DEFINE e == [op |-> "connect", gen |-> tgen, request |-> Top.request]
    <3>1. toWorker' = Append(toWorker, e) BY <1>3, <2>5 DEF AnnounceReturns
    <3>2. e.request = Top.request OBVIOUS
    <3> HIDE DEF e
    <3>3. \A i \in DOMAIN toWorker' : (i \in DOMAIN toWorker /\ toWorker'[i] = toWorker[i]) \/ toWorker'[i] = e
      BY <1>p, <3>1, Requested DEF PaneInv, IInv
    <3>4. SecretIsCarried'
      <4> SUFFICES ASSUME remember # NoSecret, ~overwritten PROVE SecretIsCarried' BY <2>1 DEF SecretIsCarried
      <4>1. CarriesRemembered(Top.request) BY <1>k, <2>1, <2>3, <2>5 DEF SecretIsCarried
      <4>2. \A i \in DOMAIN toWorker' : toWorker'[i].op = "connect" /\ toWorker'[i].gen = tgen =>
               CarriesRemembered(toWorker'[i].request) BY <1>k, <3>2, <3>3, <4>1 DEF SecretIsCarried
      <4>3. \A i \in DOMAIN stack' : stack'[i].kind # "dialog" /\ stack'[i].request.attempt = attempt =>
               stack'[i].kind = "announce" /\ CarriesRemembered(stack'[i].request)
        BY <1>k, <2>1, <2>2 DEF SecretIsCarried
      <4>4. wactive = tgen /\ wstate # "idle" => CarriesRemembered(wjob) BY <1>k DEF SecretIsCarried
      <4>5. Told("up", tgen) => remember = HostSecret[profile.host] BY <1>k DEF SecretIsCarried
      <4> QED BY <1>0, <2>1, <4>2, <4>3, <4>4, <4>5 DEF SecretIsCarried, CarriesRemembered, worker
    <3> QED BY <1>p, <1>j, <2>1, <3>4 DEF SecretInv
  <2> QED BY <2>4, <2>5
<1>4. ASSUME NEW a \in demoTimers, DemoTimerFires(a) PROVE SecretInv'
  BY <1>4, <1>0, <1>k, <1>p, <1>j, KeepsCarried DEF DemoTimerFires, worker, SecretInv
<1>5. ASSUME NEW type, Deliver(type), UNCHANGED <<overwritten, attempt, tgen, worker, stack, toWorker>>,
             remember' = NoSecret \/ UNCHANGED <<overwritten, remember, profile>>
      PROVE  SecretInv' BY <1>p, <1>5, <1>k, <1>j, Delivered, KeepsCarried DEF worker, SecretInv
<1>6. CASE HandleConnected BY <1>5, <1>6 DEF HandleConnected, RememberSuccessfulCredential
<1>7. CASE HandleProgress BY <1>5, <1>7 DEF HandleProgress
<1>8. CASE HandleFailed BY <1>5, <1>8 DEF HandleFailed
<1>9. CASE HandlePasswordRejected BY <1>5, <1>9 DEF HandlePasswordRejected
<1>10. CASE HandleHostKey
  <2> DEFINE f == [kind |-> "dialog"]
  <2>1. /\ Deliver("hostKey") /\ stack' = Append(stack, f)
        /\ UNCHANGED <<overwritten, remember, profile, attempt, tgen, worker, toWorker>>
    BY <1>10 DEF HandleHostKey
  <2>2. f.kind = "dialog" OBVIOUS
  <2> HIDE DEF f
  <2>3. Told("up", tgen)' => Told("up", tgen) BY <1>p, <2>1, Delivered DEF worker
  <2>4. /\ Len(stack) \in Nat /\ DOMAIN stack = 1 .. Len(stack)
        /\ DOMAIN stack' = 1 .. Len(stack) + 1
        /\ \A i \in 1 .. Len(stack) : stack'[i] = stack[i]
        /\ stack'[Len(stack) + 1] = f BY <1>p, <2>1, Behind DEF PaneInv, IInv, TypeOK
  <2>5. \A i \in DOMAIN stack' : stack'[i].kind # "dialog" => i \in DOMAIN stack /\ stack'[i] = stack[i]
    BY <2>2, <2>4
  <2>6. SecretIsCarried' BY <1>k, <2>1, <2>3, <2>5, KeepsCarried DEF worker
  <2> QED BY <1>p, <1>j, <2>1, <2>6 DEF SecretInv
<1>11. ASSUME NEW approved \in BOOLEAN, AnswerHostKey(approved) PROVE SecretInv'
  <2> DEFINE e == [op |-> "approve", approved |-> approved]
  <2>1. /\ stack # <<>> /\ stack' = Pop /\ toWorker' = Append(toWorker, e)
        /\ UNCHANGED <<overwritten, remember, profile, attempt, tgen, worker, toGui>> BY <1>11 DEF AnswerHostKey
  <2>2. e.op # "connect" OBVIOUS
  <2> HIDE DEF e
  <2>3. /\ DOMAIN Pop \subseteq DOMAIN stack /\ \A i \in DOMAIN Pop : Pop[i] = stack[i]
    BY <1>p, <2>1, PoppedCalls DEF PaneInv
  <2>4. \A i \in DOMAIN toWorker' : (i \in DOMAIN toWorker /\ toWorker'[i] = toWorker[i]) \/ toWorker'[i] = e
    BY <1>p, <2>1, Requested DEF PaneInv, IInv
  <2>5. SecretIsCarried' BY <1>0, <1>k, <2>1, <2>2, <2>3, <2>4, KeepsCarried DEF worker
  <2> QED BY <1>p, <1>j, <2>1, <2>5 DEF SecretInv
<1>12. CASE WorkerConnects
  <2>1. UNCHANGED <<overwritten, remember, profile, attempt, tgen, stack>> BY <1>12 DEF WorkerConnects, gui
  <2>2. /\ toWorker \in Seq(WorkerEvents) /\ toWorker # <<>> /\ toWorker' = Tail(toWorker) /\ Head(toWorker).op = "connect"
        /\ wactive' = Head(toWorker).gen /\ wjob' = Head(toWorker).request /\ wstate' \in {"idle", "tcp"}
    BY <1>12, <1>p DEF WorkerConnects, Take, PaneInv, IInv, TypeOK
  <2>3. /\ 1 \in DOMAIN toWorker /\ toWorker[1] = Head(toWorker)
        /\ \A i \in DOMAIN toWorker' : i + 1 \in DOMAIN toWorker /\ toWorker'[i] = toWorker[i + 1] BY <2>2, Rest
  <2>4. Told("up", tgen)' => Told("up", tgen)
    <3> DEFINE e == [type |-> "progress", gen |-> wactive']
    <3>1. toGui' = toGui \/ toGui' = Append(toGui, e) BY <1>12 DEF WorkerConnects
    <3>2. e.type # "up" OBVIOUS
    <3> HIDE DEF e
    <3>3. CASE toGui' = Append(toGui, e) BY <1>p, <3>3, <2>1, <3>2, Behind DEF PaneInv, IInv, TypeOK, Told
    <3> QED BY <2>1, <3>1, <3>3 DEF Told
  <2>5. JobAccepted' BY <2>2 DEF JobAccepted
  <2>6. SecretIsCarried'
    <3> SUFFICES ASSUME remember # NoSecret, ~overwritten PROVE SecretIsCarried' BY <2>1 DEF SecretIsCarried
    <3>1. \A i \in DOMAIN toWorker : toWorker[i].op = "connect" /\ toWorker[i].gen = tgen =>
             CarriesRemembered(toWorker[i].request) BY <1>k DEF SecretIsCarried
    <3>2. \A i \in DOMAIN toWorker' : toWorker'[i].op = "connect" /\ toWorker'[i].gen = tgen =>
             CarriesRemembered(toWorker'[i].request) BY <2>3, <3>1
    <3>3. wactive' = tgen => CarriesRemembered(wjob') BY <2>2, <2>3, <3>1
    <3>4. \A i \in DOMAIN stack : stack[i].kind # "dialog" /\ stack[i].request.attempt = attempt =>
             stack[i].kind = "announce" /\ CarriesRemembered(stack[i].request) BY <1>k DEF SecretIsCarried
    <3>5. Told("up", tgen) => remember = HostSecret[profile.host] BY <1>k DEF SecretIsCarried
    <3> QED BY <2>1, <2>4, <3>2, <3>3, <3>4, <3>5 DEF SecretIsCarried, CarriesRemembered
  <2> QED BY <1>p, <2>5, <2>6 DEF SecretInv
<1>13. CASE WorkerMoves
  <2>1. UNCHANGED <<overwritten, remember, profile, attempt, tgen, stack, wactive, wjob>> BY <1>13 DEF WorkerMoves, gui
  <2>2. \A i \in DOMAIN toWorker' : toWorker'[i].op = "connect" => \E k \in DOMAIN toWorker : toWorker[k] = toWorker'[i]
    BY <1>p, <1>13, SameRequests DEF WorkerMoves
  <2>3. wstate = "idle" => wstate' = "idle" BY <1>13 DEF WorkerMoves
  <2>4. JobAccepted' BY <1>k, <1>13, <2>1 DEF WorkerMoves, JobAccepted
  <2>5. SecretIsCarried'
    <3>1. CASE remember = NoSecret \/ overwritten BY <1>k, <2>1, <3>1, KeepsCarried
    <3>2. CASE remember # NoSecret /\ ~overwritten
      <4>1. \A i \in DOMAIN toWorker' : toWorker'[i].op = "connect" /\ toWorker'[i].gen = tgen =>
               CarriesRemembered(toWorker'[i].request) BY <1>k, <2>2, <3>2 DEF SecretIsCarried
      <4>2. Told("up", tgen)' => remember = HostSecret[profile.host]
        BY <1>k, <3>2, <1>13, <2>1 DEF SecretIsCarried, CarriesRemembered, JobAccepted, WorkerMoves, Told
      <4>3. /\ wactive = tgen /\ wstate # "idle" => CarriesRemembered(wjob)
            /\ \A i \in DOMAIN stack : stack[i].kind # "dialog" /\ stack[i].request.attempt = attempt =>
                   stack[i].kind = "announce" /\ CarriesRemembered(stack[i].request)
        BY <1>k, <3>2 DEF SecretIsCarried
      <4> QED BY <2>1, <2>3, <4>1, <4>2, <4>3 DEF SecretIsCarried, CarriesRemembered
    <3> QED BY <3>1, <3>2
  <2> QED BY <1>p, <2>4, <2>5 DEF SecretInv
<1>14. CASE WorkerStep \/ TransportLost BY <1>p, <1>12, <1>13, <1>14, OtherWorkerStep DEF PaneInv, IInv
<1>15. CASE UNCHANGED vars BY <1>15, <1>0, <1>k, <1>p, <1>j, KeepsCarried DEF vars, worker, SecretInv
<1> QED
  BY <1>1, <1>r, <1>2, <1>3, <1>4, <1>6, <1>7, <1>8, <1>9, <1>10, <1>11, <1>14, <1>15 DEF Next, GuiStep, AnswerStep

\* There is nothing to remember at the start.
LEMMA SecretInit == Init => SecretInv
BY PaneInit DEF Init, SecretInv, SecretIsCarried, ProxyCarries, JobAccepted

\* The only step that changes the reference of the saved profile stores the
\* password the attempt was made with, if it is not overwritten.
LEMMA SecretSaved ==
    ASSUME SecretInv, [Next]_vars
    PROVE  row'.ref # row.ref => overwritten \/ vault'[row'.ref] = HostSecret[row'.host]
<1>p. PaneInv /\ TypeOK BY DEF SecretInv, PaneInv, IInv
<1>1. CASE HandleConnected
  <2>1. CASE UNCHANGED row BY <2>1
  <2>2. CASE row' # row
    <3>1. /\ Deliver("up") /\ Current /\ remember # NoSecret /\ row = profile
          /\ vault' = [vault EXCEPT ![attempt + 1] = remember]
          /\ row' = [row EXCEPT !.ref = attempt + 1]
      BY <1>1, <2>2 DEF HandleConnected, RememberSuccessfulCredential
    <3>2. attempt + 1 \in Refs BY <1>p, BoundAssumption DEF TypeOK, Refs
    <3>3. vault'[attempt + 1] = remember BY <1>p, <3>1, <3>2 DEF TypeOK
    <3>4. row'.ref = attempt + 1 /\ row'.host = profile.host BY <1>p, <3>1 DEF TypeOK, Profiles
    <3>5. OfWanted(1) /\ 1 \in DOMAIN toGui /\ toGui[1].type = "up"
      BY <1>p, <3>1, CurrentReport, Rest DEF ReportTypes, TypeOK, Deliver
    <3>6. Told("up", tgen) BY <3>5 DEF Told, OfWanted
    <3>7. overwritten \/ remember = HostSecret[profile.host] BY <3>1, <3>6 DEF SecretInv, SecretIsCarried
    <3> QED BY <3>3, <3>4, <3>7
  <2> QED BY <2>1, <2>2
<1>2. ASSUME NEW h \in Hosts, EditProfile(h) PROVE row'.ref = row.ref
  BY <1>p, <1>2 DEF EditProfile, TypeOK, Profiles
<1>3. CASE UserStep \/ IdleTimeout
  BY <1>2, <1>3 DEF UserStep, IdleTimeout, UserDisconnects, DisconnectFromHost, ConnectTo,
     ConnectToDemo, ConnectWithPassword, BeginAttempt, stores
<1>4. CASE WorkerStep \/ TransportLost
  BY <1>4 DEF WorkerStep, WorkerConnects, WorkerDisconnects, WorkerApproves, StageFails, TcpDone, HandshakeDone,
     AuthDone, ReportRejected, ShellDone, TransportLost, gui, stores
<1>5. CASE GuiStep \/ AnswerStep
  BY <1>1, <1>5 DEF GuiStep, AnswerStep, ProxyReturns, LoadReturns, AnnounceReturns, DemoTimerFires, HandleProgress,
     HandleFailed, HandlePasswordRejected, HandleHostKey, AnswerHostKey, stores
<1>6. CASE UNCHANGED vars BY <1>6 DEF vars, stores
<1> QED BY <1>3, <1>4, <1>5, <1>6 DEF Next

\* A password is remembered only after the address it is saved for accepted it,
\* unless a call of an earlier attempt wrote into this one.
THEOREM SecretsRemembered == Spec => RemembersAcceptedSecret
<1>1. SecretInv /\ [Next]_vars => [row'.ref # row.ref => overwritten \/ vault'[row'.ref] = HostSecret[row'.host]]_vars
  BY SecretSaved
<1> QED BY <1>1, SecretInit, SecretStep, PTL DEF Spec, RemembersAcceptedSecret

----
(* OneAddressIsSafe.  While the profile keeps its address h, every key that  *)
(* is asked about is that of h.  An approval that could open a transport     *)
(* whose key the user did not accept is void: a refusal reaches the worker   *)
(* first, or the worker has nothing open.                                    *)

\* An approval at place i of the queue will find the transport it is about closed.
Void(i) ==
    \/ \E k \in 1 .. i - 1 : /\ toWorker[k].op = "approve" /\ ~toWorker[k].approved
                             /\ \A j \in k + 1 .. i - 1 : toWorker[j].op # "connect"
    \/ wstate = "idle" /\ \A j \in 1 .. i - 1 : toWorker[j].op # "connect"

\* So will one that is queued next.
NextIsVoid == Void(Len(toWorker) + 1)

HasDialog == \E i \in DOMAIN stack : stack[i].kind = "dialog"
DialogsOnTop ==
    \A i, j \in DOMAIN stack : i < j /\ stack[i].kind = "dialog" => stack[j].kind = "dialog"

\* Keys that wait for an answer, are on their way or were accepted are those of h.
KeysAreOf(h) ==
    /\ pendingKey \in {NoKey, HostKey[h]} /\ knownHosts[h] \in {NoKey, HostKey[h]}
    /\ \A i \in DOMAIN toGui : toGui[i].type = "hostKey" => toGui[i].key = HostKey[h]

\* Every request is for h, and expects no key but the accepted one.
Fits(r, h) == r.host = h /\ r.expected \in {NoKey, knownHosts[h]}
RequestsAreFor(h) ==
    /\ \A i \in DOMAIN stack : stack[i].kind # "dialog" => Fits(stack[i].request, h)
    /\ \A i \in DOMAIN toWorker : toWorker[i].op = "connect" => Fits(toWorker[i].request, h)
    /\ Fits(wjob, h)

\* No approval opens a transport before the key of h is stored.
ApprovalsAreVoid(h) ==
    knownHosts[h] = NoKey =>
        /\ \A i \in DOMAIN toWorker : toWorker[i].op = "approve" /\ toWorker[i].approved => Void(i)
        /\ HasDialog /\ pendingKey = NoKey => NextIsVoid

PastKey == {"auth", "shell", "connected", "rejected"}

OneHostInv(h) ==
    /\ TypeOK /\ DialogsOnTop
    /\ KeysAreOf(h) /\ RequestsAreFor(h) /\ ApprovalsAreVoid(h)
    /\ wstate \in PastKey => knownHosts[h] = HostKey[h]

\* Voidness and an event more in the queue.
LEMMA VoidAppend ==
    ASSUME TypeOK, NEW e, toWorker' = Append(toWorker, e), wstate' = wstate,
           NEW n, n = Len(toWorker)
    PROVE  /\ n \in Nat /\ DOMAIN toWorker = 1 .. n /\ Len(toWorker') = n + 1
           /\ \A i \in 1 .. n + 1 : Void(i) => Void(i)'
           /\ Void(n + 1) /\ e.op # "connect" => Void(n + 2)'
           /\ e.op = "approve" /\ ~e.approved => Void(n + 2)'
<1>1. /\ n \in Nat /\ DOMAIN toWorker = 1 .. n /\ DOMAIN toWorker' = 1 .. n + 1
      /\ \A i \in 1 .. n : toWorker'[i] = toWorker[i]
      /\ n + 1 \in DOMAIN toWorker' /\ toWorker'[n + 1] = e BY Requested
<1>2. Len(toWorker') = n + 1 BY <1>1 DEF TypeOK
<1>3. ASSUME NEW i \in 1 .. n + 1, Void(i) PROVE Void(i)' BY <1>1, <1>3 DEF Void
<1>4. ASSUME Void(n + 1), e.op # "connect" PROVE Void(n + 2)'
  <2>1. n + 1 - 1 = n /\ n + 2 - 1 = n + 1 BY <1>1
  <2>2. CASE wstate = "idle" /\ \A j \in 1 .. n : toWorker[j].op # "connect" BY <1>1, <1>4, <2>2, <2>1 DEF Void
  <2>3. ASSUME NEW k \in 1 .. n, toWorker[k].op = "approve", ~toWorker[k].approved,
               \A j \in k + 1 .. n : toWorker[j].op # "connect"
        PROVE  Void(n + 2)' BY <1>1, <1>4, <2>3, <2>1 DEF Void
  <2> QED BY <1>4, <2>1, <2>2, <2>3 DEF Void
<1>5. ASSUME e.op = "approve", ~e.approved PROVE Void(n + 2)' BY <1>1, <1>5 DEF Void
<1> QED BY <1>1, <1>2, <1>3, <1>4, <1>5

\* Voidness and the event the worker takes.
LEMMA VoidTake ==
    ASSUME TypeOK, NEW op, Take(op), NEW i \in Nat \ {0}, Void(i + 1),
           op = "connect" \/ wstate' = "idle" \/ (Head(toWorker).approved /\ wstate' = wstate),
           \A j \in 1 .. i : j \in DOMAIN toWorker
    PROVE  Void(i)'
<1>1. toWorker \in Seq(WorkerEvents) /\ toWorker # <<>> /\ toWorker' = Tail(toWorker) /\ Head(toWorker).op = op
  BY DEF TypeOK, Take
<1>2. /\ toWorker[1] = Head(toWorker)
      /\ \A j \in DOMAIN toWorker' : toWorker'[j] = toWorker[j + 1]
      /\ \A j \in DOMAIN toWorker : j = 1 \/ (j - 1 \in DOMAIN toWorker' /\ toWorker'[j - 1] = toWorker[j])
  BY <1>1, Rest
<1>3. \A j \in 1 .. i - 1 : j + 1 \in 1 .. i /\ toWorker'[j] = toWorker[j + 1]
  <2> SUFFICES ASSUME NEW j \in 1 .. i - 1 PROVE j + 1 \in 1 .. i /\ toWorker'[j] = toWorker[j + 1] OBVIOUS
  <2>1. j + 1 \in 1 .. i /\ j + 1 # 1 /\ j + 1 - 1 = j OBVIOUS
  <2>2. j + 1 \in DOMAIN toWorker BY <2>1
  <2> QED BY <1>2, <2>1, <2>2
<1>4. i + 1 - 1 = i /\ 1 \in 1 .. i OBVIOUS
<1>5. ASSUME NEW k \in 1 .. i, k # 1, toWorker[k].op = "approve", ~toWorker[k].approved,
             \A j \in k + 1 .. i : toWorker[j].op # "connect"
      PROVE  Void(i)'
  <2>1. k - 1 \in 1 .. i - 1 /\ k - 1 + 1 = k BY <1>5
  <2>2. toWorker'[k - 1] = toWorker[k] BY <1>3, <2>1
  <2>3. \A j \in k - 1 + 1 .. i - 1 : j \in 1 .. i - 1 /\ j + 1 \in k + 1 .. i BY <1>5
  <2>4. \A j \in k - 1 + 1 .. i - 1 : toWorker'[j].op # "connect" BY <1>3, <1>5, <2>3
  <2> QED BY <1>5, <2>1, <2>2, <2>4 DEF Void
<1>6. CASE op # "connect" /\ wstate' = "idle" /\ \A j \in 2 .. i : toWorker[j].op # "connect" BY <1>3, <1>6 DEF Void
<1>7. CASE wstate = "idle" /\ \A j \in 1 .. i : toWorker[j].op # "connect" BY <1>1, <1>2, <1>4, <1>7, <1>6
<1>8. CASE /\ toWorker[1].op = "approve" /\ ~toWorker[1].approved
           /\ \A j \in 2 .. i : toWorker[j].op # "connect" BY <1>1, <1>2, <1>8, <1>6
<1>9. \/ \E k \in 1 .. i : /\ toWorker[k].op = "approve" /\ ~toWorker[k].approved
                           /\ \A j \in k + 1 .. i : toWorker[j].op # "connect"
      \/ wstate = "idle" /\ \A j \in 1 .. i : toWorker[j].op # "connect" BY <1>4 DEF Void
<1> QED BY <1>5, <1>7, <1>8, <1>9

\* The same for the approval that comes next.
LEMMA NextVoidAppend ==
    ASSUME TypeOK, NEW e, toWorker' = Append(toWorker, e), wstate' = wstate
    PROVE  /\ NextIsVoid /\ e.op # "connect" => NextIsVoid'
           /\ e.op = "approve" /\ ~e.approved => NextIsVoid'
<1>1. PICK n : n = Len(toWorker) OBVIOUS
<1>2. /\ n \in Nat /\ Len(toWorker') = n + 1
      /\ Void(n + 1) /\ e.op # "connect" => Void(n + 2)'
      /\ e.op = "approve" /\ ~e.approved => Void(n + 2)' BY <1>1, VoidAppend
<1>3. NextIsVoid <=> Void(n + 1) BY <1>1 DEF NextIsVoid
<1>4. Len(toWorker') + 1 = n + 2 BY <1>2
<1>5. NextIsVoid' <=> Void(n + 2)' BY <1>4 DEF NextIsVoid, Void
<1> QED BY <1>2, <1>3, <1>5

\* A step that only takes reports or changes flags keeps the keys where they were.
LEMMA HostUnmoved ==
    ASSUME NEW h, OneHostInv(h), TypeOK',
           UNCHANGED <<pendingKey, knownHosts, stack, toWorker, wjob, wstate>>,
           \A i \in DOMAIN toGui' : toGui'[i].type = "hostKey" => \E k \in DOMAIN toGui : toGui[k] = toGui'[i]
    PROVE  OneHostInv(h)'
<1>1. DialogsOnTop' BY DEF OneHostInv, DialogsOnTop
<1>2. KeysAreOf(h)' BY DEF OneHostInv, KeysAreOf
<1>3. RequestsAreFor(h)' BY DEF OneHostInv, RequestsAreFor, Fits
<1>4. ApprovalsAreVoid(h)' BY DEF OneHostInv, ApprovalsAreVoid, Void, NextIsVoid, HasDialog
<1> QED BY <1>1, <1>2, <1>3, <1>4 DEF OneHostInv

\* The top of the stack is a call of the session, or there is none: no dialog is open.
LEMMA NoDialog ==
    ASSUME TypeOK, DialogsOnTop, stack = <<>> \/ Top.kind # "dialog"
    PROVE  ~HasDialog
<1> SUFFICES ASSUME NEW i \in DOMAIN stack, stack[i].kind = "dialog" PROVE FALSE BY DEF HasDialog
<1>1. stack # <<>> OBVIOUS
<1>2. Len(stack) \in Nat \ {0} BY <1>1, TopAndPop
<1>3. DOMAIN stack = 1 .. Len(stack) BY LenProperties DEF TypeOK
<1>4. Len(stack) \in DOMAIN stack /\ (i < Len(stack) \/ i = Len(stack)) BY <1>2, <1>3
<1>5. stack[Len(stack)].kind = "dialog" BY <1>4 DEF DialogsOnTop
<1> QED BY <1>1, <1>5 DEF Top

\* The end of an attempt puts a teardown behind what is queued, or nothing.
LEMMA HostEnds ==
    ASSUME NEW h, OneHostInv(h), NEW kept, EndAttempt(kept), UNCHANGED <<knownHosts, worker>>
    PROVE  /\ \A i \in DOMAIN toWorker' : toWorker'[i].op = "connect" => Fits(toWorker'[i].request, h)
           /\ (pendingKey' = pendingKey /\ stack' = stack) \/ ~HasDialog' => ApprovalsAreVoid(h)'
<1>u. wstate' = wstate BY DEF worker
<1>1. CASE demo
  <2>1. toWorker' = toWorker BY <1>1 DEF EndAttempt, CancelTransport
  <2>2. \A i \in DOMAIN toWorker : Void(i) => Void(i)' BY <1>u, <2>1 DEF Void
  <2>3. NextIsVoid => NextIsVoid' BY <1>u, <2>1 DEF NextIsVoid, Void
  <2>4. stack' = stack => HasDialog' = HasDialog BY DEF HasDialog
  <2> QED BY <2>1, <2>2, <2>3, <2>4 DEF OneHostInv, RequestsAreFor, ApprovalsAreVoid
<1>2. CASE ~demo
  <2> DEFINE e == [op |-> "disconnect"]
  <2>1. toWorker' = Append(toWorker, e) BY <1>2 DEF EndAttempt, CancelTransport
  <2>e. e.op = "disconnect" OBVIOUS
  <2> HIDE DEF e
  <2>2. PICK n : n = Len(toWorker) OBVIOUS
  <2>3. /\ n \in Nat /\ DOMAIN toWorker = 1 .. n /\ Len(toWorker') = n + 1
        /\ \A i \in 1 .. n + 1 : Void(i) => Void(i)'
        /\ NextIsVoid => NextIsVoid' BY <1>u, <2>1, <2>2, <2>e, NextVoidAppend, VoidAppend DEF OneHostInv
  <2>4. \A i \in DOMAIN toWorker' : (i \in DOMAIN toWorker /\ toWorker'[i] = toWorker[i]) \/ toWorker'[i] = e
    BY <2>1, Requested DEF OneHostInv
  <2>5. \A i \in DOMAIN toWorker' : toWorker'[i].op = "connect" => Fits(toWorker'[i].request, h)
    BY <2>4, <2>e DEF OneHostInv, RequestsAreFor
  <2>6. ASSUME (pendingKey' = pendingKey /\ stack' = stack) \/ ~HasDialog', knownHosts[h] = NoKey
        PROVE  /\ \A i \in DOMAIN toWorker' : toWorker'[i].op = "approve" /\ toWorker'[i].approved => Void(i)'
               /\ HasDialog' /\ pendingKey' = NoKey => NextIsVoid'
    BY <2>3, <2>4, <2>e, <2>6 DEF OneHostInv, ApprovalsAreVoid, HasDialog
  <2> QED BY <2>5, <2>6 DEF ApprovalsAreVoid
<1> QED BY <1>1, <1>2

AtHost(h) == profile.host = h /\ row.host = h

\* A call that begins an attempt, a timer or the end of one keeps the keys apart.
LEMMA HostUser ==
    ASSUME NEW h \in Hosts, OneHostInv(h), AtHost(h), UserStep \/ IdleTimeout
    PROVE  OneHostInv(h)'
<1>t. TypeOK' BY TypeUser DEF OneHostInv
<1>a. ASSUME NEW kept, EndAttempt(kept), UNCHANGED <<knownHosts, worker, toGui>>,
             \/ UNCHANGED <<pendingKey, stack>>
             \/ /\ pendingKey' = NoKey /\ ~HasDialog
                /\ \/ stack' = stack
                   \/ \E f : stack' = Append(stack, f) /\ f.kind # "dialog" /\ Fits(f.request, h)
      PROVE  OneHostInv(h)'
  <2>1. /\ \A i \in DOMAIN toWorker' : toWorker'[i].op = "connect" => Fits(toWorker'[i].request, h)
        /\ (pendingKey' = pendingKey /\ stack' = stack) \/ ~HasDialog' => ApprovalsAreVoid(h)' BY <1>a, HostEnds
  <2>2. \A i \in DOMAIN stack' : stack'[i].kind # "dialog" => Fits(stack'[i].request, h)
    <3>1. CASE stack' = stack BY <3>1 DEF OneHostInv, RequestsAreFor
    <3>2. ASSUME NEW f, stack' = Append(stack, f), f.kind # "dialog", Fits(f.request, h)
          PROVE  \A i \in DOMAIN stack' : stack'[i].kind # "dialog" => Fits(stack'[i].request, h)
      BY <3>2, Behind DEF OneHostInv, TypeOK, RequestsAreFor
    <3> QED BY <1>a, <3>1, <3>2
  <2>3. ~HasDialog => ~HasDialog' \/ stack' = stack
    <3>1. ASSUME NEW f, stack' = Append(stack, f), f.kind # "dialog", ~HasDialog PROVE ~HasDialog'
      BY <3>1, Behind DEF OneHostInv, TypeOK, HasDialog
    <3> QED BY <1>a, <3>1
  <2>4. stack' = stack => HasDialog' = HasDialog BY DEF HasDialog
  <2>5. ApprovalsAreVoid(h)' BY <1>a, <2>1, <2>3, <2>4
  <2>6. DialogsOnTop' BY <1>a, <2>3 DEF OneHostInv, DialogsOnTop, HasDialog
  <2>7. KeysAreOf(h)' BY <1>a DEF OneHostInv, KeysAreOf
  <2>8. RequestsAreFor(h)' BY <1>a, <2>1, <2>2 DEF OneHostInv, RequestsAreFor, Fits, worker
  <2> QED BY <1>a, <1>t, <2>5, <2>6, <2>7, <2>8 DEF OneHostInv, worker
<1>n. InputAllowed => ~HasDialog BY NoDialog DEF InputAllowed, OneHostInv
<1>1. CASE DisconnectFromHost BY <1>1, <1>a DEF DisconnectFromHost, stores
<1>o. ASSUME NEW kind \in {"load", "announce"}, NEW p, NEW secret, Open(kind, p, secret), p.host = h
      PROVE  \E f : stack' = Append(stack, f) /\ f.kind # "dialog" /\ Fits(f.request, h)
  <2> DEFINE r == [attempt |-> attempt', host |-> p.host, expected |-> knownHosts[p.host], secret |-> secret]
             f == [kind |-> kind, request |-> r]
  <2>1. stack' = Append(stack, f) BY <1>o DEF Open
  <2>2. f.kind # "dialog" /\ f.request.host = h /\ f.request.expected = knownHosts[h] BY <1>o
  <2> HIDE DEF f
  <2> QED BY <2>1, <2>2 DEF Fits
<1>x. ASSUME NEW p, NEW secret, NEW kept, OpenBehindProxy(p, secret, kept), p.host = h
      PROVE  \E f : stack' = Append(stack, f) /\ f.kind # "dialog" /\ Fits(f.request, h)
  <2> DEFINE r == [attempt |-> attempt', host |-> p.host, expected |-> NoKey, secret |-> secret]
             f == [kind |-> "proxy", ref |-> p.ref, kept |-> kept, request |-> r]
  <2>1. stack' = Append(stack, f) BY <1>x DEF OpenBehindProxy
  <2>2. f.kind # "dialog" /\ f.request.host = h /\ f.request.expected = NoKey BY <1>x
  <2> HIDE DEF f
  <2> QED BY <2>1, <2>2 DEF Fits
<1>b. ASSUME NEW p, NEW d, NEW kept, BeginAttempt(p, d, kept), ~HasDialog,
             \/ stack' = stack
             \/ \E f : stack' = Append(stack, f) /\ f.kind # "dialog" /\ Fits(f.request, h)
      PROVE  OneHostInv(h)' BY <1>b, <1>a DEF BeginAttempt, stores
<1>2. ASSUME NEW s \in Secrets \cup {NoSecret}, ConnectTo(s) PROVE OneHostInv(h)'
  <2>1. BeginAttempt(row, FALSE, NoSecret) /\ ~HasDialog /\ row.host = h
    BY <1>2, <1>n DEF ConnectTo, PaneConnects, AtHost
  <2>2. \/ stack' = stack \/ OpenBehindProxy(row, s, NoSecret)
        \/ \E kind \in {"load", "announce"}, secret \in {s, NoSecret} : Open(kind, row, secret)
    BY <1>2 DEF ConnectTo
  <2> QED BY <2>1, <2>2, <1>b, <1>o, <1>x
<1>4. CASE ConnectToDemo BY <1>4, <1>a, <1>n DEF ConnectToDemo, PaneConnects, BeginAttempt, stores
<1>5. ASSUME NEW s \in Secrets, NEW keep \in BOOLEAN, ConnectWithPassword(s, keep) PROVE OneHostInv(h)'
  <2> DEFINE kept == IF keep THEN s ELSE NoSecret
  <2>1. ~HasDialog /\ profile.host = h /\ \E k : BeginAttempt(profile, FALSE, k)
    BY <1>5, <1>n DEF ConnectWithPassword, AtHost
  <2>2. OpenBehindProxy(profile, s, kept) \/ Open("announce", profile, s) BY <1>5 DEF ConnectWithPassword
  <2> HIDE DEF kept
  <2> QED BY <2>1, <2>2, <1>b, <1>o, <1>x
<1>6. ASSUME NEW g \in Hosts, EditProfile(g) PROVE OneHostInv(h)'
  BY <1>6, <1>t, HostUnmoved DEF EditProfile, worker
<1> QED BY <1>1, <1>2, <1>4, <1>5, <1>6 DEF UserStep, UserDisconnects, IdleTimeout

\* The GUI thread asks about the key of h only, and sends requests for h only.
LEMMA HostGui ==
    ASSUME NEW h \in Hosts, OneHostInv(h), AtHost(h), GuiStep \/ AnswerStep
    PROVE  OneHostInv(h)'
<1>t. TypeOK' BY TypeGui DEF OneHostInv
<1>k. HostKey[h] # NoKey BY AddressAssumption
<1>p. ASSUME stack # <<>>, Top.kind # "dialog"
      PROVE  /\ ~HasDialog /\ Pop \in Seq(Frames)
             /\ \A i \in DOMAIN Pop : i \in DOMAIN stack /\ Pop[i] = stack[i]
             /\ Len(stack) \in DOMAIN stack /\ Top = stack[Len(stack)] /\ Top \in Frames
  <2>1. ~HasDialog BY <1>p, NoDialog DEF OneHostInv
  <2>2. /\ Top \in Frames /\ Pop \in Seq(Frames) /\ Len(stack) \in Nat \ {0} /\ Len(Pop) = Len(stack) - 1
        /\ \A i \in 1 .. Len(stack) - 1 : Pop[i] = stack[i] BY <1>p, TopAndPop DEF OneHostInv
  <2>3. DOMAIN Pop = 1 .. Len(Pop) BY <2>2, LenProperties
  <2>4. DOMAIN stack = 1 .. Len(stack) BY LenProperties DEF OneHostInv, TypeOK
  <2> QED BY <2>1, <2>2, <2>3, <2>4 DEF Top
<1>c. ASSUME ~HasDialog', UNCHANGED <<pendingKey, knownHosts, toGui, wjob, wstate>>,
             \A i \in DOMAIN stack' : stack'[i].kind # "dialog" => Fits(stack'[i].request, h),
             \/ toWorker' = toWorker
             \/ \E e : toWorker' = Append(toWorker, e) /\ e.op = "connect" /\ Fits(e.request, h)
      PROVE  OneHostInv(h)'
  <2>1. DialogsOnTop' BY <1>c DEF DialogsOnTop, HasDialog
  <2>2. KeysAreOf(h)' BY <1>c DEF OneHostInv, KeysAreOf
  <2>3. \A r : Fits(r, h)' <=> Fits(r, h) BY <1>c DEF Fits
  <2>4. CASE toWorker' = toWorker
    BY <1>c, <2>4, <1>t, <2>1, <2>2 DEF OneHostInv, RequestsAreFor, Fits, ApprovalsAreVoid, Void
  <2>5. ASSUME NEW e, toWorker' = Append(toWorker, e), e.op = "connect", Fits(e.request, h)
        PROVE  OneHostInv(h)'
    <3>1. \A i \in DOMAIN toWorker' : (i \in DOMAIN toWorker /\ toWorker'[i] = toWorker[i]) \/ toWorker'[i] = e
      BY <2>5, Requested DEF OneHostInv
    <3>2. RequestsAreFor(h)' BY <1>c, <2>5, <3>1 DEF OneHostInv, RequestsAreFor, Fits
    <3>3. PICK n : n = Len(toWorker) OBVIOUS
    <3>4. n \in Nat /\ DOMAIN toWorker = 1 .. n /\ \A i \in 1 .. n + 1 : Void(i) => Void(i)'
      BY <1>c, <2>5, <3>3, VoidAppend DEF OneHostInv
    <3>5. \A i \in DOMAIN toWorker : Void(i) => Void(i)' BY <3>4
    <3>6. ApprovalsAreVoid(h)' BY <1>c, <2>5, <3>1, <3>5 DEF OneHostInv, ApprovalsAreVoid
    <3> QED BY <1>t, <1>c, <2>1, <2>2, <3>2, <3>6 DEF OneHostInv
  <2> QED BY <1>c, <2>4, <2>5
<1>1. CASE ProxyReturns \/ LoadReturns
  <2>1. /\ stack # <<>> /\ Top.kind \in {"proxy", "load"}
        /\ UNCHANGED <<pendingKey, knownHosts, toGui, wjob, wstate, toWorker>>
    BY <1>1 DEF ProxyReturns, LoadReturns, stores, worker
  <2>2. /\ ~HasDialog /\ Pop \in Seq(Frames)
        /\ \A i \in DOMAIN Pop : i \in DOMAIN stack /\ Pop[i] = stack[i]
        /\ Len(stack) \in DOMAIN stack /\ Top = stack[Len(stack)] /\ Top \in Frames BY <1>p, <2>1
  <2>r. Top.request \in Requests BY <2>1, <2>2 DEF Frames
  <2>t. Top.request.host = h /\ Fits(Top.request, h) BY <2>1, <2>2 DEF OneHostInv, RequestsAreFor, Fits
  <2>3. CASE stack' = Pop BY <2>2, <2>3, <1>c, <2>1 DEF HasDialog, OneHostInv, RequestsAreFor
  <2>4. ASSUME NEW f, stack' = Append(Pop, f), f.kind # "dialog", Fits(f.request, h) PROVE OneHostInv(h)'
    <3>4. /\ Len(Pop) \in Nat /\ DOMAIN Pop = 1 .. Len(Pop) /\ DOMAIN stack' = 1 .. Len(Pop) + 1
          /\ \A i \in 1 .. Len(Pop) : stack'[i] = Pop[i]
          /\ stack'[Len(Pop) + 1] = f BY <2>2, <2>4, Behind
    <3>5. \A i \in DOMAIN stack' : (i \in DOMAIN Pop /\ stack'[i] = Pop[i]) \/ stack'[i] = f BY <3>4
    <3>6. ~HasDialog' BY <2>2, <2>4, <3>5 DEF HasDialog
    <3>7. \A i \in DOMAIN stack' : stack'[i].kind # "dialog" => Fits(stack'[i].request, h)
      BY <2>2, <2>4, <3>5 DEF OneHostInv, RequestsAreFor
    <3> QED BY <1>c, <2>1, <3>6, <3>7
  <2> DEFINE sent == [Top.request EXCEPT !.secret = vault[profile.ref]]
             looked == [Top.request EXCEPT !.expected = knownHosts[Top.request.host]]
             next(kind, r) == [kind |-> kind, request |-> r]
  <2>5. Fits(sent, h)
    <3>1. sent.host = Top.request.host /\ sent.expected = Top.request.expected BY <2>r DEF Requests
    <3> QED BY <2>t, <3>1 DEF Fits
  <2>6. Fits(looked, h)
    <3>1. looked.host = Top.request.host /\ looked.expected = knownHosts[Top.request.host] BY <2>r DEF Requests
    <3> QED BY <2>t, <3>1 DEF Fits
  <2>7. \A kind, r : next(kind, r).kind = kind /\ next(kind, r).request = r OBVIOUS
  <2>8. \/ stack' = Pop \/ stack' = Append(Pop, next("announce", sent))
        \/ \E kind \in {"load", "announce"} : stack' = Append(Pop, next(kind, looked))
    BY <1>1 DEF ProxyReturns, LoadReturns
  <2> HIDE DEF sent, looked, next
  <2>9. CASE stack' = Append(Pop, next("announce", sent)) BY <2>4, <2>5, <2>7, <2>9
  <2>10. ASSUME NEW kind \in {"load", "announce"}, stack' = Append(Pop, next(kind, looked)) PROVE OneHostInv(h)'
    BY <2>4, <2>6, <2>7, <2>10
  <2> QED BY <2>3, <2>8, <2>9, <2>10
<1>2. CASE AnnounceReturns
  <2>1. /\ stack # <<>> /\ Top.kind = "announce" /\ stack' = Pop
        /\ UNCHANGED <<pendingKey, knownHosts, toGui, wjob, wstate>> BY <1>2 DEF AnnounceReturns, stores, worker
  <2>2. /\ ~HasDialog
        /\ \A i \in DOMAIN Pop : i \in DOMAIN stack /\ Pop[i] = stack[i]
        /\ Len(stack) \in DOMAIN stack /\ Top = stack[Len(stack)] BY <1>p, <2>1
  <2>3. ~HasDialog' BY <2>1, <2>2 DEF HasDialog
  <2>4. \A i \in DOMAIN stack' : stack'[i].kind # "dialog" => Fits(stack'[i].request, h)
    BY <2>1, <2>2 DEF OneHostInv, RequestsAreFor
  <2>5. \/ toWorker' = toWorker
        \/ \E e : toWorker' = Append(toWorker, e) /\ e.op = "connect" /\ Fits(e.request, h)
    <3> DEFINE e == [op |-> "connect", gen |-> tgen, request |-> Top.request]
    <3>1. toWorker' = toWorker \/ toWorker' = Append(toWorker, e) BY <1>2 DEF AnnounceReturns
    <3>2. e.op = "connect" /\ e.request = Top.request OBVIOUS
    <3>3. Fits(Top.request, h) BY <2>1, <2>2 DEF OneHostInv, RequestsAreFor
    <3> HIDE DEF e
    <3> QED BY <3>1, <3>2, <3>3
  <2> QED BY <1>c, <2>1, <2>3, <2>4, <2>5
<1>3. ASSUME NEW a \in demoTimers, DemoTimerFires(a) PROVE OneHostInv(h)'
  BY <1>3, <1>t, HostUnmoved DEF DemoTimerFires, stores, worker
<1>4. ASSUME NEW type, Deliver(type)
      PROVE  /\ \A i \in DOMAIN toGui' : \E k \in DOMAIN toGui : toGui[k] = toGui'[i]
             /\ 1 \in DOMAIN toGui /\ toGui[1] = Head(toGui) /\ toGui[1].type = type
  BY <1>4, Rest DEF OneHostInv, TypeOK, Deliver
<1>5. ASSUME NEW type, Deliver(type), UNCHANGED <<pendingKey, knownHosts, stack, toWorker, worker>> PROVE OneHostInv(h)'
  BY <1>4, <1>5, <1>t, HostUnmoved DEF worker
<1>6. CASE HandleConnected BY <1>5, <1>6 DEF HandleConnected
<1>7. CASE HandleProgress BY <1>5, <1>7 DEF HandleProgress, stores
<1>8. CASE HandleFailed BY <1>5, <1>8 DEF HandleFailed, stores
<1>9. CASE HandlePasswordRejected BY <1>5, <1>9 DEF HandlePasswordRejected, stores
<1>10. CASE HandleHostKey
  <2> DEFINE f == [kind |-> "dialog"]
  <2>1. /\ Deliver("hostKey") /\ stack' = Append(stack, f) /\ pendingKey' = Head(toGui).key
        /\ UNCHANGED <<knownHosts, toWorker, wjob, wstate>> BY <1>10 DEF HandleHostKey, stores, worker
  <2>2. f.kind = "dialog" OBVIOUS
  <2> HIDE DEF f
  <2>3. pendingKey' = HostKey[h] BY <1>4, <2>1 DEF OneHostInv, KeysAreOf
  <2>4. /\ Len(stack) \in Nat /\ DOMAIN stack = 1 .. Len(stack) /\ DOMAIN stack' = 1 .. Len(stack) + 1
        /\ \A i \in 1 .. Len(stack) : stack'[i] = stack[i]
        /\ stack'[Len(stack) + 1] = f BY <2>1, Behind DEF OneHostInv, TypeOK
  <2>5. DialogsOnTop' BY <2>4, <2>2 DEF OneHostInv, DialogsOnTop
  <2>6. KeysAreOf(h)' BY <1>4, <2>1, <2>3 DEF OneHostInv, KeysAreOf
  <2>7. RequestsAreFor(h)' BY <2>4, <2>1, <2>2 DEF OneHostInv, RequestsAreFor, Fits
  <2>8. ApprovalsAreVoid(h)' BY <1>k, <2>1, <2>3 DEF OneHostInv, ApprovalsAreVoid, Void
  <2> QED BY <1>t, <2>1, <2>5, <2>6, <2>7, <2>8 DEF OneHostInv
<1>11. ASSUME NEW approved \in BOOLEAN, AnswerHostKey(approved) PROVE OneHostInv(h)'
  <2> DEFINE e == [op |-> "approve", approved |-> approved]
  <2>1. /\ stack # <<>> /\ Top.kind = "dialog" /\ stack' = Pop /\ toWorker' = Append(toWorker, e)
        /\ pendingKey' = NoKey
        /\ UNCHANGED <<toGui, wjob, wstate>> BY <1>11 DEF AnswerHostKey, worker
  <2>k. knownHosts' = IF approved /\ pendingKey # NoKey THEN [knownHosts EXCEPT ![h] = pendingKey] ELSE knownHosts
    BY <1>11 DEF AnswerHostKey, AtHost
  <2>2. e.op = "approve" /\ e.approved = approved OBVIOUS
  <2> HIDE DEF e
  <2>3. /\ \A i \in DOMAIN Pop : i \in DOMAIN stack /\ Pop[i] = stack[i]
        /\ Len(stack) \in DOMAIN stack /\ Top = stack[Len(stack)]
    <3>1. /\ Pop \in Seq(Frames) /\ Len(stack) \in Nat \ {0} /\ Len(Pop) = Len(stack) - 1
          /\ \A i \in 1 .. Len(stack) - 1 : Pop[i] = stack[i] BY <2>1, TopAndPop DEF OneHostInv
    <3>2. DOMAIN Pop = 1 .. Len(Pop) BY <3>1, LenProperties
    <3>3. DOMAIN stack = 1 .. Len(stack) BY LenProperties DEF OneHostInv, TypeOK
    <3> QED BY <3>1, <3>2, <3>3 DEF Top
  <2>4. DialogsOnTop' BY <2>1, <2>3 DEF OneHostInv, DialogsOnTop
  <2>5. \/ knownHosts' = knownHosts /\ (approved => pendingKey = NoKey)
        \/ knownHosts'[h] = HostKey[h] BY <2>k DEF OneHostInv, TypeOK, KeysAreOf
  <2>6. KeysAreOf(h)' BY <2>1, <2>5 DEF OneHostInv, KeysAreOf
  <2>7. \A r : Fits(r, h) => Fits(r, h)' BY <2>5 DEF OneHostInv, KeysAreOf, Fits
  <2>8. \A i \in DOMAIN toWorker' : (i \in DOMAIN toWorker /\ toWorker'[i] = toWorker[i]) \/ toWorker'[i] = e
    BY <2>1, Requested DEF OneHostInv
  <2>9. RequestsAreFor(h)' BY <2>1, <2>3, <2>2, <2>8, <2>5 DEF OneHostInv, RequestsAreFor, Fits, KeysAreOf
  <2>10. ApprovalsAreVoid(h)'
    <3> SUFFICES ASSUME knownHosts'[h] = NoKey PROVE ApprovalsAreVoid(h)' BY DEF ApprovalsAreVoid
    <3>1. knownHosts[h] = NoKey /\ (approved => pendingKey = NoKey) BY <1>k, <2>5
    <3>2. PICK n : n = Len(toWorker) OBVIOUS
    <3>3. /\ n \in Nat /\ DOMAIN toWorker = 1 .. n /\ \A i \in 1 .. n + 1 : Void(i) => Void(i)'
      BY <2>1, <3>2, VoidAppend DEF OneHostInv
    <3>4. HasDialog BY <2>1, <2>3 DEF HasDialog
    <3>5. approved => NextIsVoid BY <3>1, <3>4 DEF OneHostInv, ApprovalsAreVoid
    <3>6. NextIsVoid' BY <2>1, <2>2, <3>5, NextVoidAppend DEF OneHostInv
    <3>7. ASSUME NEW i \in DOMAIN toWorker', toWorker'[i].op = "approve", toWorker'[i].approved PROVE Void(i)'
      <4>1. i \in 1 .. n \/ i = n + 1 BY <2>1, <3>2, <3>3, Requested DEF OneHostInv
      <4>2. CASE i \in 1 .. n BY <2>1, <3>3, <4>2, <3>1, <3>7, Requested DEF OneHostInv, ApprovalsAreVoid
      <4>3. CASE i = n + 1 BY <2>1, <3>2, <4>3, <2>2, <3>5, <3>7, <3>3, Requested DEF OneHostInv, NextIsVoid
      <4> QED BY <4>1, <4>2, <4>3
    <3> QED BY <3>6, <3>7 DEF ApprovalsAreVoid
  <2> QED BY <1>t, <2>1, <2>4, <2>5, <2>6, <2>9, <2>10 DEF OneHostInv
<1> QED BY <1>1, <1>2, <1>3, <1>6, <1>7, <1>8, <1>9, <1>10, <1>11 DEF GuiStep, AnswerStep

\* Voidness of all that is queued, and of what comes next, when the worker takes an event.
LEMMA VoidTaken ==
    ASSUME TypeOK, NEW op, Take(op),
           op = "connect" \/ wstate' = "idle" \/ (Head(toWorker).approved /\ wstate' = wstate)
    PROVE  /\ \A i \in DOMAIN toWorker' : Void(i + 1) => Void(i)'
           /\ NextIsVoid => NextIsVoid'
<1>1. toWorker \in Seq(WorkerEvents) /\ toWorker # <<>> /\ toWorker' = Tail(toWorker) BY DEF TypeOK, Take
<1>2. PICK n : n = Len(toWorker) OBVIOUS
<1>3. n \in Nat \ {0} /\ DOMAIN toWorker = 1 .. n /\ Len(toWorker') = n - 1 /\ DOMAIN toWorker' = 1 .. n - 1
  BY <1>1, <1>2, LenProperties, EmptySeq, HeadTailProperties
<1>4. ASSUME NEW i \in 1 .. n, Void(i + 1) PROVE Void(i)' BY <1>3, <1>4, VoidTake
<1>5. \A i \in DOMAIN toWorker' : i \in 1 .. n BY <1>3
<1>6. NextIsVoid => NextIsVoid' BY <1>2, <1>3, <1>4 DEF NextIsVoid, Void
<1> QED BY <1>4, <1>5, <1>6

\* What a step of the worker may not disturb, however it leaves its queue.
WorkerKeepsHost(h) ==
    /\ UNCHANGED <<pendingKey, knownHosts, stack>>
    /\ Fits(wjob, h)'
    /\ wstate' \in PastKey => knownHosts[h] = HostKey[h]
    /\ \A i \in DOMAIN toGui' :
          toGui'[i].type = "hostKey" => toGui'[i].key = HostKey[h] \/ \E k \in DOMAIN toGui : toGui[k] = toGui'[i]

\* The worker goes on with what it serves.
LEMMA HostWorks ==
    ASSUME NEW h, OneHostInv(h), TypeOK', WorkerKeepsHost(h), wstate # "idle", UNCHANGED toWorker
    PROVE  OneHostInv(h)'
<1>1. DialogsOnTop' BY DEF OneHostInv, DialogsOnTop, WorkerKeepsHost
<1>2. KeysAreOf(h)' BY DEF OneHostInv, KeysAreOf, WorkerKeepsHost
<1>3. RequestsAreFor(h)' BY DEF OneHostInv, RequestsAreFor, Fits, WorkerKeepsHost
<1>4. ApprovalsAreVoid(h)' BY DEF Void, NextIsVoid, HasDialog, WorkerKeepsHost, OneHostInv, ApprovalsAreVoid
<1> QED BY <1>1, <1>2, <1>3, <1>4 DEF OneHostInv, WorkerKeepsHost

\* The worker takes an event.
LEMMA HostTakes ==
    ASSUME NEW h, OneHostInv(h), TypeOK', WorkerKeepsHost(h), NEW op, Take(op),
           \/ op = "connect" \/ wstate' = "idle" \/ (Head(toWorker).approved /\ wstate' = wstate)
           \/ knownHosts[h] # NoKey
    PROVE  OneHostInv(h)'
<1>1. DialogsOnTop' BY DEF OneHostInv, DialogsOnTop, WorkerKeepsHost
<1>2. KeysAreOf(h)' BY DEF OneHostInv, KeysAreOf, WorkerKeepsHost
<1>q. \A i \in DOMAIN toWorker' : i \in Nat /\ i + 1 \in DOMAIN toWorker /\ toWorker'[i] = toWorker[i + 1]
  BY Rest DEF OneHostInv, TypeOK, Take
<1>3. RequestsAreFor(h)' BY <1>q DEF OneHostInv, RequestsAreFor, Fits, WorkerKeepsHost
<1>4. ApprovalsAreVoid(h)'
  <2> SUFFICES ASSUME knownHosts[h] = NoKey PROVE ApprovalsAreVoid(h)' BY DEF ApprovalsAreVoid, WorkerKeepsHost
  <2>1. /\ \A i \in DOMAIN toWorker' : Void(i + 1) => Void(i)'
        /\ NextIsVoid => NextIsVoid' BY VoidTaken DEF OneHostInv
  <2>2. HasDialog' <=> HasDialog BY DEF HasDialog, WorkerKeepsHost
  <2>3. \A i \in DOMAIN toWorker' : toWorker'[i].op = "approve" /\ toWorker'[i].approved => Void(i)'
    BY <1>q, <2>1 DEF OneHostInv, ApprovalsAreVoid
  <2> QED BY <2>1, <2>2, <2>3 DEF OneHostInv, ApprovalsAreVoid, WorkerKeepsHost
<1> QED BY <1>1, <1>2, <1>3, <1>4 DEF OneHostInv, WorkerKeepsHost

\* Reports carry no key.
LEMMA NoKeyReported ==
    ASSUME TypeOK, toGui' = toGui \/ \E type \in ReportTypes : toGui' = Report(type)
    PROVE  \A i \in DOMAIN toGui' : toGui'[i].type = "hostKey" => \E k \in DOMAIN toGui : toGui[k] = toGui'[i]
<1>1. ASSUME NEW type \in ReportTypes, toGui' = Report(type)
      PROVE  \A i \in DOMAIN toGui' : toGui'[i].type = "hostKey" => \E k \in DOMAIN toGui : toGui[k] = toGui'[i]
  <2> DEFINE e == [type |-> type, gen |-> wactive]
  <2>1. toGui' = Append(toGui, e) BY <1>1 DEF Report
  <2>e. e.type # "hostKey" BY DEF ReportTypes
  <2> HIDE DEF e
  <2>2. /\ Len(toGui) \in Nat /\ DOMAIN toGui = 1 .. Len(toGui)
        /\ DOMAIN toGui' = 1 .. Len(toGui) + 1
        /\ \A i \in 1 .. Len(toGui) : toGui'[i] = toGui[i]
        /\ toGui'[Len(toGui) + 1] = e BY <2>1, Behind DEF TypeOK
  <2>3. \A i \in DOMAIN toGui' : (i \in DOMAIN toGui /\ toGui'[i] = toGui[i]) \/ toGui'[i] = e BY <2>2
  <2> QED BY <2>e, <2>3
<1> QED BY <1>1

\* The worker asks about the key of h only, and goes past the key check of h
\* only when the user accepted that key.
LEMMA HostWorker ==
    ASSUME NEW h \in Hosts, OneHostInv(h), WorkerStep \/ TransportLost
    PROVE  OneHostInv(h)'
<1>t. TypeOK' BY TypeWorker DEF OneHostInv
<1>k. HostKey[h] # NoKey /\ knownHosts[h] \in {NoKey, HostKey[h]} /\ wjob.host = h /\ wjob.expected \in {NoKey, knownHosts[h]}
  BY AddressAssumption DEF OneHostInv, KeysAreOf, RequestsAreFor, Fits
<1>p. wstate \in PastKey => knownHosts[h] = HostKey[h] BY DEF OneHostInv
<1>g. UNCHANGED <<pendingKey, knownHosts, stack>>
  BY DEF gui, stores, WorkerStep, WorkerConnects, WorkerDisconnects, WorkerApproves, StageFails, TcpDone,
         HandshakeDone, AuthDone, ReportRejected, ShellDone, TransportLost
<1>w. ASSUME UNCHANGED wjob, wstate' \in PastKey => knownHosts[h] = HostKey[h],
             toGui' = toGui \/ \E type \in ReportTypes : toGui' = Report(type)
      PROVE  WorkerKeepsHost(h) BY <1>g, <1>k, <1>w, NoKeyReported DEF Fits, OneHostInv, WorkerKeepsHost
<1>1. CASE WorkerConnects
  <2>1. /\ Take("connect") /\ wjob' = Head(toWorker).request /\ wstate' \in {"idle", "tcp"}
        /\ toGui' = toGui \/ toGui' = Append(toGui, [type |-> "progress", gen |-> wactive'])
    BY <1>1 DEF WorkerConnects
  <2>2. 1 \in DOMAIN toWorker /\ toWorker[1] = Head(toWorker) /\ toWorker[1].op = "connect"
    BY <2>1, Rest DEF OneHostInv, TypeOK, Take
  <2>3. Fits(wjob, h)' BY <1>g, <2>1, <2>2 DEF OneHostInv, RequestsAreFor, Fits
  <2>4. \A i \in DOMAIN toGui' : toGui'[i].type = "hostKey" => \E k \in DOMAIN toGui : toGui[k] = toGui'[i]
    <3> DEFINE e == [type |-> "progress", gen |-> wactive']
    <3>1. toGui' = toGui \/ toGui' = Append(toGui, e) BY <2>1
    <3>e. e.type = "progress" OBVIOUS
    <3> HIDE DEF e
    <3>2. CASE toGui' = Append(toGui, e) BY <3>2, <3>e, Behind DEF OneHostInv, TypeOK
    <3> QED BY <3>1, <3>2
  <2>5. WorkerKeepsHost(h) BY <1>g, <2>1, <2>3, <2>4 DEF WorkerKeepsHost, PastKey
  <2> QED BY <1>t, <2>1, <2>5, HostTakes
<1>2. CASE WorkerDisconnects BY <1>2, <1>w, <1>t, HostTakes DEF WorkerDisconnects, Fail, PastKey, ReportTypes
<1>3. CASE WorkerApproves
  <2>1. Take("approve") /\ UNCHANGED wjob BY <1>3 DEF WorkerApproves
  <2>2. 1 \in DOMAIN toWorker /\ toWorker[1] = Head(toWorker) /\ toWorker[1].op = "approve"
    BY <2>1, Rest DEF OneHostInv, TypeOK, Take
  <2>3. CASE wstate # "waitKey"
    BY <1>3, <2>3, <1>p, <1>w, <2>1, <1>k, <1>t, HostTakes DEF WorkerApproves, Take, Resting, PastKey
  <2>4. CASE wstate = "waitKey" /\ Head(toWorker).approved
    <3>1. wstate' = "auth" /\ toGui' = Report("progress") BY <1>3, <2>4 DEF WorkerApproves
    <3>2. ~Void(1) BY <2>4 DEF Void
    <3>3. knownHosts[h] # NoKey BY <2>2, <2>4, <3>2 DEF OneHostInv, ApprovalsAreVoid
    <3>4. WorkerKeepsHost(h) BY <1>k, <1>w, <2>1, <3>1, <3>3 DEF ReportTypes
    <3> QED BY <1>t, <2>1, <3>3, <3>4, HostTakes
  <2>5. CASE wstate = "waitKey" /\ ~Head(toWorker).approved
    BY <1>3, <2>5, <1>w, <2>1, <1>t, HostTakes DEF WorkerApproves, Fail, PastKey, ReportTypes
  <2> QED BY <2>3, <2>4, <2>5
<1>4. CASE StageFails BY <1>4, <1>w, <1>t, HostWorks DEF StageFails, Fail, Busy, PastKey, ReportTypes
<1>5. CASE TcpDone BY <1>5, <1>w, <1>t, HostWorks DEF TcpDone, PastKey, ReportTypes
<1>6. CASE HandshakeDone
  <2>1. UNCHANGED <<wjob, toWorker>> /\ wstate # "idle" BY <1>6 DEF HandshakeDone
  <2>2. CASE wstate' = "waitKey" /\ toGui' = Append(Report("progress"), [type |-> "hostKey", key |-> HostKey[wjob.host]])
    <3> DEFINE k == [type |-> "hostKey", key |-> HostKey[wjob.host]]
    <3>1. k.type = "hostKey" /\ k.key = HostKey[h] BY <1>k
    <3>2. toGui' = Append(Report("progress"), k) BY <2>2
    <3> HIDE DEF k
    <3>3. Report("progress") \in Seq(GuiEvents) BY ReportType DEF OneHostInv
    <3> DEFINE q == Report("progress")
    <3>4. /\ Len(q) \in Nat /\ DOMAIN q = 1 .. Len(q) /\ DOMAIN toGui' = 1 .. Len(q) + 1
          /\ \A i \in 1 .. Len(q) : toGui'[i] = q[i]
          /\ toGui'[Len(q) + 1] = k
      <4> HIDE DEF q
      <4> QED BY <3>2, <3>3, Behind DEF q
    <3>5. \A i \in DOMAIN toGui' : (i \in DOMAIN q /\ toGui'[i] = q[i]) \/ toGui'[i] = k
      <4> HIDE DEF q
      <4> QED BY <3>4
    <3>6. \A i \in DOMAIN q : q[i].type = "hostKey" => \E j \in DOMAIN toGui : toGui[j] = q[i]
      <4> DEFINE e == [type |-> "progress", gen |-> wactive]
      <4>1. q = Append(toGui, e) BY DEF Report
      <4>e. e.type = "progress" OBVIOUS
      <4> HIDE DEF e, q
      <4>2. /\ Len(toGui) \in Nat /\ DOMAIN toGui = 1 .. Len(toGui)
            /\ DOMAIN q = 1 .. Len(toGui) + 1
            /\ \A i \in 1 .. Len(toGui) : q[i] = toGui[i]
            /\ q[Len(toGui) + 1] = e BY <4>1, Behind DEF OneHostInv, TypeOK
      <4>3. \A i \in DOMAIN q : (i \in DOMAIN toGui /\ q[i] = toGui[i]) \/ q[i] = e BY <4>2
      <4> QED BY <4>e, <4>3
    <3> HIDE DEF q
    <3>7. \A i \in DOMAIN toGui' :
             toGui'[i].type = "hostKey" => toGui'[i].key = HostKey[h] \/ \E j \in DOMAIN toGui : toGui[j] = toGui'[i]
      BY <3>1, <3>5, <3>6
    <3>8. Fits(wjob, h)' BY <1>g, <1>k, <2>1 DEF Fits
    <3>9. WorkerKeepsHost(h) BY <1>g, <2>2, <3>7, <3>8 DEF WorkerKeepsHost, PastKey
    <3> QED BY <1>t, <2>1, <3>9, HostWorks
  <2>3. CASE wjob.expected = HostKey[wjob.host] /\ wstate' = "auth" /\ toGui' = Report("progress")
    BY <1>k, <2>3, <1>w, <2>1, <1>t, HostWorks DEF ReportTypes
  <2>4. CASE Fail BY <2>4, <1>w, <2>1, <1>t, HostWorks DEF Fail, PastKey, ReportTypes
  <2> QED BY <1>6, <2>2, <2>3, <2>4 DEF HandshakeDone
<1>7. CASE AuthDone BY <1>7, <1>p, <1>w, <1>t, HostWorks DEF AuthDone, PastKey, ReportTypes
<1>8. CASE ReportRejected BY <1>8, <1>p, <1>w, <1>t, HostWorks DEF ReportRejected, PastKey, ReportTypes
<1>9. CASE ShellDone BY <1>9, <1>p, <1>w, <1>t, HostWorks DEF ShellDone, PastKey, ReportTypes
<1>10. CASE TransportLost BY <1>10, <1>w, <1>t, HostWorks DEF TransportLost, Fail, PastKey, ReportTypes
<1> QED BY <1>1, <1>2, <1>3, <1>4, <1>5, <1>6, <1>7, <1>8, <1>9, <1>10 DEF WorkerStep

\* At the start nothing is known or under way at the host.
LEMMA HostInit ==
    ASSUME NEW h \in Hosts, Init, AtHost(h)
    PROVE  OneHostInv(h)
<1>1. TypeOK BY TypeInit
<1>2. toWorker = <<>> /\ toGui = <<>> /\ stack = <<>> /\ wstate = "idle" /\ pendingKey = NoKey BY DEF Init
<1>3. DOMAIN toWorker = {} /\ DOMAIN toGui = {} /\ DOMAIN stack = {} BY <1>2
<1>4. knownHosts[h] = NoKey /\ Fits(wjob, h) BY DEF Init, AtHost, Fits
<1>5. DialogsOnTop /\ ~HasDialog BY <1>3 DEF DialogsOnTop, HasDialog
<1>6. KeysAreOf(h) BY <1>2, <1>3, <1>4 DEF KeysAreOf
<1>7. RequestsAreFor(h) BY <1>3, <1>4 DEF RequestsAreFor
<1>8. ApprovalsAreVoid(h) BY <1>3, <1>5 DEF ApprovalsAreVoid
<1> QED BY <1>1, <1>2, <1>5, <1>6, <1>7, <1>8 DEF OneHostInv, PastKey

\* Every step, of whichever thread, keeps what is known of one host.
LEMMA HostStep ==
    ASSUME NEW h \in Hosts, OneHostInv(h), AtHost(h), [Next]_vars
    PROVE  OneHostInv(h)'
<1>1. CASE UserStep \/ IdleTimeout BY <1>1, HostUser
<1>2. CASE GuiStep \/ AnswerStep BY <1>2, HostGui
<1>3. CASE WorkerStep \/ TransportLost BY <1>3, HostWorker
<1>4. CASE UNCHANGED vars BY <1>4, TypeStep, HostUnmoved DEF vars, stores, worker, OneHostInv
<1> QED BY <1>1, <1>2, <1>3, <1>4 DEF Next

\* While the profile keeps one address, credentials leave only for a host whose
\* key the user accepted for it, whatever is queued from earlier attempts.
LEMMA OneHostSafe ==
    ASSUME NEW h \in Hosts
    PROVE  Spec => ([](profile.host = h /\ row.host = h) => []AuthenticatesKnownKey)
<1>1. Init /\ AtHost(h) => OneHostInv(h) BY HostInit
<1>2. OneHostInv(h) /\ AtHost(h) /\ [Next]_vars => OneHostInv(h)' BY HostStep
<1>3. OneHostInv(h) => AuthenticatesKnownKey
  BY DEF OneHostInv, AuthenticatesKnownKey, PastKey, RequestsAreFor, Fits
<1>4. profile.host = h /\ row.host = h <=> AtHost(h) BY DEF AtHost
<1> QED BY <1>1, <1>2, <1>3, <1>4, PTL DEF Spec

\* A secret is sent only under a host key accepted for its address, and kept
\* only for an address that accepted it.
THEOREM SecretsSafe == Spec => SecretsAreSafe
<1>1. Spec => OneAddressIsSafe
  <2> SUFFICES ASSUME Spec, NEW h \in FirstHosts
               PROVE  [](profile.host = h /\ row.host = h) => []AuthenticatesKnownKey BY DEF OneAddressIsSafe
  <2> QED BY OneHostSafe, AddressAssumption
<1> QED BY <1>1, SecretsRemembered DEF SecretsAreSafe

=============================================================================
