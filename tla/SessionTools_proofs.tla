-------------------------- MODULE SessionTools_proofs --------------------------
(***************************************************************************)
(* Proofs about SessionTools, for any finite set of hosts, any clients of  *)
(* the agent and any number of jobs, launches and acts.  A state is Sound  *)
(* when whoever waits for a call owns the slot, and waits alone, a client  *)
(* is told once (SlotInv), a job under way is the saved one of its host,   *)
(* or nothing refers to it any more, and the dialogs follow theirs         *)
(* (InstallInv), and a helper holds a process that it has seen to be the   *)
(* right one (SignalInv).  Every operator that the actions are built from  *)
(* has a lemma on what it changes (...Changes), one on the slot (...Owns), *)
(* and each action one on the whole (...Keeps), from which the invariant   *)
(* follows (Invariance).  No owner is then left without a call             *)
(* (AlwaysBacked), no host has two installations at work that are both     *)
(* still referred to (OneInstallAtATime), no signal hits another process   *)
(* (SignalsReach), and only what the user approved is submitted for the    *)
(* agent, and only the owner of a call gives it up (AgentInBounds).        *)
(***************************************************************************)
EXTENDS SessionTools, FiniteSetTheorems, TLAPS

\* The values of a state.  Of a call: what it asks, for whom, and how it was answered.
Phases == {"starting", "running", "succeeded", "failed", "unknown"}
Answers == {"none", "error", "result"} \cup Phases
Queries == {"search", "plan", "install", "status"}
Kinds == {"processes", "interfaces", "signal", "speed"}
Calls == [id : Nat \ {0}, what : {"command"} \cup Queries \cup Kinds, who : Nat, ans : Answers]
\* Of a question, a client of the agent and the two dialogs.
Questions == [kind : {"command", "plan", "forget", "signal", "speed"}, who : Nat, host : Hosts]
SocketStates == [state : {"none", "open", "closed"}, token : Int, asked : BOOLEAN, req : Nat,
                 reply : Nat \cup {Refused}, said : Nat]
Dialogs == [target : Hosts \cup {NoHost}, visible : BOOLEAN, request : Nat, op : {"none"} \cup Queries,
            ignore : BOOLEAN, job : Jobs \cup {NoJob}, active : BOOLEAN, unknown : BOOLEAN,
            timer : BOOLEAN, listed : BOOLEAN]
ToolStates == [open : BOOLEAN, tab : {0, 1}, request : Nat, op : {"none"} \cup Kinds, page : {0, 1},
               auto : BOOLEAN, again : BOOLEAN, cancel : BOOLEAN, shown : Nat]
\* Of the dialog of another pane.
Others == [target : Hosts \cup {NoHost}, job : Jobs \cup {NoJob}, active : BOOLEAN]
\* Of a job on the server and of the helper of a signal.
JobStates == [host : Hosts \cup {NoHost}, phase : {"none"} \cup Phases,
              sup : {"none", "new", "alive", "gone"}, pkg : {"none", "alive", "ended"}]
Helpers == [stage : {"none", "sent", "opened", "checked", "ended"}, host : Hosts \cup {NoHost},
            want : Nat, handle : Nat]
\* Of all of it; only the calls, the questions and the numbers are unbounded.
State == [up : BOOLEAN, connecting : BOOLEAN, host : Hosts, slot : Nat, flag : BOOLEAN, desired : Nat,
          calls : SUBSET Calls, modals : Seq(Questions), running : BOOLEAN, run : 0 .. MaxLaunches,
          pending : Nat, client : Sockets \cup {0}, socks : [Sockets -> SocketStates],
          dialog : Dialogs, tools : ToolStates, other : Others, saved : [Hosts -> Jobs \cup {NoJob}],
          jobs : [Jobs -> JobStates], wire : SUBSET Jobs, forgotten : SUBSET Jobs,
          procs : [Hosts -> Nat], helper : Helpers, struck : BOOLEAN]

Fields == {"up", "connecting", "host", "slot", "flag", "desired", "calls", "modals", "running", "run",
           "pending", "client", "socks", "dialog", "tools", "other", "saved", "jobs", "wire", "forgotten",
           "procs", "helper", "struck"}

\* A step from s to r touches no more than the fields of F.
Changes(s, r, F) == r \in State /\ \A f \in Fields \ F : r[f] = s[f]


\* The inductive invariant.

\* The questions: one of a command and one of a plan at most, on top of one that the user asked for.
Questioned(s) ==
    /\ \A i, k \in DOMAIN s.modals : s.modals[i].kind = s.modals[k].kind => i = k
    /\ \A i \in DOMAIN s.modals :
          /\ s.modals[i].kind \notin {"command", "plan"} => i = Len(s.modals)
          /\ s.modals[i].kind = "plan" => s.dialog.request = 0 \/ s.dialog.op # "plan"

\* The calls have numbers of their own, and the one in the slot is one of them.
Numbered(s) ==
    /\ \A c, d \in s.calls : c.id = d.id => c = d
    /\ s.slot # 0 => \E c \in s.calls : c.id = s.slot

\* Who waits owns the slot, and waits alone.
Owned(s) ==
    /\ s.pending # 0 => s.slot = s.pending /\ s.flag
    /\ s.dialog.request # 0 => s.slot = s.dialog.request
    /\ s.tools.request # 0 => s.slot = s.tools.request
    /\ s.pending = 0 \/ (s.dialog.request = 0 /\ s.tools.request = 0)
    /\ s.dialog.request = 0 \/ s.tools.request = 0

\* A client is told nothing before its line was read, its question answered and its command run.
Untold(s, k) == s.socks[k].reply = 0 /\ s.socks[k].said = 0
\* A client is told its own result or an error, and once.
ToldOnce(s, k) ==
    /\ s.socks[k].reply \in {0, Refused, k} /\ s.socks[k].said <= 1
    /\ s.socks[k].asked => Untold(s, k) /\ s.socks[k].req = 0
\* The client that a question is about was told nothing, and belongs to the present launch.
Asked(s) ==
    \A i \in DOMAIN s.modals : s.modals[i].kind = "command" =>
        /\ s.modals[i].who \in Sockets
        /\ LET k == s.modals[i].who IN
           /\ Untold(s, k) /\ s.socks[k].req = 0 /\ ~s.socks[k].asked /\ s.socks[k].state # "none"
           /\ s.socks[k].token = s.run
\* Nor was the client whose command is pending; that command is its own.
Waiting(s) == s.pending # 0 => \A k \in Sockets : s.socks[k].req = s.pending => Untold(s, k)
Running(s) ==
    s.pending # 0 => \A c \in s.calls : c.id = s.pending =>
        c.what = "command" /\ \A k \in Sockets : s.socks[k].req = s.pending => k = c.who
\* What holds of the clients.
SocketsFit(s) == Asked(s) /\ Waiting(s) /\ Running(s) /\ \A k \in Sockets : ToldOnce(s, k)
\* Nobody waits for a call that is not his, and nobody is told twice.
SlotCore(s) == IsFiniteSet(s.calls) /\ Questioned(s) /\ Numbered(s) /\ Owned(s) /\ SocketsFit(s) /\ ~(s.up /\ s.connecting)

\* The dialog waits for a call of the host it was opened for.
Attached(s) == s.dialog.request # 0 => s.up /\ s.dialog.target = s.host /\ s.dialog.op # "none"
\* The same, with what the dialog waits for.
SlotInv(s) == SlotCore(s) /\ Attached(s)

\* The installations.
Over(job) == job.phase \in {"succeeded", "failed"}
\* A job has a host once it was approved, has not begun while it is on the wire, and is over
\* only when nobody works on it; no call reports the end of another.
JobsFit(s) ==
    /\ \A j \in Jobs :
        /\ s.jobs[j].host = NoHost => s.jobs[j].sup = "none" /\ j \notin s.wire
        /\ s.jobs[j].sup = "none" \/ j \in s.wire => s.jobs[j].sup = "none" /\ s.jobs[j].phase = "none" /\ s.jobs[j].pkg = "none"
        /\ Over(s.jobs[j]) => ~Working(s, j)
    /\ \A c \in s.calls : /\ c.what = "status" => c.who \in Jobs
                          /\ Over([phase |-> c.ans]) => c.who \in Jobs /\ Over(s.jobs[c.who])
\* A job that is under way is the saved one of its host, unless the user has forgotten it.
Saved(s) ==
    /\ \A h \in Hosts : s.saved[h] # NoJob => s.jobs[s.saved[h]].host = h
    /\ \A j \in Jobs : Working(s, j) => j \in s.forgotten \/ s.saved[s.jobs[j].host] = j
\* The dialogs follow their jobs until they have seen the end of them.
Followed(s) ==
    /\ s.dialog.job = NoJob \/ s.dialog.active \/ Over(s.jobs[s.dialog.job])
    /\ s.other.job = NoJob \/ s.other.active \/ Over(s.jobs[s.other.job])
\* Hence a new plan never finds another installation at work.
InstallInv(s) == JobsFit(s) /\ Saved(s) /\ Followed(s)

\* The signals.
SignalInv(s) ==
    /\ ~s.struck
    /\ s.helper.stage # "none" => s.helper.host \in Hosts
    /\ s.helper.stage = "opened" => s.helper.handle = s.helper.want \/ s.procs[s.helper.host] # s.helper.want
    /\ s.helper.stage = "checked" => s.helper.handle = s.helper.want

\* A sound state.
Sound(s) == s \in State /\ SlotInv(s) /\ InstallInv(s) /\ SignalInv(s)
IInv == Sound(t) /\ acts \in 0 .. MaxActs

----
(* Numbers that nothing refers to. *)

\* Among the numbers 1 .. n + 1 there is one outside a finite set of n elements.
LEMMA UnusedIsNew ==
    ASSUME NEW S, IsFiniteSet(S)
    PROVE  Unused(S) \in Nat \ {0} /\ Unused(S) \notin S
<1> DEFINE N == 1 .. (Cardinality(S) + 1)
<1>1. Cardinality(S) \in Nat BY FS_CardinalityType
<1>2. IsFiniteSet(N) /\ Cardinality(N) = Cardinality(S) + 1 BY <1>1, FS_Interval
<1>3. ~(N \subseteq S) BY <1>1, <1>2, FS_Subset
<1>4. \E n \in N : n \notin S BY <1>3
<1>5. Unused(S) \in N /\ Unused(S) \notin S BY <1>4 DEF Unused
<1> QED BY <1>1, <1>5

\* What a pane refers to is finite, so that there is always a number for a new call.
LEMMA InUseIsFinite ==
    ASSUME NEW s \in State, IsFiniteSet(s.calls)
    PROVE  IsFiniteSet(InUse(s))
<1> DEFINE ids == {c.id : c \in s.calls}
           f == [c \in s.calls |-> c.id]
           reqs == {s.socks[k].req : k \in Sockets}
           g == [k \in Sockets |-> s.socks[k].req]
           few == {s.slot, s.pending, s.dialog.request, s.tools.request}
<1>1. f \in Surjection(s.calls, ids) BY DEF Surjection
<1>2. IsFiniteSet(ids) BY <1>1, FS_Surjection
<1>3. g \in Surjection(Sockets, reqs) BY DEF Surjection
<1>4. IsFiniteSet(Sockets) BY SlotAssumption, FS_Interval DEF Sockets
<1>5. IsFiniteSet(reqs) BY <1>3, <1>4, FS_Surjection
<1>6. IsFiniteSet(few)
  <2>1. IsFiniteSet({s.slot}) BY FS_Singleton
  <2>2. IsFiniteSet({s.slot} \cup {s.pending}) BY <2>1, FS_AddElement
  <2>3. IsFiniteSet({s.slot} \cup {s.pending} \cup {s.dialog.request}) BY <2>2, FS_AddElement
  <2>4. IsFiniteSet({s.slot} \cup {s.pending} \cup {s.dialog.request} \cup {s.tools.request})
    BY <2>3, FS_AddElement
  <2>5. few = {s.slot} \cup {s.pending} \cup {s.dialog.request} \cup {s.tools.request} OBVIOUS
  <2> QED BY <2>4, <2>5
<1>7. IsFiniteSet(ids \cup few) BY <1>2, <1>6, FS_Union
<1>8. IsFiniteSet(ids \cup few \cup reqs) BY <1>5, <1>7, FS_Union
<1> QED BY <1>8 DEF InUse

\* A call that is submitted has a number of its own and takes the slot.
LEMMA SubmitTakesSlot ==
    ASSUME NEW s \in State, IsFiniteSet(s.calls),
           NEW what \in {"command"} \cup Queries \cup Kinds, NEW who \in Nat,
           NEW r, r = Submit(s, what, who)
    PROVE  /\ Changes(s, r, {"slot", "desired", "calls"})
           /\ r.slot \in Nat \ {0} /\ r.slot \notin InUse(s) /\ r.desired = r.slot
           /\ r.calls = s.calls \cup {Call(r.slot, what, who)} /\ IsFiniteSet(r.calls)
<1> DEFINE id == FreshId(s)
<1>1. id \in Nat \ {0} /\ id \notin InUse(s) BY InUseIsFinite, UnusedIsNew DEF FreshId
<1>2. r = [s EXCEPT !.slot = id, !.desired = id, !.calls = @ \cup {Call(id, what, who)}] BY DEF Submit
<1> HIDE DEF id
<1>3. Call(id, what, who) \in Calls BY <1>1 DEF Call, Calls, Answers
<1>4. /\ Changes(s, r, {"slot", "desired", "calls"})
      /\ r.slot = id /\ r.desired = id /\ r.calls = s.calls \cup {Call(id, what, who)}
  <2>1. s.calls \cup {Call(id, what, who)} \in SUBSET Calls BY <1>3 DEF State
  <2>2. r \in State BY <1>1, <1>2, <2>1 DEF State
  <2>3. r.slot = id /\ r.desired = id /\ r.calls = s.calls \cup {Call(id, what, who)} BY <1>2 DEF State
  <2>4. \A f \in Fields \ {"slot", "desired", "calls"} : r[f] = s[f] BY <1>2 DEF State, Fields
  <2> QED BY <2>2, <2>3, <2>4 DEF Changes
<1>5. IsFiniteSet(s.calls \cup {Call(id, what, who)}) BY FS_AddElement
<1> QED BY <1>1, <1>4, <1>5

----
(* What each operator may change. *)

\* A call that a tool other than the agent submits.
Plain(c) == c.ans = "none" /\ c.what # "command" /\ (c.what = "status" => c.who \in Jobs)
GrowsBy(s, r) == \A c \in r.calls \ s.calls : Plain(c)

\* A slot that is taken stays as it is; one that is free may be taken by a new call.
SlotKept(s, r) ==
    IF s.slot = 0 THEN r.slot = 0 \/ r.desired = r.slot ELSE r.slot = s.slot /\ r.desired = s.desired

\* Tidied clears away clients that have closed, and nothing else.
LEMMA TidiedChanges ==
    ASSUME NEW s \in State
    PROVE  /\ Changes(s, Tidied(s), {"socks"})
           /\ \A k \in Sockets : Tidied(s).socks[k] \in {s.socks[k], NoSocket}
           /\ \A k \in Sockets : Tidied(s).socks[k] = s.socks[k] \/ s.socks[k].state = "closed"
<1> PICK r : r = Tidied(s) OBVIOUS
<1> PICK f : f = r.socks OBVIOUS
<1>1. /\ r = [s EXCEPT !.socks = f] /\ DOMAIN f = Sockets /\ f = [k \in Sockets |-> f[k]]
      /\ \A k \in Sockets : f[k] \in {s.socks[k], NoSocket} /\ (f[k] = s.socks[k] \/ s.socks[k].state = "closed")
  BY DEF Tidied, State
<1>2. NoSocket \in SocketStates /\ s.socks \in [Sockets -> SocketStates] BY DEF NoSocket, SocketStates, State
<1>3. f \in [Sockets -> SocketStates] BY <1>1, <1>2
<1>4. Changes(s, r, {"socks"}) BY <1>1, <1>3 DEF Changes, State, Fields
<1> QED BY <1>1, <1>4

\* Giving up a call clears the number that is desired, and nothing else.
LEMMA CancelChanges ==
    ASSUME NEW s \in State, NEW id \in Nat
    PROVE  /\ Changes(s, Cancel(s), {"desired"})
           /\ Changes(s, CancelAgentCommand(s), {"desired"})
           /\ Changes(s, CancelServerTool(s, id), {"desired"})
           /\ Changes(s, CancelTools(s), {"desired"})
BY DEF Changes, State, Fields, Cancel, CancelAgentCommand, CancelServerTool, CancelTools

\* A reply concerns the clients.
LEMMA ReplyChanges ==
    ASSUME NEW s \in State, NEW k \in Sockets, NEW what \in Nat \cup {Refused}
    PROVE  Changes(s, Reply(s, k, what), {"socks"})
<1> DEFINE sock == [s.socks[k] EXCEPT !.reply = what, !.said = @ + 1]
           told == [s.socks EXCEPT ![k] = sock]
<1>0. s.socks[k] \in SocketStates BY DEF State
<1>1. sock \in SocketStates
  <2> PICK x \in SocketStates : x = s.socks[k] BY <1>0
  <2>1. sock = [x EXCEPT !.reply = what, !.said = x.said + 1] OBVIOUS
  <2>2. x.said + 1 \in Nat BY DEF SocketStates
  <2> QED BY <2>1, <2>2 DEF SocketStates
<1>2. Reply(s, k, what) = IF Open(s, k) THEN [s EXCEPT !.socks = told] ELSE s BY DEF Reply, State, SocketStates
<1> HIDE DEF sock
<1>3. told \in [Sockets -> SocketStates] BY <1>1 DEF State
<1> HIDE DEF told
<1> QED BY <1>2, <1>3 DEF Changes, State, Fields

\* A client that closes may take its command with it.
LEMMA ClosedChanges ==
    ASSUME NEW s \in State, NEW k \in Sockets
    PROVE  Changes(s, Closed(s, k), {"socks", "client", "desired"})
<1> DEFINE shut == [s.socks EXCEPT ![k].state = "closed"]
           gone == [s EXCEPT !.socks = shut, !.client = IF @ = k THEN 0 ELSE @]
<1>1. shut \in [Sockets -> SocketStates] BY DEF State, SocketStates
<1>2. Closed(s, k) \in {gone, CancelAgentCommand(gone)} BY DEF Closed
<1> HIDE DEF shut
<1>3. Changes(s, gone, {"socks", "client"}) BY <1>1 DEF Changes, State, Fields
<1> HIDE DEF gone
<1>4. Changes(gone, CancelAgentCommand(gone), {"desired"}) BY <1>3, CancelChanges DEF Changes
<1> QED BY <1>2, <1>3, <1>4 DEF Changes, Fields

\* The end of the agent concerns its clients and its command.
LEMMA AgentEndedChanges ==
    ASSUME NEW s \in State
    PROVE  Changes(s, AgentEnded(s), {"running", "socks", "client", "desired"})
<1> DEFINE off == [s EXCEPT !.running = FALSE]
           given == IF off.pending # 0 THEN CancelAgentCommand(off) ELSE off
<1>1. Changes(s, off, {"running"}) BY DEF Changes, State, Fields
<1>2. Changes(off, given, {"desired"}) BY <1>1, CancelChanges DEF Changes
<1> HIDE DEF off, given
<1>3. given.client # 0 => given \in State /\ given.client \in Sockets BY <1>2 DEF Changes, State
<1>4. given.client # 0 => Changes(given, Closed(given, given.client), {"socks", "client", "desired"})
  BY <1>3, ClosedChanges
<1>5. AgentEnded(s) = IF given.client # 0 THEN Closed(given, given.client) ELSE given
  BY DEF AgentEnded, given, off
<1> QED BY <1>1, <1>2, <1>4, <1>5 DEF Changes, Fields

\* A line that a client has sent opens a question or is answered.
LEMMA HandleBridgeRequestChanges ==
    ASSUME NEW s \in State, NEW k \in Sockets
    PROVE  Changes(s, HandleBridgeRequest(s, k), {"socks", "client", "modals", "desired"})
<1> DEFINE r == [s EXCEPT !.socks[k].asked = FALSE]
           told == Reply(r, k, Refused)
           asking == Question("command", k, r.host)
<1>0. [s.socks EXCEPT ![k].asked = FALSE] \in [Sockets -> SocketStates] BY DEF State, SocketStates
<1>1. Changes(s, r, {"socks"}) BY <1>0 DEF Changes, State, Fields
<1>2. Changes(r, told, {"socks"}) BY <1>1, ReplyChanges DEF Changes, Refused
<1>3. Changes(told, Closed(told, k), {"socks", "client", "desired"}) BY <1>2, ClosedChanges DEF Changes
<1>4. asking \in Questions BY <1>1 DEF Question, Questions, Changes, State, Sockets
<1>5. <<asking>> \o r.modals \in Seq(Questions) BY <1>1, <1>4 DEF Changes, State
<1>6. Changes(r, Ask([r EXCEPT !.client = k], asking), {"client", "modals"})
  BY <1>1, <1>5 DEF Changes, State, Fields, Ask
<1> HIDE DEF r, told, asking
<1>7. HandleBridgeRequest(s, k) \in {Closed(told, k), told, Ask([r EXCEPT !.client = k], asking)}
  BY DEF HandleBridgeRequest, r, told, asking
<1> QED BY <1>1, <1>2, <1>3, <1>6, <1>7 DEF Changes, Fields

\* The question on top is taken off.
Rest(s) == [s EXCEPT !.modals = Tail(@)]

\* The question on top is one of the questions, and so are the others.
LEMMA TailChanges ==
    ASSUME NEW s \in State, s.modals # <<>>
    PROVE  /\ Changes(s, Rest(s), {"modals"}) /\ Rest(s).modals = Tail(s.modals)
           /\ Head(s.modals) \in Questions
<1>1. s.modals \in Seq(Questions) BY DEF State
<1>2. Tail(s.modals) \in Seq(Questions) /\ Head(s.modals) \in Questions BY <1>1
<1> QED BY <1>2 DEF Changes, State, Fields, Rest

\* The decision about a command concerns its client, and may submit the command.
LEMMA DecidedChanges ==
    ASSUME NEW s \in State, IsFiniteSet(s.calls), NEW yes \in BOOLEAN, NEW free \in BOOLEAN,
           s.modals # <<>>, Head(s.modals).who \in Sockets
    PROVE  /\ Changes(s, Decided(s, yes, free),
                      {"modals", "socks", "calls", "slot", "desired", "flag", "pending"})
           /\ IsFiniteSet(Decided(s, yes, free).calls)
<1> DEFINE q == Head(s.modals)
           r == Rest(s)
           sub == Submit(r, "command", q.who)
           ran == RunAgentCommand(r, q.who)
           told == Reply(r, q.who, Refused)
           done == [ran EXCEPT !.pending = ran.slot, !.socks[q.who].req = ran.slot]
<1>1. Changes(s, r, {"modals"}) /\ q \in Questions /\ q.who \in Sockets /\ r.calls = s.calls
  BY TailChanges DEF Changes, Fields
<1> HIDE DEF r, q
<1>2. Changes(r, told, {"socks"}) BY <1>1, ReplyChanges DEF Changes
<1>3. Changes(r, sub, {"slot", "desired", "calls"}) /\ IsFiniteSet(sub.calls)
  BY <1>1, SubmitTakesSlot DEF Changes, Sockets
<1> HIDE DEF sub, told
<1>4. ran = [sub EXCEPT !.flag = TRUE] BY DEF RunAgentCommand, sub
<1>5. Changes(sub, ran, {"flag"}) /\ ran.calls = sub.calls BY <1>3, <1>4 DEF Changes, State, Fields
<1> HIDE DEF ran
<1>6. [ran.socks EXCEPT ![q.who].req = ran.slot] \in [Sockets -> SocketStates]
  <2>1. ran.socks \in [Sockets -> SocketStates] /\ ran.slot \in Nat BY <1>5 DEF Changes, State
  <2> QED BY <1>1, <2>1 DEF SocketStates
<1>7. Changes(ran, done, {"pending", "socks"}) /\ done.calls = ran.calls
  BY <1>1, <1>5, <1>6 DEF Changes, State, Fields
<1> HIDE DEF done
<1>8. Decided(s, yes, free) \in {r, told, done} BY DEF Decided, Rest, r, told, ran, done, q
<1>9. \A x \in {r, told, done} : Changes(s, x, {"modals", "socks", "calls", "slot", "desired", "flag", "pending"})
  BY <1>1, <1>2, <1>3, <1>5, <1>7 DEF Changes, Fields
<1>10. told.calls = s.calls BY <1>1, <1>2 DEF Changes, Fields
<1> QED BY <1>1, <1>3, <1>5, <1>7, <1>8, <1>9, <1>10

----
(* The same for the software dialog. *)

\* A request of the dialog leaves what it is for alone.
SameJob(s, r) == r.dialog.job = s.dialog.job /\ r.dialog.target = s.dialog.target /\ r.dialog.active = s.dialog.active

\* A request of the dialog takes the slot when it is free, or changes nothing.
LEMMA RequestChanges ==
    ASSUME NEW s \in State, IsFiniteSet(s.calls), NEW op \in Queries, NEW who \in Nat, NEW free \in BOOLEAN,
           op = "status" => who \in Jobs,
           NEW x, x = Request(s, op, who, free),
           NEW r, r = Submit(s, op, who)
    PROVE  /\ Changes(s, x, {"slot", "desired", "calls", "dialog"})
           /\ IsFiniteSet(x.calls) /\ GrowsBy(s, x) /\ SameJob(s, x) /\ SlotKept(s, x)
           /\ \/ x = s
              \/ /\ s.dialog.request = 0 /\ ConnectedToTarget(s) /\ CanRun(s, free)
                 /\ x.slot = r.slot /\ x.calls = r.calls /\ x.dialog.request = r.slot /\ x.dialog.op = op
<1> DEFINE d == [s.dialog EXCEPT !.request = r.slot, !.op = op, !.ignore = FALSE]
           sent == [r EXCEPT !.dialog = d]
<1>1. /\ Changes(s, r, {"slot", "desired", "calls"}) /\ IsFiniteSet(r.calls)
      /\ r.calls = s.calls \cup {Call(r.slot, op, who)} /\ r.slot \in Nat \ {0} /\ r.desired = r.slot
  <2>1. op \in {"command"} \cup Queries \cup Kinds OBVIOUS
  <2> QED BY <2>1, SubmitTakesSlot
<1>2. d \in Dialogs
  <2> PICK o \in Dialogs : o = s.dialog BY DEF State
  <2>1. d = [o EXCEPT !.request = r.slot, !.op = op, !.ignore = FALSE] OBVIOUS
  <2> PICK n \in Nat : n = r.slot BY <1>1
  <2>2. [o EXCEPT !.request = n, !.op = op, !.ignore = FALSE] \in Dialogs BY DEF Dialogs
  <2> QED BY <2>1, <2>2
<1>3. d.job = s.dialog.job /\ d.target = s.dialog.target /\ d.active = s.dialog.active /\ d.request = r.slot
      /\ d.op = op BY DEF State, Dialogs
<1>4. r.dialog = s.dialog BY <1>1 DEF Changes, Fields
<1>5. x = IF s.dialog.request # 0 \/ ~ConnectedToTarget(s) \/ ~CanRun(s, free) THEN s ELSE sent
  BY <1>4 DEF Request
<1> HIDE DEF d
<1>6. /\ Changes(r, sent, {"dialog"}) /\ sent.calls = r.calls /\ sent.dialog = d
      /\ sent.slot = r.slot /\ sent.desired = r.desired BY <1>1, <1>2 DEF Changes, State, Fields
<1>7. GrowsBy(s, sent) BY <1>1, <1>6 DEF GrowsBy, Plain, Call, Queries
<1> HIDE DEF sent
<1>8. GrowsBy(s, s) /\ SameJob(s, s) /\ SameJob(s, sent) BY <1>3, <1>6 DEF GrowsBy, SameJob
<1>9. SlotKept(s, x) BY <1>1, <1>5, <1>6 DEF SlotKept, CanRun
<1>10. \A y \in {s, sent} : Changes(s, y, {"slot", "desired", "calls", "dialog"}) /\ IsFiniteSet(y.calls)
  BY <1>1, <1>6 DEF Changes, Fields
<1> QED BY <1>3, <1>5, <1>6, <1>7, <1>8, <1>9, <1>10

\* What a query of the dialog may change, and what it leaves as it is.
Queried(s, r) ==
    /\ Changes(s, r, {"slot", "desired", "calls", "dialog"}) /\ IsFiniteSet(r.calls)
    /\ GrowsBy(s, r) /\ SameJob(s, r) /\ SlotKept(s, r)

\* Two queries in a row are one.
LEMMA QueriesAddUp ==
    ASSUME NEW s, NEW r, NEW x, Queried(s, r), Queried(r, x)
    PROVE  Queried(s, x)
BY DEF Queried, Changes, Fields, GrowsBy, SameJob, SlotKept

\* Poll and Search are queries.
LEMMA QueryChanges ==
    ASSUME NEW s \in State, IsFiniteSet(s.calls), NEW free \in BOOLEAN
    PROVE  Queried(s, s) /\ Queried(s, Poll(s, free)) /\ Queried(s, Search(s, free))
<1>1. Queried(s, s) BY DEF Queried, Changes, GrowsBy, SameJob, SlotKept
<1>2. s.dialog.job # NoJob => s.dialog.job \in Jobs /\ s.dialog.job \in Nat BY DEF State, Dialogs, Jobs
<1>3. ASSUME NEW op \in Queries, NEW who \in Nat, op = "status" => who \in Jobs
      PROVE  Queried(s, Request(s, op, who, free))
  <2> PICK x : x = Request(s, op, who, free) OBVIOUS
  <2> PICK r : r = Submit(s, op, who) OBVIOUS
  <2>1. /\ Changes(s, x, {"slot", "desired", "calls", "dialog"})
        /\ IsFiniteSet(x.calls) /\ GrowsBy(s, x) /\ SameJob(s, x) /\ SlotKept(s, x) BY <1>3, RequestChanges
  <2> QED BY <2>1 DEF Queried
<1>4. s.dialog.job # NoJob => Queried(s, Request(s, "status", s.dialog.job, free))
  <2>1. "status" \in Queries BY DEF Queries
  <2> QED BY <1>2, <1>3, <2>1
<1>5. Queried(s, Request(s, "search", NoJob, free))
  <2>1. "search" \in Queries /\ NoJob \in Nat /\ "search" # "status" BY DEF Queries, NoJob
  <2> QED BY <1>3, <2>1
<1> QED BY <1>1, <1>4, <1>5 DEF Poll, Search

\* So is what the dialog asks when it is shown.
LEMMA ShownChanges ==
    ASSUME NEW s \in State, IsFiniteSet(s.calls), NEW free \in BOOLEAN
    PROVE  Queried(s, Shown(s, free))
<1> DEFINE v == [s EXCEPT !.dialog.visible = TRUE]
<1>1. [s.dialog EXCEPT !.visible = TRUE] \in Dialogs BY DEF State, Dialogs
<1>2. Changes(s, v, {"dialog"}) /\ v.calls = s.calls BY <1>1 DEF Changes, State, Fields
<1>3. SameJob(s, v) BY DEF SameJob, State, Dialogs
<1> HIDE DEF v
<1>4. Queried(s, v) BY <1>2, <1>3 DEF Queried, Changes, GrowsBy, Fields, SlotKept
<1>5. Shown(s, free) \in {v, Poll(v, free), Search(v, free)} BY DEF Shown, v
<1>6. Queried(v, Poll(v, free)) /\ Queried(v, Search(v, free)) BY <1>4, QueryChanges DEF Queried, Changes
<1> QED BY <1>4, <1>5, <1>6, QueriesAddUp

\* A dialog that is hidden gives up its own call, and ignores the answer.
LEMMA HiddenChanges ==
    ASSUME NEW s \in State
    PROVE  /\ Changes(s, Hidden(s), {"dialog", "desired"}) /\ SameJob(s, Hidden(s))
           /\ Hidden(s).dialog.request = s.dialog.request /\ Hidden(s).dialog.op = s.dialog.op
           /\ Hidden(s).desired # s.desired => s.dialog.request # 0 /\ Hidden(s).dialog.ignore
<1> DEFINE v == [s EXCEPT !.dialog.visible = FALSE, !.dialog.timer = FALSE]
           w == [v EXCEPT !.dialog.ignore = TRUE]
<1>1. [s.dialog EXCEPT !.visible = FALSE, !.timer = FALSE] \in Dialogs BY DEF State, Dialogs
<1>2. Changes(s, v, {"dialog"}) BY <1>1 DEF Changes, State, Fields
<1>3. SameJob(s, v) /\ v.dialog.request = s.dialog.request /\ v.dialog.op = s.dialog.op
  BY DEF SameJob, State, Dialogs
<1> HIDE DEF v
<1>4. [v.dialog EXCEPT !.ignore = TRUE] \in Dialogs BY <1>2 DEF Changes, State, Dialogs
<1>5. Changes(v, w, {"dialog"}) BY <1>2, <1>4 DEF Changes, State, Fields
<1>6. SameJob(v, w) /\ w.dialog.request = v.dialog.request /\ w.dialog.op = v.dialog.op /\ w.dialog.ignore
  BY <1>2 DEF SameJob, Changes, State, Dialogs
<1> HIDE DEF w
<1>7. v.dialog.request \in Nat BY <1>2 DEF Changes, State, Dialogs
<1>8. Changes(w, CancelServerTool(w, v.dialog.request), {"desired"}) BY <1>5, <1>7, CancelChanges DEF Changes
<1>9. \/ Hidden(s) = v
      \/ v.dialog.request # 0 /\ Hidden(s) = CancelServerTool(w, v.dialog.request) BY DEF Hidden, v, w
<1>10. CASE Hidden(s) = v BY <1>2, <1>3, <1>10 DEF Changes, Fields
<1>11. CASE v.dialog.request # 0 /\ Hidden(s) = CancelServerTool(w, v.dialog.request)
  BY <1>2, <1>3, <1>5, <1>6, <1>8, <1>11 DEF Changes, Fields, SameJob
<1> QED BY <1>9, <1>10, <1>11

\* A dialog that is opened for a host follows the job that is saved of it.
LEMMA DialogOfChanges ==
    ASSUME NEW s \in State
    PROVE  /\ Changes(s, DialogOf(s), {"dialog"})
           /\ DialogOf(s).dialog =
                [NoDialog EXCEPT !.target = s.host, !.job = s.saved[s.host], !.active = s.saved[s.host] # NoJob]
<1> DEFINE d == [NoDialog EXCEPT !.target = s.host, !.job = s.saved[s.host], !.active = s.saved[s.host] # NoJob]
<1>1. s.saved[s.host] \in Jobs \cup {NoJob} /\ s.host \in Hosts BY DEF State
<1>2. d \in Dialogs BY <1>1 DEF NoDialog, Dialogs
<1>3. DialogOf(s) = [s EXCEPT !.dialog = d] BY DEF DialogOf
<1> HIDE DEF d
<1>4. Changes(s, DialogOf(s), {"dialog"}) /\ DialogOf(s).dialog = d BY <1>2, <1>3 DEF Changes, State, Fields
<1> QED BY <1>4 DEF d

\* Forgetting takes the job away from its host and from the dialog, or changes nothing.
SavedAs(u, h, job, known, x) ==
    /\ Changes(u, x, {"saved", "forgotten"}) /\ x.saved = [u.saved EXCEPT ![h] = job]
    /\ x.forgotten = u.forgotten \cup ((Jobs \cap {u.saved[h]}) \ {known})

LEMMA SaveJobChanges ==
    ASSUME NEW u \in State, NEW h, NEW job \in Jobs \cup {NoJob}, NEW known
    PROVE  SavedAs(u, h, job, known, SaveJob(u, h, job, known))
<1> PICK x : x = SaveJob(u, h, job, known) OBVIOUS
<1> DEFINE f == u.forgotten \cup ((Jobs \cap {u.saved[h]}) \ {known})
           v == [u.saved EXCEPT ![h] = job]
<1>1. u.saved \in [Hosts -> Jobs \cup {NoJob}] /\ u.forgotten \in SUBSET Jobs BY DEF State
<1>2. v \in [Hosts -> Jobs \cup {NoJob}] /\ f \in SUBSET Jobs
  <2> PICK g \in [Hosts -> Jobs \cup {NoJob}] : g = u.saved BY <1>1
  <2>1. [g EXCEPT ![h] = job] \in [Hosts -> Jobs \cup {NoJob}] OBVIOUS
  <2> QED BY <1>1, <2>1
<1>3. x = [u EXCEPT !.saved = v, !.forgotten = f] BY DEF SaveJob
<1> HIDE DEF f, v
<1>4. Changes(u, x, {"saved", "forgotten"}) /\ x.saved = v /\ x.forgotten = f
  BY <1>2, <1>3 DEF Changes, State, Fields
<1>5. SavedAs(u, h, job, known, x) BY <1>4 DEF f, v, SavedAs
<1> QED BY <1>5

\* An installation is on its way.
WiredAs(u, h, job, x) ==
    Changes(u, x, {"wire", "jobs"}) /\ x.wire = u.wire \cup {job} /\ x.jobs = [u.jobs EXCEPT ![job].host = h]

LEMMA OnWireChanges ==
    ASSUME NEW u \in State, NEW h \in Hosts, NEW job \in Jobs
    PROVE  WiredAs(u, h, job, OnWire(u, h, job))
<1> PICK x : x = OnWire(u, h, job) OBVIOUS
<1> DEFINE w == u.wire \cup {job}
           b == [u.jobs EXCEPT ![job].host = h]
<1>1. w \in SUBSET Jobs BY DEF State
<1>2. b \in [Jobs -> JobStates]
  <2> PICK f \in [Jobs -> JobStates] : f = u.jobs BY DEF State
  <2>1. [f[job] EXCEPT !.host = h] \in JobStates BY DEF JobStates
  <2>2. [f EXCEPT ![job] = [f[job] EXCEPT !.host = h]] \in [Jobs -> JobStates] BY <2>1
  <2> QED BY <2>2
<1>3. x = [u EXCEPT !.wire = w, !.jobs = b] BY DEF OnWire
<1> HIDE DEF w, b
<1>4. Changes(u, x, {"wire", "jobs"}) /\ x.wire = w /\ x.jobs = b BY <1>1, <1>2, <1>3 DEF Changes, State, Fields
<1>5. WiredAs(u, h, job, x) BY <1>4 DEF w, b, WiredAs
<1> QED BY <1>5

\* A job is forgotten with the number that is saved.
LEMMA ForgottenChanges ==
    ASSUME NEW s \in State, s.modals # <<>>, NEW yes \in BOOLEAN,
           NEW r, r = Rest(s), NEW x, x = Forgotten(s, yes)
    PROVE  \/ x = r
           \/ /\ Changes(r, x, {"forgotten", "saved", "dialog"})
              /\ x.forgotten = (s.forgotten \cup ({s.dialog.job} \ {NoJob})) \cup ((Jobs \cap {s.saved[s.dialog.target]}) \ {NoJob})
              /\ x.saved = [s.saved EXCEPT ![s.dialog.target] = NoJob]
              /\ x.dialog.job = NoJob /\ x.dialog.target = s.dialog.target
              /\ x.dialog.request = s.dialog.request /\ x.dialog.op = s.dialog.op
<1> DEFINE d == [r.dialog EXCEPT !.job = NoJob, !.active = FALSE, !.unknown = FALSE, !.timer = FALSE]
           f == r.forgotten \cup ({r.dialog.job} \ {NoJob})
<1>1. Changes(s, r, {"modals"}) BY TailChanges
<1>0. r.dialog = s.dialog /\ r.saved = s.saved /\ r.forgotten = s.forgotten BY <1>1 DEF Changes, Fields
<1>2. r.dialog \in Dialogs /\ r.saved \in [Hosts -> Jobs \cup {NoJob}] /\ r.forgotten \in SUBSET Jobs
  BY <1>1 DEF Changes, State
<1>3. /\ d \in Dialogs /\ d.job = NoJob /\ d.target = s.dialog.target
      /\ d.request = s.dialog.request /\ d.op = s.dialog.op
  <2> PICK o \in Dialogs : o = r.dialog BY <1>2
  <2>1. /\ d \in Dialogs /\ d.job = NoJob /\ d.target = o.target /\ d.request = o.request /\ d.op = o.op
    BY DEF Dialogs
  <2> QED BY <1>0, <2>1
<1>4. r.dialog.job \in Jobs \cup {NoJob} BY <1>2 DEF Dialogs
<1>5. f \in SUBSET Jobs BY <1>2, <1>4
<1> DEFINE new == [r EXCEPT !.forgotten = f, !.dialog = d]
<1>7. x \in {r, SaveJob(new, d.target, NoJob, NoJob)} BY DEF Forgotten, Rest
<1>8. f = s.forgotten \cup ({s.dialog.job} \ {NoJob}) BY <1>0
<1> HIDE DEF d, f
<1>9. r \in State BY <1>1 DEF Changes
<1>10. /\ Changes(r, new, {"forgotten", "dialog"}) /\ new.forgotten = f /\ new.dialog = d
  BY <1>3, <1>5, <1>9 DEF Changes, State, Fields
<1>11. new.saved = s.saved /\ new \in State BY <1>0, <1>10 DEF Changes, Fields
<1> HIDE DEF new
<1>12. CASE x # r
  <2>1. x = SaveJob(new, d.target, NoJob, NoJob) BY <1>7, <1>12
  <2>2. /\ Changes(new, x, {"saved", "forgotten"}) /\ x.saved = [new.saved EXCEPT ![d.target] = NoJob]
        /\ x.forgotten = new.forgotten \cup ((Jobs \cap {new.saved[d.target]}) \ {NoJob})
    <3>1. SavedAs(new, d.target, NoJob, NoJob, x) BY <1>11, <2>1, SaveJobChanges
    <3> QED BY <3>1 DEF SavedAs
  <2>3. Changes(r, x, {"forgotten", "saved", "dialog"}) /\ x.dialog = d BY <1>10, <2>2 DEF Changes, Fields
  <2> QED BY <1>3, <1>8, <1>10, <1>11, <2>2, <2>3
<1> QED BY <1>12

\* A plan that was approved and submitted as a job.
SubmittedAs(s, r, p, job, sent, free) ==
    /\ sent = Request(r, "install", job, free)
    /\ s.jobs[job].host = NoHost
    /\ Queried(r, sent) /\ Changes(sent, p, {"dialog", "saved", "wire", "jobs", "forgotten"})
    /\ sent # r /\ s.up /\ s.dialog.target = s.host /\ ~s.dialog.active
    /\ p.dialog = [sent.dialog EXCEPT !.job = job, !.active = TRUE, !.unknown = FALSE]
    /\ p.saved = [s.saved EXCEPT ![s.host] = job] /\ p.wire = s.wire \cup {job}
    /\ p.jobs = [s.jobs EXCEPT ![job].host = s.host]
    /\ p.forgotten = s.forgotten \cup ((Jobs \cap {s.saved[s.host]}) \ {s.dialog.job})

\* A plan that is approved is submitted for a job that no installation has used.
LEMMA PlannedChanges ==
    ASSUME NEW s \in State, IsFiniteSet(s.calls), s.modals # <<>>, NEW yes \in BOOLEAN, NEW free \in BOOLEAN,
           yes => \E j \in Jobs : s.jobs[j].host = NoHost,
           NEW r, r = Rest(s),
           NEW p, p = Planned(s, yes, free)
    PROVE  \/ p = r
           \/ \E job \in Jobs : \E sent : SubmittedAs(s, r, p, job, sent, free)
<1> DEFINE job == CHOOSE j \in Jobs : r.jobs[j].host = NoHost
           sent == Request(r, "install", job, free)
           d == [sent.dialog EXCEPT !.job = job, !.active = TRUE, !.unknown = FALSE]
           new == [sent EXCEPT !.dialog = d]
           put == OnWire(new, r.dialog.target, job)
           kept == SaveJob(put, r.dialog.target, job, r.dialog.job)
<1>1. Changes(s, r, {"modals"}) /\ r.calls = s.calls BY TailChanges DEF Changes, Fields
<1>2. r.jobs = s.jobs /\ r.dialog = s.dialog /\ r.up = s.up /\ r.host = s.host /\ r.saved = s.saved /\ r.wire = s.wire
  BY <1>1 DEF Changes, Fields
<1>3. p \in {r, kept} /\ (p # r => yes /\ ConnectedToTarget(r) /\ ~r.dialog.active /\ sent # r)
  BY DEF Planned, Rest, NextJob
<1>5. CASE p # r
  <2>1. p = kept /\ ConnectedToTarget(r) /\ ~r.dialog.active /\ sent # r BY <1>3, <1>5
  <2>2. job \in Jobs /\ r.jobs[job].host = NoHost BY <1>2, <1>3, <1>5
  <2> HIDE DEF job
  <2>3. Queried(r, sent)
    <3>1. job \in Nat /\ "install" \in Queries /\ r \in State /\ IsFiniteSet(r.calls)
      BY <1>1, <2>2 DEF Queries, Jobs, Changes
    <3> PICK op \in Queries : op = "install" BY <3>1
    <3> PICK x : x = Request(r, op, job, free) OBVIOUS
    <3> PICK y : y = Submit(r, op, job) OBVIOUS
    <3>2. Queried(r, x) BY <3>1, RequestChanges DEF Queried
    <3> QED BY <3>2
  <2> HIDE DEF sent
  <2>4. /\ sent \in State /\ sent.saved = s.saved /\ sent.wire = s.wire /\ sent.jobs = s.jobs
        /\ r.dialog.target = s.host /\ s.host \in Hosts
    BY <1>2, <2>1, <2>3 DEF Queried, Changes, Fields, ConnectedToTarget, State
  <2>5. d \in Dialogs BY <2>2, <2>4 DEF State, Dialogs
  <2>9. d = [sent.dialog EXCEPT !.job = job, !.active = TRUE, !.unknown = FALSE] OBVIOUS
  <2> HIDE DEF d
  <2>6. Changes(sent, new, {"dialog"}) /\ new.dialog = d BY <2>4, <2>5 DEF Changes, State, Fields
  <2> HIDE DEF new
  <2>7. new \in State /\ new.wire = s.wire /\ new.jobs = s.jobs /\ new.saved = s.saved /\ new.forgotten = sent.forgotten
    BY <2>4, <2>6 DEF Changes, Fields
  <2>8. Changes(new, put, {"wire", "jobs"}) /\ put.wire = s.wire \cup {job} /\ put.jobs = [s.jobs EXCEPT ![job].host = s.host]
    BY <2>2, <2>4, <2>7, OnWireChanges DEF WiredAs
  <2> HIDE DEF put
  <2>12. put \in State /\ put.saved = s.saved /\ put.forgotten = sent.forgotten /\ put.dialog = d
    BY <2>6, <2>7, <2>8 DEF Changes, Fields
  <2>13. /\ Changes(put, kept, {"saved", "forgotten"}) /\ kept.saved = [s.saved EXCEPT ![s.host] = job]
         /\ kept.forgotten = sent.forgotten \cup ((Jobs \cap {s.saved[s.host]}) \ {s.dialog.job})
    <3>1. r.dialog.target = s.host /\ r.dialog.job = s.dialog.job /\ job \in Jobs \cup {NoJob}
      BY <1>2, <2>2, <2>4
    <3>2. kept = SaveJob(put, s.host, job, s.dialog.job) BY <3>1
    <3> HIDE DEF kept
    <3>3. SavedAs(put, s.host, job, s.dialog.job, kept) BY <2>12, <3>1, <3>2, SaveJobChanges
    <3> QED BY <2>12, <3>3 DEF SavedAs
  <2> HIDE DEF kept
  <2>14. sent.forgotten = s.forgotten BY <1>1, <2>3 DEF Queried, Changes, Fields
  <2>10. /\ Changes(sent, kept, {"dialog", "saved", "wire", "jobs", "forgotten"})
         /\ kept.dialog = d /\ kept.wire = s.wire \cup {job} /\ kept.jobs = [s.jobs EXCEPT ![job].host = s.host]
    BY <2>6, <2>8, <2>12, <2>13 DEF Changes, Fields
  <2>11. s.up /\ s.dialog.target = s.host /\ ~s.dialog.active /\ s.jobs[job].host = NoHost
    BY <1>2, <2>1, <2>2 DEF ConnectedToTarget
  <2> QED BY <2>1, <2>2, <2>3, <2>9, <2>10, <2>11, <2>13, <2>14 DEF sent, SubmittedAs
<1> QED BY <1>5

\* An answer may open the question about a plan; a job is followed until its end is reported.
LEMMA AnsweredChanges ==
    ASSUME NEW s \in State, NEW who \in Nat, NEW ans \in Answers, s.dialog.op \in Queries,
           NEW r, r = Answered(s, who, ans)
    PROVE  /\ Changes(s, r, {"dialog", "modals"})
           /\ r.modals \in {s.modals, <<Question("plan", NoJob, s.host)>> \o s.modals}
           /\ r.modals # s.modals => s.dialog.op = "plan"
           /\ r.dialog.job = s.dialog.job /\ r.dialog.target = s.dialog.target
           /\ r.dialog.request = s.dialog.request /\ r.dialog.op = s.dialog.op
           /\ r.dialog.active = s.dialog.active \/ r.dialog.active
                \/ (who = s.dialog.job /\ ans \in {"succeeded", "failed"})
<1> DEFINE old == s.dialog
           asked == <<Question("plan", NoJob, s.host)>> \o s.modals
           d0 == [old EXCEPT !.unknown = TRUE, !.timer = FALSE]
           d1 == [old EXCEPT !.listed = TRUE]
           d2 == [old EXCEPT !.unknown = TRUE]
           d3 == [old EXCEPT !.unknown = FALSE, !.timer = old.visible \/ @]
           d4 == [old EXCEPT !.active = ans \notin {"succeeded", "failed"}, !.unknown = ans = "unknown",
                             !.timer = ans \notin {"succeeded", "failed"} /\ ans # "unknown" /\ old.visible]
           Kept(d) == /\ d \in Dialogs
                      /\ d.job = old.job /\ d.target = old.target /\ d.request = old.request
                      /\ d.op = old.op /\ d.ignore = old.ignore
                      /\ d.active = old.active \/ d.active \/ (who = old.job /\ ans \in {"succeeded", "failed"})
<1>1. old \in Dialogs /\ s.modals \in Seq(Questions) /\ s.host \in Hosts BY DEF State
<1>2. asked \in Seq(Questions)
  <2>1. Question("plan", NoJob, s.host) \in Questions BY <1>1 DEF Question, Questions, NoJob
  <2> QED BY <1>1, <2>1
<1>3. Kept(old) /\ Kept(d0) /\ Kept(d1) /\ Kept(d2) /\ Kept(d3)
  <2> PICK o \in Dialogs : o = old BY <1>1
  <2> QED BY DEF Dialogs
<1>4. who = old.job \/ ans \notin {"succeeded", "failed"} => Kept(d4)
  <2> PICK o \in Dialogs : o = old BY <1>1
  <2> QED BY DEF Dialogs
<1>5. \/ r = s \/ r = [s EXCEPT !.dialog = d0] \/ r = [s EXCEPT !.dialog = d1]
      \/ r = [s EXCEPT !.modals = asked] /\ old.op = "plan"
      \/ r = [s EXCEPT !.dialog = d2] \/ r = [s EXCEPT !.dialog = d3]
      \/ r = [s EXCEPT !.dialog = d4] /\ who = old.job BY DEF Answered, Lost, Ask, Told, Queries, State
<1> HIDE DEF d0, d1, d2, d3, d4, asked
<1>6. \A d : Kept(d) => LET x == [s EXCEPT !.dialog = d] IN
        Changes(s, x, {"dialog", "modals"}) /\ x.dialog = d /\ x.modals = s.modals BY DEF Changes, State, Fields
<1>7. LET x == [s EXCEPT !.modals = asked] IN
        Changes(s, x, {"dialog", "modals"}) /\ x.dialog = old /\ x.modals = asked
  BY <1>2 DEF Changes, State, Fields
<1>8. Changes(s, s, {"dialog", "modals"}) BY DEF Changes
<1> HIDE DEF Kept
<1>9. r.modals = s.modals \/ (r.modals = asked /\ old.op = "plan") BY <1>3, <1>4, <1>5, <1>6, <1>7
<1>10. Changes(s, r, {"dialog", "modals"}) /\ Kept(r.dialog) BY <1>3, <1>4, <1>5, <1>6, <1>7, <1>8
<1> QED BY <1>9, <1>10 DEF asked, Kept

\* What the end of call id changes in the dialog, and what it leaves as it is.
DialogEnds(s, r, id, who, ans) ==
    /\ Changes(s, r, {"dialog", "modals"})
    /\ r.dialog.job = s.dialog.job /\ r.dialog.target = s.dialog.target /\ r.dialog.op = s.dialog.op
    /\ r.dialog.request = IF id = s.dialog.request THEN 0 ELSE s.dialog.request
    /\ r.dialog.active = s.dialog.active \/ r.dialog.active
         \/ (who = s.dialog.job /\ ans \in {"succeeded", "failed"})
    /\ r.modals \in {s.modals, <<Question("plan", NoJob, s.host)>> \o s.modals}
    /\ r.modals # s.modals => s.dialog.op = "plan" /\ s.dialog.request = id

\* The end of a call is for the dialog only if it waits for that call.
LEMMA DialogFinishedChanges ==
    ASSUME NEW s \in State, NEW id \in Nat \ {0}, NEW who \in Nat, NEW ans \in Answers,
           s.dialog.request # 0 => s.dialog.op \in Queries,
           NEW r, r = DialogFinished(s, id, who, ans)
    PROVE  DialogEnds(s, r, id, who, ans)
<1> DEFINE d == [s.dialog EXCEPT !.request = 0, !.ignore = FALSE]
           v == [s EXCEPT !.dialog = d]
<1>1. /\ d \in Dialogs /\ d.job = s.dialog.job /\ d.target = s.dialog.target /\ d.op = s.dialog.op
      /\ d.active = s.dialog.active /\ d.request = 0
  <2> PICK o \in Dialogs : o = s.dialog BY DEF State
  <2> QED BY DEF Dialogs
<1>2. r \in (IF id # s.dialog.request THEN {s} ELSE {v, Answered(v, who, ans)})
  BY DEF DialogFinished, State, Dialogs
<1> HIDE DEF d
<1>3. Changes(s, v, {"dialog"}) /\ v.dialog = d /\ v.modals = s.modals /\ v.host = s.host
  BY <1>1 DEF Changes, State, Fields
<1> HIDE DEF v
<1>4. CASE id # s.dialog.request
  <2>1. r = s BY <1>2, <1>4
  <2> QED BY <1>4, <2>1 DEF Changes, DialogEnds
<1>5. CASE id = s.dialog.request /\ r = v BY <1>1, <1>3, <1>5 DEF Changes, DialogEnds
<1>6. CASE id = s.dialog.request /\ r = Answered(v, who, ans)
  <2>1. v \in State /\ v.dialog.op \in Queries BY <1>1, <1>3, <1>6 DEF Changes
  <2>2. /\ Changes(v, r, {"dialog", "modals"})
        /\ r.modals \in {v.modals, <<Question("plan", NoJob, v.host)>> \o v.modals}
        /\ r.modals # v.modals => v.dialog.op = "plan"
        /\ r.dialog.job = v.dialog.job /\ r.dialog.target = v.dialog.target
        /\ r.dialog.request = v.dialog.request /\ r.dialog.op = v.dialog.op
        /\ r.dialog.active = v.dialog.active \/ r.dialog.active \/ (who = v.dialog.job /\ ans \in {"succeeded", "failed"})
    BY <1>6, <2>1, AnsweredChanges
  <2>3. Changes(s, r, {"dialog", "modals"}) BY <1>3, <2>2 DEF Changes, Fields
  <2> QED BY <1>1, <1>3, <1>6, <2>2, <2>3 DEF DialogEnds
<1> QED BY <1>2, <1>4, <1>5, <1>6

\* The dialog waits no longer when the connection is down, and may ask when it is up.
LEMMA DialogFollowsConnection ==
    ASSUME NEW s \in State, IsFiniteSet(s.calls), NEW free \in BOOLEAN
    PROVE  /\ Changes(s, DialogDown(s), {"dialog"})
           /\ DialogDown(s).dialog.request = 0 /\ SameJob(s, DialogDown(s))
           /\ DialogDown(s).dialog.op = s.dialog.op
           /\ Queried(s, DialogUp(s, free))
<1> DEFINE d == [s.dialog EXCEPT !.timer = FALSE, !.request = 0]
<1>1. /\ d \in Dialogs /\ d.job = s.dialog.job /\ d.target = s.dialog.target
      /\ d.active = s.dialog.active /\ d.request = 0 /\ d.op = s.dialog.op
  <2> PICK o \in Dialogs : o = s.dialog BY DEF State
  <2> QED BY DEF Dialogs
<1>2. DialogDown(s) = [s EXCEPT !.dialog = d] BY DEF DialogDown, State
<1> HIDE DEF d
<1>3. Changes(s, DialogDown(s), {"dialog"}) /\ DialogDown(s).dialog = d BY <1>1, <1>2 DEF Changes, State, Fields
<1>4. Queried(s, DialogUp(s, free)) BY QueryChanges DEF DialogUp
<1> QED BY <1>1, <1>3, <1>4 DEF SameJob

----
(* The same for the server tools. *)

\* A helper that has just been sent.
Sent(host, who) == [NoHelper EXCEPT !.stage = "sent", !.host = host, !.want = who]

\* A request of the tools takes the slot when it is free; a signal sends a helper.
LEMMA ToolRequestChanges ==
    ASSUME NEW s \in State, IsFiniteSet(s.calls), NEW op \in Kinds, NEW who \in Nat, NEW free \in BOOLEAN,
           NEW r, r = ToolRequest(s, op, who, free),
           NEW sub, sub = Submit(s, op, who)
    PROVE  /\ Changes(s, r, {"slot", "desired", "calls", "tools", "helper"})
           /\ IsFiniteSet(r.calls) /\ GrowsBy(s, r) /\ SlotKept(s, r)
           /\ \/ r = s
              \/ /\ s.tools.request = 0 /\ s.up /\ s.slot = 0
                 /\ r.slot = sub.slot /\ r.calls = sub.calls /\ r.tools.request = sub.slot
           /\ \/ r.helper = s.helper
              \/ op = "signal" /\ r.helper = Sent(s.host, who)
<1> DEFINE helper == IF op # "signal" THEN s.helper ELSE Sent(s.host, who)
           w == [sub.tools EXCEPT !.request = sub.slot, !.op = op, !.page = sub.tools.tab, !.cancel = FALSE]
           sent == [sub EXCEPT !.tools = w, !.helper = helper]
<1>1. /\ Changes(s, sub, {"slot", "desired", "calls"}) /\ IsFiniteSet(sub.calls)
      /\ sub.calls = s.calls \cup {Call(sub.slot, op, who)} /\ sub.slot \in Nat \ {0} /\ sub.desired = sub.slot
  <2>1. op \in {"command"} \cup Queries \cup Kinds OBVIOUS
  <2> QED BY <2>1, SubmitTakesSlot
<1>2. r = IF s.tools.request # 0 \/ ~CanRun(s, free) THEN s ELSE sent BY DEF ToolRequest, Sent
<1>3. helper \in Helpers BY DEF State, Helpers, Sent, NoHelper, NoProcess
<1>4. w \in ToolStates /\ w.request = sub.slot
  <2>1. sub.tools \in ToolStates /\ sub.slot \in Nat BY <1>1 DEF Changes, State
  <2> PICK o \in ToolStates : o = sub.tools BY <2>1
  <2> PICK n \in Nat : n = sub.slot BY <2>1
  <2>2. o.tab \in {0, 1} BY DEF ToolStates
  <2>3. [o EXCEPT !.request = n, !.op = op, !.page = o.tab, !.cancel = FALSE] \in ToolStates
    BY <2>2 DEF ToolStates
  <2> QED BY <2>3 DEF ToolStates
<1>5. helper = s.helper \/ (op = "signal" /\ helper = Sent(s.host, who)) OBVIOUS
<1> HIDE DEF helper, w
<1>6. /\ Changes(sub, sent, {"tools", "helper"}) /\ sent.calls = sub.calls /\ sent.slot = sub.slot
      /\ sent.desired = sub.desired /\ sent.tools = w /\ sent.helper = helper
  BY <1>1, <1>3, <1>4 DEF Changes, State, Fields
<1> HIDE DEF sent
<1>7. GrowsBy(s, sent) /\ GrowsBy(s, s) BY <1>1, <1>6 DEF GrowsBy, Plain, Call, Kinds
<1>8. \A x \in {s, sent} : Changes(s, x, {"slot", "desired", "calls", "tools", "helper"}) /\ IsFiniteSet(x.calls)
  BY <1>1, <1>6 DEF Changes, Fields
<1>9. SlotKept(s, r) BY <1>1, <1>2, <1>6 DEF SlotKept, CanRun
<1> QED BY <1>2, <1>4, <1>5, <1>6, <1>7, <1>8, <1>9 DEF CanRun

\* What the tools may change when no signal is sent.
Refreshed(s, r) ==
    /\ Changes(s, r, {"slot", "desired", "calls", "tools"}) /\ IsFiniteSet(r.calls) /\ GrowsBy(s, r)

\* Refreshing is such a request.
LEMMA RefreshChanges ==
    ASSUME NEW s \in State, IsFiniteSet(s.calls), NEW free \in BOOLEAN
    PROVE  Refreshed(s, RefreshTools(s, free)) /\ SlotKept(s, RefreshTools(s, free))
<1> PICK op \in Kinds : op = IF s.tools.tab = 0 THEN "processes" ELSE "interfaces" BY DEF Kinds
<1> PICK who \in Nat : who = NoProcess BY DEF NoProcess
<1> PICK r : r = ToolRequest(s, op, who, free) OBVIOUS
<1> PICK sub : sub = Submit(s, op, who) OBVIOUS
<1>1. op # "signal" /\ RefreshTools(s, free) = r BY DEF RefreshTools
<1>2. /\ Changes(s, r, {"slot", "desired", "calls", "tools", "helper"})
      /\ IsFiniteSet(r.calls) /\ GrowsBy(s, r) /\ SlotKept(s, r) /\ r.helper = s.helper
  BY <1>1, ToolRequestChanges
<1> QED BY <1>1, <1>2 DEF Refreshed, Changes, Fields

----
(* Who owns the slot. *)

\* The slot is owned as before when its owners stay, or stop to wait for it.
SameSlot(s, r) ==
    /\ r.calls = s.calls /\ r.slot = s.slot /\ r.modals = s.modals /\ r.pending = s.pending
    /\ r.socks = s.socks /\ r.flag = s.flag /\ r.up = s.up /\ r.connecting = s.connecting
    /\ r.host = s.host /\ r.run = s.run
    /\ r.dialog.request = 0 \/ (r.dialog.request = s.dialog.request /\ r.dialog.op = s.dialog.op
                                  /\ r.dialog.target = s.dialog.target)
    /\ r.tools.request \in {0, s.tools.request}

\* What holds of the slot stays when the slot, its owners and the clients are as before.
LEMMA SlotCoreStays ==
    ASSUME NEW s \in State, NEW r \in State, SlotCore(s), SameSlot(s, r)
    PROVE  SlotCore(r)
<1>1. IsFiniteSet(r.calls) /\ ~(r.up /\ r.connecting) BY DEF SlotCore, SameSlot
<1>2. Questioned(r) BY DEF SlotCore, SameSlot, Questioned
<1>3. Numbered(r) BY DEF SlotCore, SameSlot, Numbered
<1>4. Owned(r) BY DEF SlotCore, SameSlot, Owned
<1>5. SocketsFit(r) BY DEF SlotCore, SameSlot, SocketsFit, Asked, Waiting, Running, ToldOnce, Untold
<1> QED BY <1>1, <1>2, <1>3, <1>4, <1>5 DEF SlotCore

\* So does what the dialog waits for.
LEMMA SlotStays ==
    ASSUME NEW s \in State, NEW r \in State, SlotInv(s), SameSlot(s, r)
    PROVE  SlotInv(r)
BY SlotCoreStays DEF SlotInv, Attached, SameSlot

\* A new call is the only one of its number.
LEMMA SubmittedIsNumbered ==
    ASSUME NEW s \in State, SlotInv(s),
           NEW what \in {"command"} \cup Queries \cup Kinds, NEW who \in Nat,
           NEW r, r = Submit(s, what, who)
    PROVE  /\ Numbered(r) /\ \A k \in Sockets : s.socks[k].req # r.slot
           /\ \A c \in r.calls : c.id = r.slot => c.what = what /\ c.who = who
<1>1. /\ r.slot \in Nat \ {0} /\ r.slot \notin InUse(s)
      /\ r.calls = s.calls \cup {Call(r.slot, what, who)} BY SubmitTakesSlot DEF SlotInv, SlotCore
<1>2. \A c \in s.calls : c.id # r.slot BY <1>1 DEF InUse
<1>3. \A k \in Sockets : s.socks[k].req # r.slot BY <1>1 DEF InUse
<1>4. Call(r.slot, what, who).id = r.slot /\ Call(r.slot, what, who).what = what /\ Call(r.slot, what, who).who = who
  BY DEF Call
<1>5. Numbered(r) BY <1>1, <1>2, <1>4 DEF SlotInv, Numbered, SlotCore
<1> QED BY <1>1, <1>2, <1>3, <1>4, <1>5

\* Who makes a request of the dialog owns the slot alone.
LEMMA RequestOwns ==
    ASSUME NEW s \in State, SlotInv(s), NEW op \in Queries, NEW who \in Nat, NEW free \in BOOLEAN,
           op = "status" => who \in Jobs,
           op = "plan" => \A i \in DOMAIN s.modals : s.modals[i].kind # "plan"
    PROVE  SlotInv(Request(s, op, who, free))
<1> PICK r : r = Request(s, op, who, free) OBVIOUS
<1> PICK sub : sub = Submit(s, op, who) OBVIOUS
<1>0. op \in {"command"} \cup Queries \cup Kinds /\ IsFiniteSet(s.calls) BY DEF SlotInv, SlotCore
<1>1. sub.slot \in Nat \ {0} /\ Numbered(sub) BY <1>0, SubmitTakesSlot, SubmittedIsNumbered
<1>2. /\ Changes(s, r, {"slot", "desired", "calls", "dialog"}) /\ IsFiniteSet(r.calls) /\ SameJob(s, r)
      /\ r = s \/ /\ s.dialog.request = 0 /\ ConnectedToTarget(s) /\ CanRun(s, free)
                  /\ r.slot = sub.slot /\ r.calls = sub.calls /\ r.dialog.request = sub.slot /\ r.dialog.op = op
  BY <1>0, RequestChanges
<1>3. CASE r # s
  <2>1. /\ r.tools = s.tools /\ r.pending = s.pending /\ r.modals = s.modals /\ r.up = s.up
        /\ r.host = s.host /\ r.socks = s.socks /\ r.run = s.run /\ r.connecting = s.connecting
    BY <1>2 DEF Changes, Fields
  <2>2. s.pending = 0 /\ s.tools.request = 0 /\ s.up /\ s.dialog.target = s.host /\ ~s.connecting
    BY <1>2, <1>3 DEF SlotInv, Owned, CanRun, ConnectedToTarget, SlotCore, Attached
  <2>3. Questioned(r) BY <1>2, <1>3, <2>1 DEF SlotInv, Questioned, SlotCore
  <2>4. op # "none" BY DEF Queries
  <2>5. Owned(r) /\ Numbered(r) /\ Attached(r)
    BY <1>1, <1>2, <1>3, <2>1, <2>2, <2>4 DEF Owned, Numbered, SameJob, Attached
  <2>6. SocketsFit(r) BY <2>1, <2>2 DEF SlotInv, SocketsFit, Asked, Waiting, Running, ToldOnce, Untold, SlotCore
  <2> QED BY <1>2, <2>1, <2>2, <2>3, <2>5, <2>6 DEF SlotInv, SlotCore
<1> QED BY <1>3

\* So do the tools.
LEMMA ToolRequestOwns ==
    ASSUME NEW s \in State, SlotInv(s), NEW op \in Kinds, NEW who \in Nat, NEW free \in BOOLEAN
    PROVE  SlotInv(ToolRequest(s, op, who, free))
<1> PICK r : r = ToolRequest(s, op, who, free) OBVIOUS
<1> PICK sub : sub = Submit(s, op, who) OBVIOUS
<1>0. op \in {"command"} \cup Queries \cup Kinds /\ IsFiniteSet(s.calls) BY DEF SlotInv, SlotCore
<1>1. sub.slot \in Nat \ {0} /\ Numbered(sub) BY <1>0, SubmitTakesSlot, SubmittedIsNumbered
<1>2. /\ Changes(s, r, {"slot", "desired", "calls", "tools", "helper"}) /\ IsFiniteSet(r.calls)
      /\ r = s \/ /\ s.tools.request = 0 /\ s.up /\ s.slot = 0
                  /\ r.slot = sub.slot /\ r.calls = sub.calls /\ r.tools.request = sub.slot
  BY <1>0, ToolRequestChanges
<1>3. CASE r # s
  <2>1. /\ r.dialog = s.dialog /\ r.pending = s.pending /\ r.modals = s.modals /\ r.up = s.up
        /\ r.host = s.host /\ r.socks = s.socks /\ r.run = s.run /\ r.connecting = s.connecting
    BY <1>2 DEF Changes, Fields
  <2>2. s.pending = 0 /\ s.dialog.request = 0 /\ s.up /\ ~s.connecting
    BY <1>2, <1>3 DEF SlotInv, Owned, SlotCore, Attached
  <2>3. Questioned(r) BY <2>1 DEF SlotInv, Questioned, SlotCore
  <2>4. Owned(r) /\ Numbered(r) /\ Attached(r) BY <1>1, <1>2, <1>3, <2>1, <2>2 DEF Owned, Numbered, Attached
  <2>5. SocketsFit(r) BY <2>1, <2>2 DEF SlotInv, SocketsFit, Asked, Waiting, Running, ToldOnce, Untold, SlotCore
  <2> QED BY <1>2, <2>1, <2>2, <2>3, <2>4, <2>5 DEF SlotInv, SlotCore
<1> QED BY <1>3

\* The same for what the timer and the pages ask.
LEMMA QueriesOwn ==
    ASSUME NEW s \in State, SlotInv(s), NEW free \in BOOLEAN
    PROVE  SlotInv(Poll(s, free)) /\ SlotInv(Search(s, free)) /\ SlotInv(RefreshTools(s, free))
<1>1. s.dialog.job # NoJob => SlotInv(Request(s, "status", s.dialog.job, free))
  <2>1. "status" \in Queries /\ "status" # "plan" BY DEF Queries
  <2>2. s.dialog.job # NoJob => s.dialog.job \in Jobs /\ s.dialog.job \in Nat BY DEF State, Dialogs, Jobs
  <2> QED BY <2>1, <2>2, RequestOwns
<1>2. SlotInv(Request(s, "search", NoJob, free))
  <2>1. "search" \in Queries /\ NoJob \in Nat /\ "search" \notin {"status", "plan"} BY DEF Queries, NoJob
  <2> QED BY <2>1, RequestOwns
<1>3. "processes" \in Kinds /\ "interfaces" \in Kinds /\ NoProcess \in Nat BY DEF Kinds, NoProcess
<1> QED BY <1>1, <1>2, <1>3, ToolRequestOwns DEF Poll, Search, RefreshTools

\* What else the tools change is their own.
LEMMA ToolsChangeOwns ==
    ASSUME NEW s \in State, SlotInv(s), NEW r, Changes(s, r, {"tools", "desired"}),
           r.tools.request \in {0, s.tools.request}
    PROVE  SlotInv(r)
<1>1. r \in State /\ SameSlot(s, r) BY DEF Changes, Fields, SameSlot
<1> QED BY <1>1, SlotStays

\* Giving up a call changes no owner.
LEMMA CancelOwns ==
    ASSUME NEW s \in State, SlotInv(s), NEW r, Changes(s, r, {"desired"})
    PROVE  SlotInv(r) /\ Refreshed(s, r)
<1>1. r \in State /\ SameSlot(s, r) BY DEF Changes, Fields, SameSlot
<1>2. SlotInv(r) BY <1>1, SlotStays
<1> QED BY <1>2 DEF Refreshed, Changes, Fields, GrowsBy, SlotInv, SlotCore

\* The tools give up a call only if they wait for it, and say so.
ToolsGiveUp(s, r) ==
    s.slot # 0 =>
        /\ r.slot = s.slot
        /\ r.desired # s.desired => s.tools.request # 0 /\ (r.tools.again \/ r.tools.cancel \/ ~r.tools.open)

\* A change of the tab asks or gives up, and gives up the tools' own call only.
LEMMA TabChangedOwns ==
    ASSUME NEW s \in State, SlotInv(s), NEW page \in {0, 1}, NEW free \in BOOLEAN
    PROVE  LET r == TabChanged(s, page, free) IN Refreshed(s, r) /\ SlotInv(r) /\ ToolsGiveUp(s, r)
<1> PICK o \in ToolStates : o = s.tools BY DEF State
<1> PICK a \in ToolStates : a = [o EXCEPT !.tab = page] BY DEF ToolStates
<1> PICK b \in ToolStates : b = [o EXCEPT !.tab = page, !.again = TRUE] BY DEF ToolStates
<1> PICK v : v = [s EXCEPT !.tools = a] OBVIOUS
<1> PICK w : w = [s EXCEPT !.tools = b] OBVIOUS
<1>1. /\ a.request = s.tools.request /\ b.request = s.tools.request /\ b.again
      /\ a.request \in {0, s.tools.request} /\ b.request \in {0, s.tools.request} BY DEF ToolStates
<1>2. /\ Changes(s, v, {"tools"}) /\ SlotInv(v) /\ v.slot = s.slot /\ v.desired = s.desired /\ v.calls = s.calls
      /\ Changes(s, w, {"tools"}) /\ SlotInv(w) /\ w.slot = s.slot /\ w.tools.again /\ w.calls = s.calls
      /\ w.tools.request = s.tools.request
  <2>1. /\ Changes(s, v, {"tools"}) /\ SlotInv(v) /\ v.slot = s.slot /\ v.desired = s.desired /\ v.calls = s.calls
    <3>1. Changes(s, v, {"tools"}) /\ v.tools = a BY DEF Changes, State, Fields
    <3>2. Changes(s, v, {"tools", "desired"}) BY <3>1 DEF Changes, Fields
    <3>3. SlotInv(v) BY <1>1, <3>1, <3>2, ToolsChangeOwns
    <3> QED BY <3>1, <3>3 DEF Changes, Fields
  <2>2. /\ Changes(s, w, {"tools"}) /\ SlotInv(w) /\ w.slot = s.slot /\ w.tools = b /\ w.calls = s.calls
    <3>1. Changes(s, w, {"tools"}) /\ w.tools = b BY DEF Changes, State, Fields
    <3>2. Changes(s, w, {"tools", "desired"}) BY <3>1 DEF Changes, Fields
    <3>3. SlotInv(w) BY <1>1, <3>1, <3>2, ToolsChangeOwns
    <3> QED BY <3>1, <3>3 DEF Changes, Fields
  <2> QED BY <1>1, <2>1, <2>2
<1>3. v \in State /\ w \in State /\ IsFiniteSet(v.calls) BY <1>2 DEF Changes, SlotInv, SlotCore
<1> PICK x : x = RefreshTools(v, free) OBVIOUS
<1>4. Refreshed(v, x) /\ SlotKept(v, x) /\ SlotInv(x) BY <1>2, <1>3, RefreshChanges, QueriesOwn
<1> PICK y : y = CancelTools(w) OBVIOUS
<1>5. Changes(w, y, {"desired"}) /\ SlotInv(y)
  <2>1. Changes(w, y, {"desired"}) BY <1>3, CancelChanges
  <2> QED BY <1>2, <1>3, <2>1, CancelOwns
<1>6. Refreshed(s, s) /\ Refreshed(s, v) /\ Refreshed(s, x) /\ Refreshed(s, y)
  BY <1>2, <1>4, <1>5 DEF Refreshed, Changes, Fields, GrowsBy, SlotInv, SlotCore
<1>7. y.slot = w.slot /\ y.tools = w.tools BY <1>5 DEF Changes, Fields
<1>8. \/ TabChanged(s, page, free) = s \/ TabChanged(s, page, free) = x \/ TabChanged(s, page, free) = v
      \/ s.tools.request # 0 /\ TabChanged(s, page, free) = y
  <2>1. v = [s EXCEPT !.tools.tab = page] /\ w = [v EXCEPT !.tools.again = TRUE] BY DEF State, ToolStates
  <2> QED BY <2>1 DEF TabChanged
<1>9. ToolsGiveUp(s, s) /\ ToolsGiveUp(s, v) /\ ToolsGiveUp(s, x) /\ (s.tools.request # 0 => ToolsGiveUp(s, y))
  BY <1>2, <1>4, <1>7 DEF ToolsGiveUp, SlotKept
<1> QED BY <1>2, <1>4, <1>5, <1>6, <1>8, <1>9

\* So does a page that is shown,
LEMMA PageShownOwns ==
    ASSUME NEW s \in State, SlotInv(s), NEW page \in {0, 1}, NEW free \in BOOLEAN
    PROVE  LET r == PageShown(s, page, free) IN Refreshed(s, r) /\ SlotInv(r) /\ ToolsGiveUp(s, r)
<1> PICK w \in ToolStates : w = [NoTools EXCEPT !.open = TRUE] BY DEF ToolStates, NoTools, NoProcess
<1> PICK v : v = IF s.tools.open THEN s ELSE [s EXCEPT !.tools = w] OBVIOUS
<1>1. w.request = 0 /\ w.request \in {0, s.tools.request} BY DEF NoTools
<1>2. /\ Changes(s, v, {"tools"}) /\ SlotInv(v) /\ v.slot = s.slot /\ v.desired = s.desired /\ v.calls = s.calls
      /\ v.tools.request \in {0, s.tools.request}
  <2>1. CASE s.tools.open BY <2>1 DEF Changes
  <2> PICK x : x = [s EXCEPT !.tools = w] OBVIOUS
  <2>2. /\ Changes(s, x, {"tools"}) /\ SlotInv(x) /\ x.slot = s.slot /\ x.desired = s.desired /\ x.calls = s.calls
        /\ x.tools = w
    <3>1. Changes(s, x, {"tools"}) /\ x.tools = w BY DEF Changes, State, Fields
    <3>2. Changes(s, x, {"tools", "desired"}) BY <3>1 DEF Changes, Fields
    <3>3. SlotInv(x) BY <1>1, <3>1, <3>2, ToolsChangeOwns
    <3> QED BY <3>1, <3>3 DEF Changes, Fields
  <2> QED BY <1>1, <2>1, <2>2
<1>3. v \in State /\ IsFiniteSet(v.calls) BY <1>2 DEF Changes, SlotInv, SlotCore
<1> PICK x : x = TabChanged(v, page, free) OBVIOUS
<1> PICK y : y = RefreshTools(v, free) OBVIOUS
<1>4. Refreshed(v, x) /\ SlotInv(x) /\ ToolsGiveUp(v, x) BY <1>2, <1>3, TabChangedOwns
<1>5. Refreshed(v, y) /\ SlotKept(v, y) /\ SlotInv(y) BY <1>2, <1>3, RefreshChanges, QueriesOwn
<1>6. Refreshed(s, v) /\ Refreshed(s, x) /\ Refreshed(s, y)
  BY <1>2, <1>4, <1>5 DEF Refreshed, Changes, Fields, GrowsBy, SlotInv, SlotCore
<1>7. ToolsGiveUp(s, v) /\ ToolsGiveUp(s, x) /\ ToolsGiveUp(s, y) BY <1>2, <1>4, <1>5 DEF ToolsGiveUp, SlotKept
<1>8. PageShown(s, page, free) \in {v, x, y} BY DEF PageShown
<1> QED BY <1>2, <1>4, <1>5, <1>6, <1>7, <1>8

\* a task that is canceled,
LEMMA TaskCancelledOwns ==
    ASSUME NEW s \in State, SlotInv(s)
    PROVE  LET r == TaskCancelled(s) IN Refreshed(s, r) /\ SlotInv(r) /\ ToolsGiveUp(s, r)
<1> PICK o \in ToolStates : o = s.tools BY DEF State
<1> PICK a \in ToolStates : a = [o EXCEPT !.again = FALSE, !.auto = FALSE, !.cancel = o.request # 0]
  BY DEF ToolStates
<1> PICK v : v = [s EXCEPT !.tools = a] OBVIOUS
<1>1. a.request = s.tools.request /\ (s.tools.request # 0 => a.cancel) BY DEF ToolStates
<1>2. Changes(s, v, {"tools"}) /\ v.tools = a BY DEF Changes, State, Fields
<1>3. Changes(s, v, {"tools", "desired"}) BY <1>2 DEF Changes, Fields
<1>4. v \in State /\ SlotInv(v) BY <1>1, <1>2, <1>3, ToolsChangeOwns DEF Changes
<1> PICK y : y = CancelTools(v) OBVIOUS
<1>5. Changes(v, y, {"desired"}) BY <1>4, CancelChanges
<1>6. SlotInv(y) /\ Refreshed(v, y) BY <1>4, <1>5, CancelOwns
<1>7. Refreshed(s, y) BY <1>2, <1>5, <1>6 DEF Refreshed, Changes, Fields, GrowsBy
<1>8. TaskCancelled(s) = y BY DEF TaskCancelled, State, ToolStates
<1>9. y = v \/ v.tools.request # 0 BY DEF CancelTools
<1>10. ToolsGiveUp(s, y)
  <2>1. v.slot = s.slot /\ v.desired = s.desired /\ y.slot = v.slot /\ y.tools = v.tools
    BY <1>2, <1>5 DEF Changes, Fields
  <2> QED BY <1>1, <1>2, <1>9, <2>1 DEF ToolsGiveUp
<1> QED BY <1>6, <1>7, <1>8, <1>10

\* and the dialog when it is closed.
LEMMA ToolsClosedOwns ==
    ASSUME NEW s \in State, SlotInv(s)
    PROVE  LET r == ToolsClosed(s) IN Refreshed(s, r) /\ SlotInv(r) /\ ToolsGiveUp(s, r)
<1> PICK y : y = CancelTools(s) OBVIOUS
<1> PICK r : r = [y EXCEPT !.tools = NoTools] OBVIOUS
<1>1. Changes(s, y, {"desired"}) /\ (y = s \/ s.tools.request # 0) BY CancelChanges DEF CancelTools
<1>2. NoTools \in ToolStates /\ NoTools.request = 0 /\ ~NoTools.open BY DEF NoTools, ToolStates, NoProcess
<1>3. Changes(y, r, {"tools"}) /\ r.tools = NoTools BY <1>1, <1>2 DEF Changes, State, Fields
<1>4. Changes(s, r, {"tools", "desired"}) BY <1>1, <1>3 DEF Changes, Fields
<1>5. SlotInv(r) BY <1>2, <1>3, <1>4, ToolsChangeOwns
<1>6. Refreshed(s, r) BY <1>4 DEF Refreshed, Changes, Fields, GrowsBy, SlotInv, SlotCore
<1>7. ToolsGiveUp(s, r) BY <1>1, <1>2, <1>3 DEF ToolsGiveUp, Changes, Fields
<1>8. ToolsClosed(s) = r BY DEF ToolsClosed
<1> QED BY <1>5, <1>6, <1>7, <1>8

\* When the connection is down the tools clear what they show, and wait for the end of their call.
LEMMA ToolsDownOwns ==
    ASSUME NEW s \in State
    PROVE  Changes(s, ToolsDown(s), {"tools"}) /\ ToolsDown(s).tools.request = s.tools.request
<1> PICK o \in ToolStates : o = s.tools BY DEF State
<1> PICK a \in ToolStates : a = [o EXCEPT !.auto = FALSE] BY DEF ToolStates
<1>1. ToolsDown(s) = [s EXCEPT !.tools = a] /\ a.request = o.request BY DEF ToolsDown, State, ToolStates
<1> QED BY <1>1 DEF Changes, State, Fields

\* What the end of a call changes in the dialog of the tools.
LEMMA ToolStatesClosed ==
    ASSUME NEW o \in ToolStates, NEW n \in Nat
    PROVE  /\ [o EXCEPT !.request = 0] \in ToolStates /\ [o EXCEPT !.request = 0].request = 0
           /\ [o EXCEPT !.cancel = FALSE, !.again = FALSE] \in ToolStates
           /\ [o EXCEPT !.cancel = FALSE, !.again = FALSE].request = o.request
           /\ [o EXCEPT !.again = FALSE] \in ToolStates /\ [o EXCEPT !.again = FALSE].request = o.request
           /\ [o EXCEPT !.shown = n] \in ToolStates /\ [o EXCEPT !.shown = n].request = o.request
BY DEF ToolStates

\* When the call of the tools has ended, they own nothing and may ask again.
LEMMA ToolsFinishedOwns ==
    ASSUME NEW s \in State, NEW id \in Nat \ {0}, NEW ok \in BOOLEAN, NEW free \in BOOLEAN,
           s.tools.request \in {0, id},
           NEW e, Changes(s, e, {"tools"}), e.tools = [s.tools EXCEPT !.request = 0], SlotInv(e)
    PROVE  LET r == ToolsFinished(s, id, ok, free) IN Refreshed(s, r) /\ SlotInv(r) /\ SlotKept(s, r)
<1> PICK o \in ToolStates : o = s.tools BY DEF State
<1> PICK n \in Nat : n = s.procs[s.host] BY DEF State
<1> PICK x \in ToolStates : x = [o EXCEPT !.request = 0] /\ x.request = 0 BY ToolStatesClosed
<1>0. /\ [x EXCEPT !.cancel = FALSE, !.again = FALSE] \in ToolStates
      /\ [x EXCEPT !.cancel = FALSE, !.again = FALSE].request = 0
      /\ [x EXCEPT !.again = FALSE] \in ToolStates /\ [x EXCEPT !.again = FALSE].request = 0
      /\ [x EXCEPT !.shown = n] \in ToolStates /\ [x EXCEPT !.shown = n].request = 0 BY Zenon, ToolStatesClosed
<1> PICK a \in ToolStates : a = [x EXCEPT !.cancel = FALSE, !.again = FALSE] /\ a.request = 0 BY <1>0, Zenon
<1> PICK b \in ToolStates : b = [x EXCEPT !.again = FALSE] /\ b.request = 0 BY <1>0, Zenon
<1> PICK d \in ToolStates : d = [x EXCEPT !.shown = n] /\ d.request = 0 BY <1>0, Zenon
<1>1. /\ e \in State /\ e.tools = x
      /\ x.request = 0 /\ a.request = 0 /\ b.request = 0 /\ d.request = 0 BY DEF Changes
<1>2. e = [s EXCEPT !.tools = x] BY <1>1 DEF Changes, State, Fields
<1>3. ASSUME NEW z \in ToolStates, NEW y, y = [e EXCEPT !.tools = z]
      PROVE  Changes(s, y, {"tools"}) /\ y.tools = z
  <2>1. Changes(e, y, {"tools"}) /\ y.tools = z BY <1>1, <1>3 DEF Changes, State, Fields
  <2> QED BY <2>1 DEF Changes, Fields
<1>4. ASSUME NEW y, Changes(s, y, {"tools"}), y.tools.request = 0
      PROVE  Refreshed(s, y) /\ SlotInv(y) /\ SlotKept(s, y)
  <2>1. SameSlot(e, y) /\ y \in State BY <1>4 DEF SameSlot, Changes, Fields
  <2>2. SlotInv(y) BY <1>1, <2>1, SlotStays
  <2> QED BY <1>4, <2>2 DEF Refreshed, Changes, Fields, GrowsBy, SlotInv, SlotKept, SlotCore
<1> PICK v : v = [e EXCEPT !.tools = a] OBVIOUS
<1> PICK w : w = [e EXCEPT !.tools = b] OBVIOUS
<1> PICK l : l = [e EXCEPT !.tools = d] OBVIOUS
<1> PICK y : y = RefreshTools(w, free) OBVIOUS
<1>5. Changes(s, w, {"tools"}) /\ Refreshed(s, w) /\ SlotInv(w) /\ SlotKept(s, w)
  <2>1. Changes(s, w, {"tools"}) /\ w.tools = b BY <1>3
  <2> QED BY <1>1, <1>4, <2>1
<1>6. w \in State /\ IsFiniteSet(w.calls) BY <1>5 DEF Changes, SlotInv, SlotCore
<1>7. Refreshed(w, y) /\ SlotKept(w, y) /\ SlotInv(y) BY <1>5, <1>6, RefreshChanges, QueriesOwn
<1>8. Refreshed(s, y) /\ SlotKept(s, y) BY <1>5, <1>7 DEF Refreshed, Changes, Fields, GrowsBy, SlotKept
<1>9. ToolsFinished(s, id, ok, free) \in
        (IF id # s.tools.request THEN {s} ELSE {e, v, y, l})
  <2>1. [s EXCEPT !.tools.request = 0] = e BY <1>2 DEF State, ToolStates
  <2>2. [e EXCEPT !.tools.cancel = FALSE, !.tools.again = FALSE] = v BY <1>1 DEF State, ToolStates
  <2>3. [e EXCEPT !.tools.again = FALSE] = w BY <1>1 DEF State, ToolStates
  <2>4. [e EXCEPT !.tools.shown = s.procs[s.host]] = l BY <1>1 DEF State, ToolStates
  <2>5. e.procs = s.procs /\ e.host = s.host BY DEF Changes, Fields
  <2> DEFINE u == [s EXCEPT !.tools.request = 0]
  <2>6. \/ id # s.tools.request /\ ToolsFinished(s, id, ok, free) = s
        \/ /\ id = s.tools.request
           /\ \/ ToolsFinished(s, id, ok, free) = u
              \/ ToolsFinished(s, id, ok, free) = [u EXCEPT !.tools.cancel = FALSE, !.tools.again = FALSE]
              \/ ToolsFinished(s, id, ok, free) = RefreshTools([u EXCEPT !.tools.again = FALSE], free)
              \/ ToolsFinished(s, id, ok, free) = [u EXCEPT !.tools.shown = s.procs[s.host]]
    BY DEF ToolsFinished
  <2>7. u = e BY <2>1
  <2> HIDE DEF u
  <2> QED BY <2>2, <2>3, <2>4, <2>6, <2>7
<1>10. /\ Refreshed(s, e) /\ SlotInv(e) /\ SlotKept(s, e)
       /\ s.tools.request = 0 => Refreshed(s, s) /\ SlotInv(s) /\ SlotKept(s, s)
  <2>1. Changes(s, s, {"tools"}) BY DEF Changes
  <2> QED BY <1>1, <1>4, <2>1
<1>11. /\ Refreshed(s, v) /\ SlotInv(v) /\ SlotKept(s, v)
       /\ Refreshed(s, l) /\ SlotInv(l) /\ SlotKept(s, l)
  <2>1. Changes(s, v, {"tools"}) /\ v.tools = a /\ Changes(s, l, {"tools"}) /\ l.tools = d BY <1>3
  <2> QED BY <1>1, <1>4, <2>1
<1> QED BY <1>7, <1>8, <1>9, <1>10, <1>11

\* The decision about a signal or a speed test may take the slot.
LEMMA ToolsDecidedOwns ==
    ASSUME NEW s \in State, SlotInv(s), s.modals # <<>>, Head(s.modals).kind \in Kinds,
           NEW yes \in BOOLEAN, NEW free \in BOOLEAN,
           NEW e, Changes(s, e, {"modals"}), e.modals = Tail(s.modals), SlotInv(e),
           NEW r, r = ToolsDecided(s, yes, free)
    PROVE  /\ Changes(s, r, {"modals", "slot", "desired", "calls", "tools", "helper"})
           /\ GrowsBy(s, r) /\ SlotInv(r) /\ SlotKept(s, r)
           /\ r.helper = s.helper \/ \E who \in Nat : r.helper = Sent(s.host, who)
<1> PICK q \in Questions : q = Head(s.modals) BY TailChanges
<1> PICK op \in Kinds : op = q.kind OBVIOUS
<1> PICK who \in Nat : who = q.who BY DEF Questions
<1> PICK x : x = ToolRequest(e, op, who, free) OBVIOUS
<1> PICK sub : sub = Submit(e, op, who) OBVIOUS
<1>1. e \in State /\ IsFiniteSet(e.calls) /\ e.host = s.host /\ e.helper = s.helper
  BY DEF Changes, Fields, SlotInv, SlotCore
<1>2. /\ Changes(e, x, {"slot", "desired", "calls", "tools", "helper"}) /\ GrowsBy(e, x) /\ SlotKept(e, x)
      /\ x.helper = e.helper \/ x.helper = Sent(e.host, who) BY <1>1, ToolRequestChanges
<1>3. SlotInv(x) BY <1>1, ToolRequestOwns
<1>4. e = [s EXCEPT !.modals = Tail(@)] BY DEF Changes, State, Fields
<1>5. r \in {x, e} BY <1>4 DEF ToolsDecided
<1>6. \A z \in {x, e} : /\ Changes(s, z, {"modals", "slot", "desired", "calls", "tools", "helper"})
                        /\ GrowsBy(s, z) /\ SlotKept(s, z) BY <1>2 DEF Changes, Fields, GrowsBy, SlotKept
<1> QED BY <1>1, <1>2, <1>3, <1>5, <1>6

----
(* The agent and its clients. *)

\* What is tidied up concerns nobody who waits.
LEMMA TidiedOwns ==
    ASSUME NEW s \in State, SlotInv(s)
    PROVE  SlotInv(Tidied(s))
<1> PICK r : r = Tidied(s) OBVIOUS
<1>1. /\ Changes(s, r, {"socks"}) /\ \A k \in Sockets : r.socks[k] \in {s.socks[k], NoSocket} BY TidiedChanges
<1>2. /\ r.calls = s.calls /\ r.slot = s.slot /\ r.modals = s.modals /\ r.pending = s.pending
      /\ r.flag = s.flag /\ r.up = s.up /\ r.connecting = s.connecting /\ r.host = s.host /\ r.run = s.run
      /\ r.dialog = s.dialog /\ r.tools = s.tools BY <1>1 DEF Changes, Fields
<1>3. /\ NoSocket.req = 0 /\ NoSocket.reply = 0 /\ NoSocket.said = 0 /\ NoSocket.asked = FALSE BY DEF NoSocket
<1>4. \A k \in Sockets : ToldOnce(r, k) BY <1>1, <1>3 DEF SlotInv, SlotCore, SocketsFit, ToldOnce, Untold
<1>5. Waiting(r) BY <1>1, <1>2, <1>3 DEF SlotInv, SlotCore, SocketsFit, Waiting, Untold
<1>6. Running(r) BY <1>1, <1>2, <1>3 DEF SlotInv, SlotCore, SocketsFit, Running
<1>7. \A i \in DOMAIN s.modals : s.modals[i].kind = "command" /\ s.modals[i].who \in Sockets =>
        r.socks[s.modals[i].who] = s.socks[s.modals[i].who] BY DEF Tidied, State
<1>8. Asked(r) BY <1>2, <1>7 DEF SlotInv, SlotCore, SocketsFit, Asked, Untold
<1> QED BY <1>2, <1>4, <1>5, <1>6, <1>8 DEF SlotInv, SlotCore, SocketsFit, Questioned, Numbered, Owned, Attached

\* A client is told once, when nothing else stands for it any longer.
LEMMA ReplyFits ==
    ASSUME NEW s \in State, SocketsFit(s), NEW k \in Sockets, NEW what \in {Refused, k},
           Untold(s, k), ~s.socks[k].asked, s.pending # 0 => s.socks[k].req # s.pending,
           \A i \in DOMAIN s.modals : s.modals[i].kind = "command" => s.modals[i].who # k
    PROVE  SocketsFit(Reply(s, k, what)) /\ Changes(s, Reply(s, k, what), {"socks"})
<1> PICK r : r = Reply(s, k, what) OBVIOUS
<1>1. Changes(s, r, {"socks"})
  <2>1. what \in Nat \cup {Refused} BY DEF Sockets
  <2> QED BY <2>1, ReplyChanges
<1>2. /\ r.calls = s.calls /\ r.modals = s.modals /\ r.pending = s.pending /\ r.run = s.run
  BY <1>1 DEF Changes, Fields
<1>3. /\ \A j \in Sockets \ {k} : r.socks[j] = s.socks[j]
      /\ r.socks[k].req = s.socks[k].req /\ ~r.socks[k].asked
      /\ r.socks[k].reply \in {0, Refused, k} /\ r.socks[k].said \in {0, 1}
  <2> PICK f \in [Sockets -> SocketStates] : f = s.socks BY DEF State
  <2> PICK g \in SocketStates : g = f[k] OBVIOUS
  <2>1. g.reply = 0 /\ g.said = 0 /\ ~g.asked BY DEF Untold
  <2>2. r.socks = f \/ r.socks = [f EXCEPT ![k] = [g EXCEPT !.reply = what, !.said = g.said + 1]]
    BY DEF Reply, State, SocketStates
  <2>3. g.said + 1 = 1 BY <2>1
  <2> PICK h : h = [g EXCEPT !.reply = what, !.said = 1] OBVIOUS
  <2>4. h.req = g.req /\ ~h.asked /\ h.reply = what /\ h.said = 1 BY <2>1 DEF SocketStates
  <2>5. r.socks = f \/ r.socks = [f EXCEPT ![k] = h] BY <2>2, <2>3
  <2> QED BY <2>1, <2>4, <2>5
<1>4. \A j \in Sockets : ToldOnce(r, j) BY <1>3 DEF SocketsFit, ToldOnce, Untold
<1>5. Waiting(r) /\ Running(r) BY <1>2, <1>3 DEF SocketsFit, Waiting, Running, Untold
<1>6. Asked(r) BY <1>2, <1>3 DEF SocketsFit, Asked, Untold
<1> QED BY <1>1, <1>4, <1>5, <1>6 DEF SocketsFit

\* A reply to a client for which nothing stands keeps what holds of the slot.
LEMMA ReplyOwns ==
    ASSUME NEW s \in State, SlotCore(s), NEW k \in Sockets, NEW what \in {Refused, k},
           Untold(s, k), ~s.socks[k].asked, s.pending # 0 => s.socks[k].req # s.pending,
           \A i \in DOMAIN s.modals : s.modals[i].kind = "command" => s.modals[i].who # k
    PROVE  SlotCore(Reply(s, k, what))
<1> PICK r : r = Reply(s, k, what) OBVIOUS
<1>0. SocketsFit(s) BY DEF SlotCore
<1>1. Changes(s, r, {"socks"}) /\ SocketsFit(r) BY <1>0, ReplyFits
<1>2. /\ r.calls = s.calls /\ r.slot = s.slot /\ r.modals = s.modals /\ r.pending = s.pending
      /\ r.flag = s.flag /\ r.up = s.up /\ r.connecting = s.connecting
      /\ r.dialog = s.dialog /\ r.tools = s.tools BY <1>1 DEF Changes, Fields
<1> QED BY <1>1, <1>2 DEF SlotCore, Questioned, Numbered, Owned

\* When a client closes, only its own command is given up.
LEMMA ClosedOwns ==
    ASSUME NEW s \in State, SlotCore(s), NEW k \in Sockets
    PROVE  /\ SlotCore(Closed(s, k))
           /\ Closed(s, k).socks[k].state = "closed"
           /\ \A j \in Sockets : Closed(s, k).socks[j].req = s.socks[j].req
           /\ Closed(s, k).desired # s.desired => s.pending # 0 /\ s.pending = s.socks[k].req
<1> PICK r : r = Closed(s, k) OBVIOUS
<1>1. Changes(s, r, {"socks", "client", "desired"}) BY ClosedChanges
<1>2. /\ r.calls = s.calls /\ r.slot = s.slot /\ r.modals = s.modals /\ r.pending = s.pending
      /\ r.flag = s.flag /\ r.up = s.up /\ r.connecting = s.connecting /\ r.host = s.host /\ r.run = s.run
      /\ r.dialog = s.dialog /\ r.tools = s.tools BY <1>1 DEF Changes, Fields
<1>3. r.socks = [s.socks EXCEPT ![k].state = "closed"] /\ (r.desired # s.desired => s.pending # 0 /\ s.pending = s.socks[k].req)
  BY DEF Closed, CancelAgentCommand, Cancel, State
<1>4. /\ \A j \in Sockets : /\ r.socks[j].req = s.socks[j].req /\ r.socks[j].asked = s.socks[j].asked
                            /\ r.socks[j].reply = s.socks[j].reply /\ r.socks[j].said = s.socks[j].said
                            /\ r.socks[j].token = s.socks[j].token
                            /\ r.socks[j].state \in {s.socks[j].state, "closed"}
      /\ r.socks[k].state = "closed" BY <1>3 DEF State, SocketStates
<1>5. SocketsFit(r) BY <1>2, <1>4 DEF SlotCore, SocketsFit, Asked, Waiting, Running, ToldOnce, Untold
<1> QED BY <1>2, <1>3, <1>4, <1>5 DEF SlotCore, Questioned, Numbered, Owned

\* When the agent ends, only its own command is given up.
LEMMA AgentEndedOwns ==
    ASSUME NEW s \in State, SlotCore(s)
    PROVE  /\ SlotCore(AgentEnded(s)) /\ ~AgentEnded(s).running
           /\ AgentEnded(s).desired # s.desired => s.pending # 0
<1> PICK off : off = [s EXCEPT !.running = FALSE] OBVIOUS
<1> PICK given : given = IF off.pending # 0 THEN CancelAgentCommand(off) ELSE off OBVIOUS
<1>1. Changes(s, off, {"running"}) /\ ~off.running BY DEF Changes, State, Fields
<1>2. Changes(off, given, {"desired"}) BY <1>1, CancelChanges DEF Changes
<1>3. given \in State /\ SameSlot(s, given) /\ ~given.running BY <1>1, <1>2 DEF Changes, Fields, SameSlot
<1>4. SlotCore(given) BY <1>3, SlotCoreStays
<1>5. given.client # 0 => given.client \in Sockets BY <1>3 DEF State
<1>6. given.client # 0 => SlotCore(Closed(given, given.client)) /\ Changes(given, Closed(given, given.client), {"socks", "client", "desired"})
  BY <1>3, <1>4, <1>5, ClosedOwns, ClosedChanges
<1>7. given.client # 0 => ~Closed(given, given.client).running BY <1>3, <1>6 DEF Changes, Fields
<1>8. given.pending = s.pending /\ (given.desired # s.desired => s.pending # 0)
  <2>1. off.pending = s.pending /\ off.desired = s.desired /\ given.pending = off.pending
    BY <1>1, <1>2 DEF Changes, Fields
  <2> QED BY <2>1
<1>9. given.client # 0 => (Closed(given, given.client).desired # given.desired => given.pending # 0)
  BY <1>3, <1>4, <1>5, ClosedOwns
<1> QED BY <1>3, <1>4, <1>6, <1>7, <1>8, <1>9 DEF AgentEnded

----
(* Questions. *)

\* A question is opened on top of others of other kinds.
LEMMA QuestionAsked ==
    ASSUME NEW s \in State, Questioned(s), NEW q \in Questions,
           \A i \in DOMAIN s.modals : s.modals[i].kind # q.kind,
           q.kind \in {"command", "plan"} \/ s.modals = <<>>,
           NEW r \in State, r.modals = <<q>> \o s.modals,
           r.dialog.request = 0 \/ (r.dialog.request = s.dialog.request /\ r.dialog.op = s.dialog.op),
           q.kind = "plan" => r.dialog.request = 0
    PROVE  /\ Questioned(r)
           /\ \A i \in DOMAIN r.modals : r.modals[i] = q \/ \E j \in DOMAIN s.modals : r.modals[i] = s.modals[j]
<1> PICK m \in Seq(Questions) : m = s.modals BY DEF State
<1> PICK n \in Seq(Questions) : n = r.modals BY DEF State
<1>1. /\ Len(n) = Len(m) + 1 /\ DOMAIN n = 1 .. Len(m) + 1 /\ DOMAIN m = 1 .. Len(m) /\ Len(m) \in Nat
      /\ n[1] = q /\ \A i \in 2 .. Len(m) + 1 : n[i] = m[i - 1] /\ i - 1 \in 1 .. Len(m) OBVIOUS
<1>2. /\ \A i, k \in 1 .. Len(m) : m[i].kind = m[k].kind => i = k
      /\ \A i \in 1 .. Len(m) : m[i].kind \notin {"command", "plan"} => i = Len(m)
      /\ \A i \in 1 .. Len(m) : m[i].kind = "plan" => s.dialog.request = 0 \/ s.dialog.op # "plan"
      /\ \A i \in 1 .. Len(m) : m[i].kind # q.kind
      /\ q.kind \in {"command", "plan"} \/ Len(m) = 0 BY <1>1 DEF Questioned
<1>3. ASSUME NEW i \in 1 .. Len(m) + 1
      PROVE  i = 1 \/ (i - 1 \in 1 .. Len(m) /\ n[i] = m[i - 1])
  <2>1. i = 1 \/ i \in 2 .. Len(m) + 1 BY <1>1
  <2> QED BY <1>1, <2>1
<1>4. ASSUME NEW i \in 1 .. Len(m) + 1, NEW k \in 1 .. Len(m) + 1, n[i].kind = n[k].kind
      PROVE  i = k
  <2>1. CASE i = 1 BY <1>1, <1>2, <1>3, <1>4, <2>1
  <2>2. CASE k = 1 BY <1>1, <1>2, <1>3, <1>4, <2>2
  <2>3. CASE i # 1 /\ k # 1
    <3>1. i - 1 \in 1 .. Len(m) /\ k - 1 \in 1 .. Len(m) /\ m[i - 1].kind = m[k - 1].kind BY <1>3, <1>4, <2>3
    <3>2. i - 1 = k - 1 BY <1>2, <3>1
    <3> QED BY <3>2
  <2> QED BY <2>1, <2>2, <2>3
<1>5. ASSUME NEW i \in 1 .. Len(m) + 1
      PROVE  /\ n[i].kind \notin {"command", "plan"} => i = Len(n)
             /\ n[i].kind = "plan" => r.dialog.request = 0 \/ r.dialog.op # "plan"
             /\ n[i] = q \/ \E j \in DOMAIN m : n[i] = m[j]
  <2>1. CASE i = 1 BY <1>1, <1>2, <2>1
  <2>2. CASE i # 1
    <3>1. i - 1 \in 1 .. Len(m) /\ n[i] = m[i - 1] BY <1>3, <2>2
    <3>2. i - 1 = Len(m) => i = Len(n) BY <1>1
    <3> QED BY <1>1, <1>2, <3>1, <3>2
  <2> QED BY <2>1, <2>2
<1> QED BY <1>1, <1>4, <1>5 DEF Questioned

\* The question on top is decided: no other of its kind is left.
LEMMA QuestionDecided ==
    ASSUME NEW s \in State, s.modals # <<>>, Questioned(s),
           NEW r \in State, r.modals = Tail(s.modals), r.dialog = s.dialog
    PROVE  /\ Questioned(r) /\ 1 \in DOMAIN s.modals /\ Head(s.modals) = s.modals[1]
           /\ \A i \in DOMAIN r.modals :
                 r.modals[i].kind # Head(s.modals).kind /\ \E j \in DOMAIN s.modals : r.modals[i] = s.modals[j]
<1> PICK m \in Seq(Questions) : m = s.modals BY DEF State
<1> PICK n \in Seq(Questions) : n = r.modals BY DEF State
<1>1. /\ Len(m) = Len(n) + 1 /\ DOMAIN m = 1 .. Len(n) + 1 /\ DOMAIN n = 1 .. Len(n) /\ Len(n) \in Nat
      /\ Head(m) = m[1] /\ \A i \in 1 .. Len(n) : n[i] = m[i + 1] /\ i + 1 \in 1 .. Len(n) + 1 OBVIOUS
<1>2. /\ \A i, k \in 1 .. Len(n) + 1 : m[i].kind = m[k].kind => i = k
      /\ \A i \in 1 .. Len(n) + 1 : m[i].kind \notin {"command", "plan"} => i = Len(m)
      /\ \A i \in 1 .. Len(n) + 1 : m[i].kind = "plan" => s.dialog.request = 0 \/ s.dialog.op # "plan"
  BY <1>1 DEF Questioned
<1>3. ASSUME NEW i \in 1 .. Len(n), NEW k \in 1 .. Len(n), n[i].kind = n[k].kind
      PROVE  i = k
  <2>1. i + 1 = k + 1 BY <1>1, <1>2, <1>3
  <2> QED BY <2>1
<1>4. ASSUME NEW i \in 1 .. Len(n)
      PROVE  /\ n[i].kind \notin {"command", "plan"} => i = Len(n)
             /\ n[i].kind = "plan" => r.dialog.request = 0 \/ r.dialog.op # "plan"
             /\ n[i].kind # Head(m).kind
             /\ \E j \in DOMAIN m : n[i] = m[j]
  <2>1. n[i] = m[i + 1] /\ i + 1 \in 1 .. Len(n) + 1 /\ 1 \in 1 .. Len(n) + 1 /\ i + 1 # 1 BY <1>1
  <2>2. i + 1 = Len(m) => i = Len(n) BY <1>1
  <2>3. n[i].kind # Head(m).kind BY <1>1, <1>2, <2>1
  <2>4. n[i].kind \notin {"command", "plan"} => i = Len(n) BY <1>2, <2>1, <2>2
  <2>5. n[i].kind = "plan" => r.dialog.request = 0 \/ r.dialog.op # "plan" BY <1>2, <2>1
  <2>6. \E j \in DOMAIN m : n[i] = m[j] BY <1>1, <2>1
  <2> QED BY <2>3, <2>4, <2>5, <2>6
<1>5. Questioned(r) BY <1>1, <1>3, <1>4 DEF Questioned
<1>6. \A i \in DOMAIN n : n[i].kind # Head(m).kind /\ \E j \in DOMAIN m : n[i] = m[j] BY <1>1, <1>4
<1>7. 1 \in DOMAIN m /\ Head(m) = m[1] BY <1>1
<1> QED BY <1>5, <1>6, <1>7

\* What is left is still as it was.
LEMMA DecidedOwns ==
    ASSUME NEW s \in State, s.modals # <<>>, SlotInv(s),
           NEW r, r = Rest(s)
    PROVE  SlotInv(r) /\ Changes(s, r, {"modals"}) /\ r.modals = Tail(s.modals)
<1>1. Changes(s, r, {"modals"}) /\ r.modals = Tail(s.modals) BY TailChanges
<1>2. r \in State /\ r.dialog = s.dialog BY <1>1 DEF Changes, Fields
<1>3. Questioned(r) /\ \A i \in DOMAIN r.modals : \E j \in DOMAIN s.modals : r.modals[i] = s.modals[j]
  BY <1>1, <1>2, QuestionDecided DEF SlotInv, SlotCore
<1>4. /\ r.calls = s.calls /\ r.slot = s.slot /\ r.pending = s.pending /\ r.socks = s.socks
      /\ r.flag = s.flag /\ r.up = s.up /\ r.connecting = s.connecting /\ r.host = s.host /\ r.run = s.run
      /\ r.tools = s.tools BY <1>1 DEF Changes, Fields
<1>5. Asked(r) BY <1>3, <1>4 DEF SlotInv, SlotCore, SocketsFit, Asked, Untold
<1>6. Waiting(r) /\ Running(r) /\ \A k \in Sockets : ToldOnce(r, k)
  BY <1>4 DEF SlotInv, SlotCore, SocketsFit, Waiting, Running, ToldOnce, Untold
<1> QED BY <1>1, <1>2, <1>3, <1>4, <1>5, <1>6 DEF SlotInv, SlotCore, SocketsFit, Numbered, Owned, Attached

----
(* The agent's requests keep the slot in order. *)

\* A reply changes nothing else of a client.
LEMMA ReplySockets ==
    ASSUME NEW s \in State, NEW k \in Sockets, NEW what \in {Refused, k}
    PROVE  \A j \in Sockets : LET r == Reply(s, k, what) IN
              r.socks[j].req = s.socks[j].req /\ r.socks[j].state = s.socks[j].state
<1> PICK f \in [Sockets -> SocketStates] : f = s.socks BY DEF State
<1> PICK g \in SocketStates : g = f[k] OBVIOUS
<1> PICK r : r = Reply(s, k, what) OBVIOUS
<1> PICK n \in Nat : n = g.said + 1 BY DEF SocketStates
<1> PICK h : h = [g EXCEPT !.reply = what, !.said = n] OBVIOUS
<1>1. h.req = g.req /\ h.state = g.state BY DEF SocketStates
<1>2. r.socks = f \/ r.socks = [f EXCEPT ![k] = h] BY DEF Reply, State, SocketStates
<1> QED BY <1>1, <1>2

\* A line that was read is not read again.
LineRead(s, k) == [s EXCEPT !.socks[k].asked = FALSE]

\* The client whose line was read stands nowhere else.
LEMMA LineReadOwns ==
    ASSUME NEW s \in State, SlotInv(s), NEW k \in Sockets, Open(s, k), s.socks[k].asked,
           NEW r, r = LineRead(s, k)
    PROVE  /\ Changes(s, r, {"socks"}) /\ SlotInv(r)
           /\ Untold(r, k) /\ r.socks[k].req = 0 /\ ~r.socks[k].asked /\ r.socks[k].state = "open"
           /\ \A i \in DOMAIN r.modals : r.modals[i].kind = "command" => r.modals[i].who # k
<1>1. /\ Changes(s, r, {"socks"}) /\ \A j \in Sockets \ {k} : r.socks[j] = s.socks[j]
      /\ r.socks[k] = [s.socks[k] EXCEPT !.asked = FALSE]
  <2>0. r = [s EXCEPT !.socks = [s.socks EXCEPT ![k].asked = FALSE]] BY DEF LineRead, State
  <2>1. r.socks = [s.socks EXCEPT ![k].asked = FALSE] BY <2>0 DEF State
  <2>2. r.socks \in [Sockets -> SocketStates]
    <3> PICK f \in [Sockets -> SocketStates] : f = s.socks BY DEF State
    <3>1. [f[k] EXCEPT !.asked = FALSE] \in SocketStates BY DEF SocketStates
    <3> QED BY <2>1, <3>1
  <2>3. Changes(s, r, {"socks"}) BY <2>0, <2>2 DEF Changes, State, Fields
  <2>4. s.socks \in [Sockets -> SocketStates] BY DEF State
  <2> QED BY <2>1, <2>3, <2>4
<1>2. s.socks[k] \in SocketStates BY DEF State
<1>3. s.socks[k].req = 0 /\ s.socks[k].reply = 0 /\ s.socks[k].said = 0 /\ s.socks[k].state = "open"
  BY DEF SlotInv, SlotCore, SocketsFit, ToldOnce, Untold, Open
<1>4. /\ r.socks[k].req = 0 /\ r.socks[k].reply = 0 /\ r.socks[k].said = 0 /\ r.socks[k].state = "open"
      /\ ~r.socks[k].asked BY <1>1, <1>2, <1>3 DEF SocketStates
<1>5. /\ r.calls = s.calls /\ r.slot = s.slot /\ r.modals = s.modals /\ r.pending = s.pending
      /\ r.flag = s.flag /\ r.up = s.up /\ r.connecting = s.connecting /\ r.host = s.host /\ r.run = s.run
      /\ r.dialog = s.dialog /\ r.tools = s.tools BY <1>1 DEF Changes, Fields
<1>6. \A i \in DOMAIN s.modals : s.modals[i].kind = "command" => s.modals[i].who # k
  BY DEF SlotInv, SlotCore, SocketsFit, Asked
<1>7. \A j \in Sockets \ {k} : r.socks[j] = s.socks[j] BY <1>1
<1>8. Asked(r) BY <1>5, <1>6, <1>7 DEF SlotInv, SlotCore, SocketsFit, Asked, Untold
<1>9. Waiting(r) /\ Running(r) BY <1>4, <1>5, <1>7 DEF SlotInv, SlotCore, SocketsFit, Waiting, Running, Untold
<1>10. \A j \in Sockets : ToldOnce(r, j) BY <1>4, <1>7 DEF SlotInv, SlotCore, SocketsFit, ToldOnce, Untold
<1>11. Questioned(r) /\ Numbered(r) /\ Owned(r) /\ Attached(r)
  BY <1>5 DEF SlotInv, SlotCore, Questioned, Numbered, Owned, Attached
<1>12. SlotInv(r) BY <1>5, <1>8, <1>9, <1>10, <1>11 DEF SlotInv, SlotCore, SocketsFit
<1> QED BY <1>1, <1>4, <1>5, <1>6, <1>12 DEF Untold

\* The question of a command is opened for a client of this launch that was told nothing.
LEMMA CommandAsked ==
    ASSUME NEW r \in State, SlotInv(r), NEW k \in Sockets, ~Busy(r), r.socks[k].token = r.run,
           Untold(r, k), r.socks[k].req = 0, ~r.socks[k].asked, r.socks[k].state = "open",
           NEW z, z = Ask([r EXCEPT !.client = k], Question("command", k, r.host))
    PROVE  SlotInv(z) /\ z.desired = r.desired
<1> PICK q \in Questions : q = Question("command", k, r.host) BY DEF Question, Questions, State, Sockets
<1>0. q.kind = "command" /\ q.who = k BY DEF Question
<1>1. Changes(r, z, {"client", "modals"}) /\ z.modals = <<q>> \o r.modals
  <2>1. r.modals \in Seq(Questions) BY DEF State
  <2>2. <<q>> \o r.modals \in Seq(Questions) BY <2>1
  <2> QED BY <2>2 DEF Ask, Changes, State, Fields
<1>2. /\ z \in State /\ z.calls = r.calls /\ z.slot = r.slot /\ z.pending = r.pending /\ z.socks = r.socks
      /\ z.flag = r.flag /\ z.up = r.up /\ z.connecting = r.connecting /\ z.host = r.host /\ z.run = r.run
      /\ z.dialog = r.dialog /\ z.tools = r.tools /\ z.desired = r.desired BY <1>1 DEF Changes, Fields
<1>3. \A i \in DOMAIN r.modals : r.modals[i].kind # q.kind BY <1>0 DEF Busy
<1>4. /\ Questioned(z)
      /\ \A i \in DOMAIN z.modals : z.modals[i] = q \/ \E j \in DOMAIN r.modals : z.modals[i] = r.modals[j]
  <2>1. Questioned(r) /\ (q.kind = "plan" => z.dialog.request = 0) BY <1>0 DEF SlotInv, SlotCore
  <2>2. /\ q.kind \in {"command", "plan"} \/ r.modals = <<>>
        /\ z.dialog.request = 0 \/ (z.dialog.request = r.dialog.request /\ z.dialog.op = r.dialog.op)
    BY <1>0, <1>2
  <2> QED BY <1>1, <1>2, <1>3, <2>1, <2>2, QuestionAsked
<1>5. ASSUME NEW i \in DOMAIN z.modals, z.modals[i].kind = "command"
      PROVE  /\ z.modals[i].who \in Sockets
             /\ LET j == z.modals[i].who IN
                /\ Untold(z, j) /\ z.socks[j].req = 0 /\ ~z.socks[j].asked /\ z.socks[j].state # "none"
                /\ z.socks[j].token = z.run
  <2>1. CASE z.modals[i] = q BY <1>0, <1>2, <2>1 DEF Untold
  <2>2. CASE z.modals[i] # q
    <3> PICK j \in DOMAIN r.modals : z.modals[i] = r.modals[j] BY <1>4, <2>2
    <3> QED BY <1>2, <1>5 DEF SlotInv, SlotCore, SocketsFit, Asked, Untold
  <2> QED BY <2>1, <2>2
<1>6. Asked(z) BY <1>5 DEF Asked
<1>7. Waiting(z) /\ Running(z) /\ \A j \in Sockets : ToldOnce(z, j)
  BY <1>2 DEF SlotInv, SlotCore, SocketsFit, Waiting, Running, ToldOnce, Untold
<1>8. Numbered(z) /\ Owned(z) /\ Attached(z) BY <1>2 DEF SlotInv, SlotCore, Numbered, Owned, Attached
<1> QED BY <1>2, <1>4, <1>6, <1>7, <1>8 DEF SlotInv, SlotCore, SocketsFit

\* Whatever the line asks, the client is told once and no call is given up.
LEMMA HandleBridgeRequestOwns ==
    ASSUME NEW s \in State, SlotInv(s), NEW k \in Sockets, Open(s, k), s.socks[k].asked
    PROVE  SlotInv(HandleBridgeRequest(s, k)) /\ HandleBridgeRequest(s, k).desired = s.desired
<1> DEFINE r == LineRead(s, k)
           x == Reply(r, k, Refused)
           y == Closed(x, k)
           z == Ask([r EXCEPT !.client = k], Question("command", k, r.host))
<1>1. /\ Changes(s, r, {"socks"}) /\ SlotInv(r)
      /\ Untold(r, k) /\ r.socks[k].req = 0 /\ ~r.socks[k].asked /\ r.socks[k].state = "open"
      /\ \A i \in DOMAIN r.modals : r.modals[i].kind = "command" => r.modals[i].who # k BY LineReadOwns
<1> HIDE DEF r
<1>2. r \in State /\ r.desired = s.desired /\ SlotCore(r) BY <1>1 DEF Changes, Fields, SlotInv
<1>3. SlotCore(x) BY <1>1, <1>2, ReplyOwns
<1>4. Changes(r, x, {"socks"}) /\ x.socks[k].req = 0 BY <1>1, <1>2, ReplyChanges, ReplySockets
<1> HIDE DEF x
<1>5. SlotInv(x) /\ x.desired = r.desired /\ x \in State
  BY <1>1, <1>3, <1>4 DEF SlotInv, Attached, Changes, Fields
<1>6. SlotCore(y) /\ y.desired = x.desired /\ Changes(x, y, {"socks", "client", "desired"})
  BY <1>3, <1>4, <1>5, ClosedOwns, ClosedChanges
<1>7. ~Busy(r) /\ r.socks[k].token = r.run => SlotInv(z) /\ z.desired = r.desired BY <1>1, <1>2, CommandAsked
<1> HIDE DEF y, z
<1>8. SlotInv(y) BY <1>5, <1>6 DEF SlotInv, Attached, Changes, Fields
<1>9. \/ HandleBridgeRequest(s, k) = y \/ HandleBridgeRequest(s, k) = x
      \/ ~Busy(r) /\ r.socks[k].token = r.run /\ HandleBridgeRequest(s, k) = z
  BY DEF HandleBridgeRequest, LineRead, r, x, y, z
<1> QED BY <1>2, <1>5, <1>6, <1>7, <1>8, <1>9

\* What the decision about a command submits is asked for by an open client of this launch, of the
\* host that the question named.
LEMMA CommandDecidedOwns ==
    ASSUME NEW s \in State, SlotInv(s), s.modals # <<>>, Head(s.modals).kind = "command",
           NEW yes \in BOOLEAN, NEW free \in BOOLEAN, NEW x, x = Decided(s, yes, free)
    PROVE  /\ SlotInv(x) /\ Head(s.modals).who \in Sockets
           /\ x.calls = s.calls \/
              LET k == Head(s.modals).who
              IN  /\ x.calls \subseteq s.calls \cup {Call(x.slot, "command", k)}
                  /\ Open(s, k) /\ s.running /\ s.up /\ s.socks[k].token = s.run
                  /\ Head(s.modals).host = s.host
           /\ SlotKept(s, x)
<1> DEFINE q == Head(s.modals)
           r == Rest(s)
           told == Reply(r, q.who, Refused)
           sub == Submit(r, "command", q.who)
           ran == RunAgentCommand(r, q.who)
           done == [ran EXCEPT !.pending = ran.slot, !.socks[q.who].req = ran.slot]
<1>1. SlotInv(r) /\ Changes(s, r, {"modals"}) /\ r.modals = Tail(s.modals) BY DecidedOwns
<1>2. /\ r \in State /\ r.calls = s.calls /\ r.slot = s.slot /\ r.pending = s.pending /\ r.socks = s.socks
      /\ r.flag = s.flag /\ r.up = s.up /\ r.connecting = s.connecting /\ r.host = s.host /\ r.run = s.run
      /\ r.dialog = s.dialog /\ r.tools = s.tools /\ r.running = s.running /\ r.desired = s.desired
  BY <1>1 DEF Changes, Fields
<1>3. /\ \A i \in DOMAIN r.modals : r.modals[i].kind # "command"
      /\ 1 \in DOMAIN s.modals /\ q = s.modals[1]
  <2>1. Questioned(s) BY DEF SlotInv, SlotCore
  <2>2. /\ 1 \in DOMAIN s.modals /\ q = s.modals[1]
        /\ \A i \in DOMAIN r.modals : r.modals[i].kind # Head(s.modals).kind
    <3> HIDE DEF r
    <3> QED BY <1>1, <1>2, <2>1, QuestionDecided
  <2> QED BY <2>2
<1>4. /\ q.who \in Sockets /\ Untold(s, q.who) /\ s.socks[q.who].req = 0 /\ ~s.socks[q.who].asked
      /\ s.socks[q.who].token = s.run BY <1>3 DEF SlotInv, SlotCore, SocketsFit, Asked
<1> HIDE DEF r
<1> DEFINE k == q.who
<1>5. k \in Sockets /\ Untold(r, k) /\ r.socks[k].req = 0 /\ ~r.socks[k].asked BY <1>2, <1>4 DEF Untold
<1>6. \/ x = r \/ x = told
      \/ x = done /\ Open(s, k) /\ s.running /\ s.up /\ q.host = s.host /\ CanRun(r, free)
  <2>1. x = LET w == [s EXCEPT !.modals = Tail(@)] IN
            IF ~Open(w, k) \/ ~w.running THEN w
            ELSE IF ~yes \/ w.client = 0 \/ w.host # q.host \/ ~CanRun(w, free) THEN Reply(w, k, Refused)
            ELSE [RunAgentCommand(w, k) EXCEPT !.pending = RunAgentCommand(w, k).slot, !.socks[k].req = RunAgentCommand(w, k).slot]
    BY DEF Decided
  <2>2. r = [s EXCEPT !.modals = Tail(@)] BY DEF r, Rest
  <2> QED BY <1>2, <2>1, <2>2 DEF CanRun, Open
<1> HIDE DEF q, told, k
<1>7. SlotCore(told) /\ Changes(r, told, {"socks"})
  <2>1. SlotCore(told) BY <1>1, <1>2, <1>3, <1>5, ReplyOwns DEF told, k, SlotInv
  <2> QED BY <1>2, <1>5, <2>1, ReplyChanges DEF told, k
<1>8. /\ SlotInv(told) /\ told.calls = s.calls /\ told.slot = s.slot /\ told.desired = s.desired
  BY <1>1, <1>2, <1>7 DEF SlotInv, Attached, Changes, Fields
<1>9. CASE x = done /\ Open(s, k) /\ s.running /\ s.up /\ q.host = s.host /\ CanRun(r, free)
  <2>1. /\ Changes(r, sub, {"slot", "desired", "calls"}) /\ sub.slot \in Nat \ {0} /\ sub.desired = sub.slot
        /\ sub.calls = s.calls \cup {Call(sub.slot, "command", k)} /\ IsFiniteSet(sub.calls)
        /\ Numbered(sub) /\ (\A j \in Sockets : r.socks[j].req # sub.slot)
        /\ \A c \in sub.calls : c.id = sub.slot => c.what = "command" /\ c.who = k
    <3> PICK w \in Nat : w = k BY <1>5 DEF Sockets
    <3> PICK v : v = Submit(r, "command", w) OBVIOUS
    <3>1. IsFiniteSet(r.calls) BY <1>1 DEF SlotInv, SlotCore
    <3> QED BY <1>1, <1>2, <3>1, SubmitTakesSlot, SubmittedIsNumbered DEF k
  <2>2. ran = [sub EXCEPT !.flag = TRUE] BY DEF RunAgentCommand
  <2> HIDE DEF sub
  <2>3. Changes(sub, ran, {"flag"}) /\ ran.flag = TRUE BY <2>1, <2>2 DEF Changes, State, Fields
  <2> HIDE DEF ran
  <2>4. ran.slot = sub.slot /\ ran.calls = sub.calls /\ ran.socks = r.socks /\ ran.desired = sub.desired
    BY <2>1, <2>3 DEF Changes, Fields
  <2>5. /\ Changes(ran, x, {"pending", "socks"}) /\ x.pending = sub.slot
        /\ x.socks = [r.socks EXCEPT ![k].req = sub.slot]
    <3>1. [r.socks EXCEPT ![k].req = sub.slot] \in [Sockets -> SocketStates]
      <4> PICK f \in [Sockets -> SocketStates] : f = r.socks BY <1>2 DEF State
      <4> PICK n \in Nat : n = sub.slot BY <2>1
      <4>1. [f[k] EXCEPT !.req = n] \in SocketStates BY <1>5 DEF SocketStates
      <4> QED BY <4>1
    <3>2. ran \in State /\ sub.slot \in Nat BY <2>1, <2>3 DEF Changes
    <3>3. x = [ran EXCEPT !.pending = sub.slot, !.socks = [r.socks EXCEPT ![k].req = sub.slot]]
      BY <1>9, <2>4, <3>2 DEF k, State
    <3> QED BY <3>1, <3>2, <3>3 DEF Changes, State, Fields
  <2>6. /\ x.slot = sub.slot /\ x.calls = sub.calls /\ x.flag = TRUE /\ x.modals = r.modals
        /\ x.up = r.up /\ x.connecting = r.connecting /\ x.host = r.host /\ x.run = r.run
        /\ x.dialog = r.dialog /\ x.tools = r.tools /\ x.desired = x.slot
    BY <2>1, <2>3, <2>4, <2>5 DEF Changes, Fields
  <2>7. /\ \A j \in Sockets \ {k} : x.socks[j] = r.socks[j]
        /\ x.socks[k].req = x.slot /\ Untold(x, k) /\ ~x.socks[k].asked
    BY <1>2, <1>5, <2>5, <2>6 DEF State, SocketStates, Untold
  <2>8. r.slot = 0 /\ r.up BY <1>9 DEF CanRun
  <2>9. r.pending = 0 /\ r.dialog.request = 0 /\ r.tools.request = 0 BY <1>1, <2>8 DEF SlotInv, SlotCore, Owned
  <2>10. Owned(x) /\ Numbered(x) /\ Questioned(x) /\ Attached(x)
    BY <1>1, <2>1, <2>5, <2>6, <2>9 DEF SlotInv, SlotCore, Owned, Numbered, Questioned, Attached
  <2>11. Asked(x) BY <1>3, <2>6 DEF Asked
  <2>12. Waiting(x) BY <2>1, <2>5, <2>6, <2>7 DEF Waiting
  <2>13. Running(x) BY <2>1, <2>5, <2>6, <2>7 DEF Running
  <2>14. \A j \in Sockets : ToldOnce(x, j) BY <1>1, <2>7 DEF SlotInv, SlotCore, SocketsFit, ToldOnce, Untold
  <2>15. SlotInv(x) BY <1>1, <2>1, <2>6, <2>10, <2>11, <2>12, <2>13, <2>14 DEF SlotInv, SlotCore, SocketsFit
  <2>16. x.calls \subseteq s.calls \cup {Call(x.slot, "command", k)} BY <2>1, <2>6
  <2>17. SlotKept(s, x) BY <1>2, <2>6, <2>8 DEF SlotKept
  <2> QED BY <1>4, <1>9, <2>15, <2>16, <2>17 DEF q, k
<1>10. SlotKept(s, r) /\ SlotKept(s, told) BY <1>2, <1>8 DEF SlotKept
<1>11. CASE x = r BY <1>1, <1>2, <1>4, <1>10, <1>11 DEF q
<1>12. CASE x = told BY <1>4, <1>8, <1>10, <1>12 DEF q
<1> QED BY <1>6, <1>9, <1>11, <1>12

----
(* The end of a call. *)

\* The call in the slot has just ended, and whoever waits for it is still to be told.
Ending(s, id, who, ans) ==
    /\ IsFiniteSet(s.calls) /\ Questioned(s) /\ Numbered(s) /\ ~(s.up /\ s.connecting)
    /\ s.slot = 0 /\ s.pending \in {0, id} /\ s.dialog.request \in {0, id} /\ s.tools.request \in {0, id}
    /\ Attached(s) /\ Asked(s) /\ Waiting(s) /\ \A k \in Sockets : ToldOnce(s, k)
    /\ s.pending # 0 => \A k \in Sockets : s.socks[k].req = id => ans = "error" \/ who = k

\* The agent's client is told the result of its own command, or an error.
LEMMA AgentFinishedFits ==
    ASSUME NEW s \in State, NEW id \in Nat \ {0}, NEW who \in Nat, NEW ans \in Answers,
           Ending(s, id, who, ans),
           NEW r, r = AgentFinished(s, id, IF ans = "error" THEN Refused ELSE who)
    PROVE  Changes(s, r, {"pending", "socks"}) /\ r.pending = 0 /\ SocketsFit(r)
<1> PICK result \in Nat \cup {Refused} : result = IF ans = "error" THEN Refused ELSE who OBVIOUS
<1> PICK done : done = [s EXCEPT !.pending = 0] OBVIOUS
<1>1. Changes(s, done, {"pending"}) /\ done.pending = 0 BY DEF Changes, State, Fields
<1>2. done \in State /\ done.modals = s.modals /\ done.socks = s.socks /\ done.run = s.run
  BY <1>1 DEF Changes, Fields
<1>3. SocketsFit(done) BY <1>1, <1>2 DEF Ending, SocketsFit, Asked, Waiting, Running, ToldOnce, Untold
<1> DEFINE mine == {k \in Sockets : s.socks[k].req = id}
<1>4. r = IF id # s.pending THEN s ELSE IF mine = {} THEN done ELSE Reply(done, CHOOSE k \in mine : TRUE, result)
  BY DEF AgentFinished
<1>5. CASE id # s.pending
  <2>1. r = s /\ s.pending = 0 BY <1>4, <1>5 DEF Ending
  <2>2. SocketsFit(s) BY <2>1 DEF Ending, SocketsFit, Waiting, Running
  <2> QED BY <2>1, <2>2 DEF Changes
<1>6. CASE id = s.pending /\ mine = {}
  <2>1. r = done BY <1>4, <1>6
  <2> QED BY <1>1, <1>3, <2>1 DEF Changes, Fields
<1>7. CASE id = s.pending /\ mine # {}
  <2> PICK k \in mine : k = CHOOSE x \in mine : TRUE BY <1>7
  <2>1. r = Reply(done, k, result) BY <1>4, <1>7
  <2>2. k \in Sockets /\ s.socks[k].req = id OBVIOUS
  <2>3. result \in {Refused, k} BY <1>7, <2>2 DEF Ending
  <2>4. Untold(s, k) /\ ~s.socks[k].asked BY <1>7, <2>2 DEF Ending, Waiting, ToldOnce
  <2>5. \A i \in DOMAIN s.modals : s.modals[i].kind = "command" => s.modals[i].who # k BY <2>2 DEF Ending, Asked
  <2>6. Untold(done, k) /\ ~done.socks[k].asked BY <1>2, <2>4 DEF Untold
  <2>7. SocketsFit(r) /\ Changes(done, r, {"socks"})
    BY <1>1, <1>2, <1>3, <2>1, <2>2, <2>3, <2>5, <2>6, ReplyFits
  <2> QED BY <1>1, <2>7 DEF Changes, Fields
<1> QED BY <1>5, <1>6, <1>7

\* What the end of a call may change in what the dialog follows.
FollowsOn(s, r, who, ans) ==
    /\ r.dialog.job = s.dialog.job /\ r.dialog.target = s.dialog.target
    /\ r.dialog.active = s.dialog.active \/ r.dialog.active
         \/ (who = s.dialog.job /\ ans \in {"succeeded", "failed"})

\* The dialog takes the end of its call, and may open the question about a plan.
LEMMA DialogFinishedFits ==
    ASSUME NEW s \in State, NEW id \in Nat \ {0}, NEW who \in Nat, NEW ans \in Answers,
           Questioned(s), SocketsFit(s), Attached(s), s.dialog.request \in {0, id},
           NEW r, r = DialogFinished(s, id, who, ans)
    PROVE  /\ Changes(s, r, {"dialog", "modals"}) /\ FollowsOn(s, r, who, ans)
           /\ Questioned(r) /\ SocketsFit(r) /\ r.dialog.request = 0
<1>1. s.dialog.request # 0 => s.dialog.op \in Queries
  <2>1. s.dialog \in Dialogs BY DEF State
  <2> QED BY <2>1 DEF Attached, Dialogs
<1>2. DialogEnds(s, r, id, who, ans) BY <1>1, DialogFinishedChanges
<1>3. r.dialog.request = 0 BY <1>2 DEF DialogEnds
<1>4. /\ r \in State /\ r.calls = s.calls /\ r.pending = s.pending /\ r.socks = s.socks /\ r.run = s.run
  BY <1>2 DEF Changes, Fields, DialogEnds
<1>5. CASE r.modals = s.modals
  <2>1. Questioned(r) BY <1>3, <1>5 DEF Questioned
  <2>2. SocketsFit(r) BY <1>4, <1>5 DEF SocketsFit, Asked, Waiting, Running, ToldOnce, Untold
  <2> QED BY <1>2, <1>3, <2>1, <2>2 DEF FollowsOn, DialogEnds
<1>6. CASE r.modals # s.modals
  <2> PICK q \in Questions : q = Question("plan", NoJob, s.host) BY DEF Question, Questions, State, NoJob
  <2>1. q.kind = "plan" /\ r.modals = <<q>> \o s.modals BY <1>2, <1>6 DEF Question, DialogEnds
  <2>2. \A i \in DOMAIN s.modals : s.modals[i].kind # q.kind BY <1>2, <1>6, <2>1 DEF Questioned, DialogEnds
  <2>3. /\ Questioned(r)
        /\ \A i \in DOMAIN r.modals : r.modals[i] = q \/ \E j \in DOMAIN s.modals : r.modals[i] = s.modals[j]
    <3>1. q.kind \in {"command", "plan"} \/ s.modals = <<>> BY <2>1
    <3>2. r.dialog.request = 0 \/ (r.dialog.request = s.dialog.request /\ r.dialog.op = s.dialog.op) BY <1>3
    <3>3. q.kind = "plan" => r.dialog.request = 0 BY <1>3
    <3> QED BY <1>4, <2>1, <2>2, <3>1, <3>2, <3>3, QuestionAsked
  <2>4. Asked(r) BY <1>4, <2>1, <2>3 DEF SocketsFit, Asked, Untold
  <2>5. Waiting(r) /\ Running(r) /\ \A k \in Sockets : ToldOnce(r, k)
    BY <1>4 DEF SocketsFit, Waiting, Running, ToldOnce, Untold
  <2> QED BY <1>2, <1>3, <2>3, <2>4, <2>5 DEF FollowsOn, SocketsFit, DialogEnds
<1> QED BY <1>5, <1>6

\* What the end of a call may change in all.
FinishFields == {"pending", "socks", "dialog", "modals", "slot", "desired", "calls", "tools"}

\* The end of a call reaches its owner, who may then submit another.
LEMMA FinishOwns ==
    ASSUME NEW s \in State, NEW id \in Nat \ {0}, NEW who \in Nat, NEW ans \in Answers, NEW free \in BOOLEAN,
           Ending(s, id, who, ans),
           NEW r, r = Finish(s, id, who, ans, free)
    PROVE  /\ Changes(s, r, FinishFields) /\ GrowsBy(s, r) /\ SlotInv(r) /\ SlotKept(s, r)
           /\ FollowsOn(s, r, who, ans) /\ r.pending = 0
<1> PICK a : a = AgentFinished(s, id, IF ans = "error" THEN Refused ELSE who) OBVIOUS
<1> PICK d : d = DialogFinished(a, id, who, ans) OBVIOUS
<1> PICK ok \in BOOLEAN : ok = (ans # "error") OBVIOUS
<1>1. Changes(s, a, {"pending", "socks"}) /\ a.pending = 0 /\ SocketsFit(a) BY AgentFinishedFits
<1>2. /\ a \in State /\ a.calls = s.calls /\ a.slot = s.slot /\ a.modals = s.modals /\ a.desired = s.desired
      /\ a.up = s.up /\ a.connecting = s.connecting /\ a.host = s.host
      /\ a.dialog = s.dialog /\ a.tools = s.tools BY <1>1 DEF Changes, Fields
<1>3. Questioned(a) /\ Attached(a) /\ a.dialog.request \in {0, id} BY <1>2 DEF Ending, Questioned, Attached
<1>4. /\ Changes(a, d, {"dialog", "modals"}) /\ FollowsOn(a, d, who, ans)
      /\ Questioned(d) /\ SocketsFit(d) /\ d.dialog.request = 0 BY <1>1, <1>2, <1>3, DialogFinishedFits
<1>5. /\ d \in State /\ d.calls = s.calls /\ d.slot = 0 /\ d.pending = 0 /\ d.tools = s.tools /\ d.desired = s.desired
      /\ d.up = s.up /\ d.connecting = s.connecting /\ d.host = s.host
  BY <1>1, <1>2, <1>4 DEF Changes, Fields, Ending
<1> PICK x \in ToolStates : x = [s.tools EXCEPT !.request = 0] /\ x.request = 0
  <2> PICK o \in ToolStates : o = s.tools BY DEF State
  <2> QED BY ToolStatesClosed
<1> PICK e : e = [d EXCEPT !.tools = x] OBVIOUS
<1>6. Changes(d, e, {"tools"}) /\ e.tools = x BY <1>5 DEF Changes, State, Fields
<1>7. /\ e.calls = d.calls /\ e.slot = d.slot /\ e.pending = d.pending /\ e.socks = d.socks /\ e.modals = d.modals
      /\ e.up = d.up /\ e.connecting = d.connecting /\ e.host = d.host /\ e.dialog = d.dialog /\ e.run = d.run
  BY <1>6 DEF Changes, Fields
<1>8. SlotInv(e)
  <2>1. Owned(e) /\ Attached(e) BY <1>4, <1>5, <1>6, <1>7 DEF Owned, Attached
  <2>2. Questioned(e) /\ SocketsFit(e)
    BY <1>4, <1>7 DEF Questioned, SocketsFit, Asked, Waiting, Running, ToldOnce, Untold
  <2>3. IsFiniteSet(e.calls) /\ Numbered(e) /\ ~(e.up /\ e.connecting) BY <1>5, <1>7 DEF Ending, Numbered
  <2> QED BY <2>1, <2>2, <2>3 DEF SlotInv, SlotCore
<1>9. r = ToolsFinished(d, id, ok, free) BY DEF Finish
<1>10. Refreshed(d, r) /\ SlotInv(r) /\ SlotKept(d, r)
  <2>1. e.tools = [d.tools EXCEPT !.request = 0] /\ d.tools.request \in {0, id} BY <1>5, <1>6 DEF Ending
  <2> PICK y : y = ToolsFinished(d, id, ok, free) OBVIOUS
  <2>2. Refreshed(d, y) /\ SlotInv(y) /\ SlotKept(d, y) BY <1>5, <1>6, <1>8, <2>1, ToolsFinishedOwns
  <2> QED BY <1>9, <2>2
<1>11. Changes(s, r, FinishFields) BY <1>1, <1>4, <1>10 DEF Changes, Fields, FinishFields, Refreshed
<1>12. GrowsBy(s, r) /\ SlotKept(s, r) BY <1>2, <1>5, <1>10 DEF GrowsBy, Refreshed, SlotKept, Ending
<1>13. FollowsOn(s, r, who, ans)
  <2>1. r.dialog = d.dialog BY <1>10 DEF Refreshed, Changes, Fields
  <2> QED BY <1>2, <1>4, <2>1 DEF FollowsOn
<1>14. r.pending = 0 BY <1>5, <1>10 DEF Refreshed, Changes, Fields
<1> QED BY <1>10, <1>11, <1>12, <1>13, <1>14

----
(* What a step may do. *)

\* A call that is new has not run, and is not a status of no job.
NewCalls(s, r) == \A c \in r.calls \ s.calls : c.ans = "none" /\ (c.what = "status" => c.who \in Jobs)

\* The servers and what is saved stay as they are.
SameWorld(s, r) ==
    /\ r.jobs = s.jobs /\ r.wire = s.wire /\ r.forgotten = s.forgotten /\ r.saved = s.saved
    /\ r.procs = s.procs /\ r.helper = s.helper /\ r.struck = s.struck /\ r.other = s.other

\* The dialog follows the same job as before, or follows it again.
SameOrActive(s, r) ==
    /\ r.dialog.job = s.dialog.job /\ r.dialog.target = s.dialog.target
    /\ r.dialog.active = s.dialog.active \/ r.dialog.active

\* What holds of the installations stays when the jobs and the saved ones do.
LEMMA InstallStays ==
    ASSUME NEW s \in State, NEW r \in State, InstallInv(s), NewCalls(s, r), SameOrActive(s, r),
           r.jobs = s.jobs, r.wire = s.wire, r.forgotten = s.forgotten, r.saved = s.saved, r.other = s.other
    PROVE  InstallInv(r)
<1>1. \A j \in Jobs : Working(r, j) = Working(s, j) BY DEF Working
<1>2. \A c \in r.calls : /\ c.what = "status" => c.who \in Jobs
                         /\ Over([phase |-> c.ans]) => c.who \in Jobs /\ Over(r.jobs[c.who])
  BY DEF InstallInv, JobsFit, NewCalls, Over
<1>3. JobsFit(r) BY <1>1, <1>2 DEF InstallInv, JobsFit
<1>4. Saved(r) BY <1>1 DEF InstallInv, Saved
<1>5. Followed(r) BY DEF InstallInv, Followed, SameOrActive
<1> QED BY <1>3, <1>4, <1>5 DEF InstallInv

\* A state is sound after a step of the pane that leaves the servers and the saved jobs alone.
LEMMA SoundStays ==
    ASSUME NEW s, Sound(s), NEW r \in State, SlotInv(r), NewCalls(s, r), SameOrActive(s, r), SameWorld(s, r)
    PROVE  Sound(r)
<1>1. InstallInv(r) BY InstallStays DEF Sound, SameWorld
<1>2. SignalInv(r) BY DEF Sound, SignalInv, SameWorld
<1> QED BY <1>1, <1>2 DEF Sound

\* What AgentStaysInBounds says of a step from s to r.
ApprovedBy(s, c) ==
    /\ s.modals # <<>> /\ Head(s.modals).kind = "command"
    /\ Head(s.modals).who = c.who /\ Head(s.modals).host = s.host
    /\ s.up /\ s.running /\ Open(s, c.who) /\ s.socks[c.who].token = s.run
\* A call is given up by the tool that waits for it.
CancelledBy(s, r) ==
    IF s.slot = s.pending THEN ~r.running \/ \A k \in Sockets : r.socks[k].req = s.slot => ~Open(r, k)
    ELSE IF s.slot = s.dialog.request THEN r.dialog.ignore
    ELSE s.slot = s.tools.request => ~r.tools.open \/ r.tools.cancel \/ r.tools.again
Submits(s, r) == \A c \in r.calls \ s.calls : c.what = "command" /\ c.ans = "none" => ApprovedBy(s, c)
GivesUp(s, r) ==
    s.slot # 0 /\ r.slot = s.slot /\ s.desired = s.slot /\ r.desired = 0 => CancelledBy(s, r)
\* A step in bounds.
InBounds(s, r) == Submits(s, r) /\ GivesUp(s, r)

\* A step is tidied up after, which changes neither.
LEMMA TidiedIsSound ==
    ASSUME NEW s, NEW r, Sound(s), Sound(r), InBounds(s, r)
    PROVE  Sound(Tidied(r)) /\ InBounds(s, Tidied(r))
<1> PICK x : x = Tidied(r) OBVIOUS
<1>0. r \in State /\ SlotInv(r) BY DEF Sound
<1>1. /\ Changes(r, x, {"socks"}) /\ SlotInv(x)
      /\ \A k \in Sockets : x.socks[k] \in {r.socks[k], NoSocket} BY <1>0, TidiedChanges, TidiedOwns
<1>2. /\ x \in State /\ x.calls = r.calls /\ x.dialog = r.dialog /\ x.tools = r.tools /\ x.running = r.running
      /\ x.slot = r.slot /\ x.desired = r.desired /\ SameWorld(r, x) BY <1>1 DEF Changes, Fields, SameWorld
<1>3. Sound(x) BY <1>1, <1>2, SoundStays DEF NewCalls, SameOrActive
<1>4. \A k \in Sockets : x.socks[k].req = s.slot /\ s.slot # 0 => x.socks[k] = r.socks[k] BY <1>1 DEF NoSocket
<1>5. InBounds(s, x) BY <1>2, <1>4 DEF InBounds, Submits, GivesUp, CancelledBy, Open
<1> QED BY <1>3, <1>5

\* What follows from what the operators promise.
LEMMA GrowthIsInBounds ==
    ASSUME NEW s, NEW r, GrowsBy(s, r), SlotKept(s, r)
    PROVE  NewCalls(s, r) /\ InBounds(s, r)
BY DEF GrowsBy, Plain, SlotKept, NewCalls, InBounds, Submits, GivesUp

\* A step that submits nothing and gives up nothing is in bounds.
LEMMA NothingIsInBounds ==
    ASSUME NEW s, NEW r, r.calls \subseteq s.calls, r.slot # s.slot \/ r.desired = s.desired
    PROVE  NewCalls(s, r) /\ InBounds(s, r)
BY DEF NewCalls, InBounds, Submits, GivesUp

\* So is one in which the tools give up their own call.
LEMMA GivenUpIsInBounds ==
    ASSUME NEW s, NEW r, SlotInv(s), Refreshed(s, r), ToolsGiveUp(s, r)
    PROVE  NewCalls(s, r) /\ InBounds(s, r)
<1>1. NewCalls(s, r) /\ Submits(s, r) BY DEF Refreshed, GrowsBy, Plain, NewCalls, Submits
<1>2. GivesUp(s, r) BY DEF ToolsGiveUp, SlotInv, SlotCore, Owned, GivesUp, CancelledBy
<1> QED BY <1>1, <1>2 DEF InBounds

----
(* The session. *)

\* The connection is down: the agent ends and the dialog waits no longer.
LEMMA DownOwns ==
    ASSUME NEW s \in State, SlotCore(s), NEW r, r = Down(s)
    PROVE  /\ Changes(s, r, {"running", "socks", "client", "desired", "dialog", "tools"})
           /\ SlotInv(r) /\ SameJob(s, r) /\ r.calls = s.calls /\ r.slot = s.slot
           /\ r.desired # s.desired => s.pending # 0 /\ ~r.running
<1> PICK a : a = AgentDown(s) OBVIOUS
<1> PICK d : d = DialogDown(a) OBVIOUS
<1>1. /\ Changes(s, a, {"running", "socks", "client", "desired"}) /\ SlotCore(a)
      /\ a.desired # s.desired => s.pending # 0 /\ ~a.running
  BY AgentEndedChanges, AgentEndedOwns DEF AgentDown, Stopped, Changes
<1>2. a \in State /\ IsFiniteSet(a.calls) BY <1>1 DEF Changes, SlotCore
<1>3. Changes(a, d, {"dialog"}) /\ d.dialog.request = 0 /\ SameJob(a, d)
  <2> PICK free \in BOOLEAN : free = TRUE OBVIOUS
  <2> QED BY <1>2, DialogFollowsConnection
<1>4. d \in State /\ SameSlot(a, d) BY <1>3 DEF Changes, Fields, SameSlot
<1>5. SlotCore(d) /\ Attached(d) BY <1>1, <1>2, <1>3, <1>4, SlotCoreStays DEF Attached
<1>6. Changes(d, r, {"tools"}) /\ r.tools.request = d.tools.request BY <1>4, ToolsDownOwns DEF Down
<1>7. SlotInv(r)
  <2>1. Changes(d, r, {"tools", "desired"}) /\ r.tools.request \in {0, d.tools.request} /\ SlotInv(d)
    BY <1>5, <1>6 DEF Changes, Fields, SlotInv
  <2> QED BY <1>4, <2>1, ToolsChangeOwns
<1>8. /\ Changes(s, r, {"running", "socks", "client", "desired", "dialog", "tools"})
      /\ r.calls = s.calls /\ r.slot = s.slot /\ r.desired = a.desired /\ r.running = a.running
      /\ a.dialog = s.dialog /\ r.dialog = d.dialog BY <1>1, <1>3, <1>6 DEF Changes, Fields
<1> QED BY <1>1, <1>3, <1>7, <1>8 DEF SameJob

\* A pane that no longer counts as connected.
Offline(s) == [s EXCEPT !.up = FALSE, !.connecting = FALSE]

\* Losing the connection changes no owner of the slot.
LEMMA OfflineOwns ==
    ASSUME NEW s \in State, SlotCore(s)
    PROVE  /\ Changes(s, Offline(s), {"up", "connecting"}) /\ ~Offline(s).up /\ ~Offline(s).connecting
           /\ SlotCore(Offline(s))
<1> PICK off : off = Offline(s) OBVIOUS
<1>1. Changes(s, off, {"up", "connecting"}) /\ ~off.up /\ ~off.connecting BY DEF Changes, State, Fields, Offline
<1>2. /\ off.calls = s.calls /\ off.slot = s.slot /\ off.pending = s.pending /\ off.modals = s.modals
      /\ off.socks = s.socks /\ off.dialog = s.dialog /\ off.tools = s.tools /\ off.flag = s.flag
      /\ off.run = s.run BY <1>1 DEF Changes, Fields
<1>3. Questioned(off) BY <1>2 DEF SlotCore, Questioned
<1>4. Numbered(off) BY <1>2 DEF SlotCore, Numbered
<1>5. Owned(off) BY <1>2 DEF SlotCore, Owned
<1>6. SocketsFit(off) BY <1>2 DEF SlotCore, SocketsFit, Asked, Waiting, Running, ToldOnce, Untold
<1> QED BY <1>1, <1>2, <1>3, <1>4, <1>5, <1>6 DEF SlotCore

\* disconnectFromHost: whoever waits is told, and what goes out once more does not outlive it.
LEMMA DisconnectedOwns ==
    ASSUME NEW s \in State, SlotInv(s), NEW free \in BOOLEAN, NEW r, r = Disconnected(s, free)
    PROVE  /\ Changes(s, r, FinishFields \cup {"running", "client", "up", "connecting"})
           /\ SlotInv(r) /\ ~r.up /\ ~r.connecting /\ GrowsBy(s, r) /\ SameOrActive(s, r) /\ GivesUp(s, r)
<1> PICK c : c = CancelServerTool(s, 0) OBVIOUS
<1> PICK given : given = [c EXCEPT !.slot = 0] OBVIOUS
<1> PICK e : e = IF s.slot = 0 THEN given ELSE Finish(given, s.slot, 0, "error", free) OBVIOUS
<1> PICK off : off = Offline(e) OBVIOUS
<1>1. Changes(s, c, {"desired"}) /\ (s.slot = 0 => c = s) BY CancelChanges DEF CancelServerTool
<1>2. Changes(c, given, {"slot"}) /\ given.slot = 0 BY <1>1 DEF Changes, State, Fields
<1>3. Changes(s, given, {"slot", "desired"}) BY <1>1, <1>2 DEF Changes, Fields
<1>4. /\ given \in State /\ given.calls = s.calls /\ given.pending = s.pending /\ given.modals = s.modals
      /\ given.socks = s.socks /\ given.dialog = s.dialog /\ given.tools = s.tools /\ given.up = s.up
      /\ given.connecting = s.connecting /\ given.host = s.host /\ given.run = s.run BY <1>3 DEF Changes, Fields
<1>5. s.slot # 0 => Ending(given, s.slot, 0, "error")
  <2>1. IsFiniteSet(given.calls) /\ Questioned(given) /\ Numbered(given) /\ Attached(given)
    BY <1>2, <1>4 DEF SlotInv, SlotCore, Questioned, Numbered, Attached
  <2>2. Asked(given) /\ Waiting(given) /\ \A k \in Sockets : ToldOnce(given, k)
    BY <1>4 DEF SlotInv, SlotCore, SocketsFit, Asked, Waiting, ToldOnce, Untold
  <2>3. given.pending \in {0, s.slot} /\ given.dialog.request \in {0, s.slot} /\ given.tools.request \in {0, s.slot}
    BY <1>4 DEF SlotInv, SlotCore, Owned
  <2>4. ~(given.up /\ given.connecting) BY <1>4 DEF SlotInv, SlotCore
  <2> QED BY <1>2, <2>1, <2>2, <2>3, <2>4 DEF Ending
<1>6. s.slot # 0 =>
        /\ Changes(given, e, FinishFields) /\ GrowsBy(given, e) /\ SlotInv(e) /\ SlotKept(given, e)
        /\ FollowsOn(given, e, 0, "error") /\ e.pending = 0
  <2> HAVE s.slot # 0
  <2> PICK id \in Nat \ {0} : id = s.slot BY DEF State
  <2> PICK ans \in Answers : ans = "error" BY DEF Answers
  <2> PICK y : y = Finish(given, id, 0, ans, free) OBVIOUS
  <2>1. /\ Changes(given, y, FinishFields) /\ GrowsBy(given, y) /\ SlotInv(y) /\ SlotKept(given, y)
        /\ FollowsOn(given, y, 0, ans) /\ y.pending = 0 BY <1>4, <1>5, FinishOwns
  <2> QED BY <2>1
<1>7. s.slot = 0 => e = s BY <1>1 DEF State
<1>8. /\ Changes(s, e, FinishFields) /\ SlotInv(e) /\ GrowsBy(s, e) /\ SameOrActive(s, e)
      /\ s.slot # 0 => e.pending = 0 /\ (e.slot = 0 \/ e.desired = e.slot)
  <2>1. CASE s.slot # 0
    <3>1. Changes(s, e, FinishFields) BY <1>3, <1>6, <2>1 DEF Changes, Fields, FinishFields
    <3>2. GrowsBy(s, e) /\ SameOrActive(s, e) BY <1>4, <1>6, <2>1 DEF GrowsBy, SameOrActive, FollowsOn
    <3> QED BY <1>2, <1>6, <2>1, <3>1, <3>2 DEF SlotKept
  <2>2. CASE s.slot = 0 BY <1>7, <2>2 DEF Changes, GrowsBy, SameOrActive
  <2> QED BY <2>1, <2>2
<1>9. e \in State /\ SlotCore(e) BY <1>8 DEF Changes, SlotInv
<1>10. /\ off \in State /\ off.calls = e.calls /\ off.slot = e.slot /\ off.pending = e.pending
       /\ off.dialog = e.dialog /\ off.desired = e.desired BY <1>9, OfflineOwns DEF Changes, Fields
<1>11. SlotCore(off) /\ Changes(e, off, {"up", "connecting"}) /\ ~off.up /\ ~off.connecting BY <1>9, OfflineOwns
<1>12. Changes(s, off, FinishFields \cup {"up", "connecting"}) BY <1>8, <1>11 DEF Changes, Fields
<1>13. r = IF s.up \/ s.connecting THEN Down(off) ELSE off BY DEF Disconnected, Offline
<1>14. CASE s.up \/ s.connecting
  <2>1. /\ Changes(off, r, {"running", "socks", "client", "desired", "dialog", "tools"})
        /\ SlotInv(r) /\ SameJob(off, r) /\ r.calls = off.calls /\ r.slot = off.slot
        /\ r.desired # off.desired => off.pending # 0 /\ ~r.running BY <1>10, <1>11, <1>13, <1>14, DownOwns
  <2>2. Changes(s, r, FinishFields \cup {"running", "client", "up", "connecting"}) /\ ~r.up /\ ~r.connecting
    BY <1>11, <1>12, <2>1 DEF Changes, Fields, FinishFields
  <2>3. GrowsBy(s, r) /\ SameOrActive(s, r) BY <1>8, <1>10, <2>1 DEF GrowsBy, SameOrActive, SameJob
  <2>4. GivesUp(s, r) BY <1>8, <1>10, <2>1 DEF GivesUp
  <2> QED BY <2>1, <2>2, <2>3, <2>4
<1>15. CASE ~s.up /\ ~s.connecting
  <2>1. r = off BY <1>13, <1>15
  <2>2. e.up = s.up BY <1>8 DEF Changes, Fields, FinishFields
  <2>3. SlotInv(off) BY <1>8, <1>10, <1>11, <1>15, <2>2 DEF SlotInv, Attached
  <2>4. GrowsBy(s, off) /\ SameOrActive(s, off) /\ GivesUp(s, off)
    BY <1>8, <1>10 DEF GrowsBy, SameOrActive, GivesUp
  <2> QED BY <1>11, <1>12, <2>1, <2>3, <2>4 DEF Changes, Fields
<1> QED BY <1>14, <1>15

----
(* The steps of the session, before what is tidied up. *)

\* A step from s to r keeps the invariant and is in bounds.
Keeps(s, r) == Sound(r) /\ InBounds(s, r)

\* The parts of the slot do not depend on the connection but for what the dialog waits for.
LEMMA SlotOutlivesConnection ==
    ASSUME NEW s \in State, SlotCore(s), NEW r, Changes(s, r, {"up", "connecting", "host"}),
           ~(r.up /\ r.connecting)
    PROVE  SlotCore(r)
<1>1. /\ r.calls = s.calls /\ r.slot = s.slot /\ r.pending = s.pending /\ r.modals = s.modals
      /\ r.socks = s.socks /\ r.dialog = s.dialog /\ r.tools = s.tools /\ r.flag = s.flag /\ r.run = s.run
  BY DEF Changes, Fields
<1>2. Questioned(r) BY <1>1 DEF SlotCore, Questioned
<1>3. Numbered(r) BY <1>1 DEF SlotCore, Numbered
<1>4. Owned(r) BY <1>1 DEF SlotCore, Owned
<1>5. SocketsFit(r) BY <1>1 DEF SlotCore, SocketsFit, Asked, Waiting, Running, ToldOnce, Untold
<1> QED BY <1>1, <1>2, <1>3, <1>4, <1>5 DEF SlotCore

\* connectToHost: another connection is begun.
LEMMA ConnectKeeps ==
    ASSUME NEW s, Sound(s), NEW h \in Hosts, NEW free \in BOOLEAN,
           NEW r, r = [Disconnected(s, free) EXCEPT !.host = h, !.connecting = TRUE]
    PROVE  Keeps(s, r)
<1> PICK d : d = Disconnected(s, free) OBVIOUS
<1>0. s \in State /\ SlotInv(s) BY DEF Sound
<1>1. /\ Changes(s, d, FinishFields \cup {"running", "client", "up", "connecting"})
      /\ SlotInv(d) /\ ~d.up /\ ~d.connecting /\ GrowsBy(s, d) /\ SameOrActive(s, d) /\ GivesUp(s, d)
  BY <1>0, DisconnectedOwns
<1>2. d \in State BY <1>1 DEF Changes
<1>3. Changes(d, r, {"host", "connecting"}) /\ r.connecting BY <1>2 DEF Changes, State, Fields
<1>4. /\ r.up = d.up /\ r.calls = d.calls /\ r.dialog = d.dialog /\ r.slot = d.slot /\ r.desired = d.desired
      /\ r.running = d.running /\ r.socks = d.socks /\ r.tools = d.tools /\ SameWorld(s, r)
  BY <1>1, <1>3 DEF Changes, Fields, FinishFields, SameWorld
<1>5. SlotInv(r)
  <2>1. SlotCore(r) BY <1>1, <1>2, <1>3, <1>4, SlotOutlivesConnection DEF Changes, Fields, SlotInv
  <2> QED BY <1>1, <1>4, <2>1 DEF SlotInv, Attached
<1>6. NewCalls(s, r) /\ Submits(s, r) BY <1>1, <1>4 DEF GrowsBy, Plain, NewCalls, Submits
<1>7. Sound(r) BY <1>1, <1>3, <1>4, <1>5, <1>6, SoundStays DEF SameOrActive, Changes
<1>8. GivesUp(s, r) BY <1>1, <1>4 DEF GivesUp, CancelledBy, Open
<1> QED BY <1>6, <1>7, <1>8 DEF Keeps, InBounds

\* disconnectFromHost.
LEMMA DisconnectKeeps ==
    ASSUME NEW s, Sound(s), NEW free \in BOOLEAN, NEW r, r = Disconnected(s, free)
    PROVE  Keeps(s, r)
<1>0. s \in State /\ SlotInv(s) BY DEF Sound
<1>1. /\ Changes(s, r, FinishFields \cup {"running", "client", "up", "connecting"})
      /\ SlotInv(r) /\ GrowsBy(s, r) /\ SameOrActive(s, r) /\ GivesUp(s, r) BY <1>0, DisconnectedOwns
<1>2. r \in State /\ SameWorld(s, r) BY <1>1 DEF Changes, Fields, FinishFields, SameWorld
<1>3. NewCalls(s, r) /\ Submits(s, r) BY <1>1 DEF GrowsBy, Plain, NewCalls, Submits
<1>4. Sound(r) BY <1>1, <1>2, <1>3, SoundStays
<1> QED BY <1>1, <1>3, <1>4 DEF Keeps, InBounds

\* The connection is up.
LEMMA ConnectionUpKeeps ==
    ASSUME NEW s, Sound(s), s.connecting, NEW free \in BOOLEAN,
           NEW r, r = DialogUp([s EXCEPT !.connecting = FALSE, !.up = TRUE], free)
    PROVE  Keeps(s, r)
<1>0. s \in State /\ SlotInv(s) BY DEF Sound
<1> PICK v : v = [s EXCEPT !.connecting = FALSE, !.up = TRUE] OBVIOUS
<1>1. Changes(s, v, {"up", "connecting"}) /\ v.up /\ ~v.connecting BY <1>0 DEF Changes, State, Fields
<1>2. /\ v \in State /\ v.calls = s.calls /\ v.dialog = s.dialog /\ v.slot = s.slot /\ v.desired = s.desired
      /\ SameWorld(s, v) /\ Changes(s, v, {"up", "connecting", "host"}) BY <1>1 DEF Changes, Fields, SameWorld
<1>3. SlotInv(v)
  <2>1. SlotCore(v) BY <1>0, <1>1, <1>2, SlotOutlivesConnection DEF SlotInv
  <2>2. s.dialog.request = 0 BY <1>0 DEF SlotInv, SlotCore, Attached
  <2> QED BY <1>2, <2>1, <2>2 DEF SlotInv, Attached
<1>4. Queried(v, r) BY <1>2, <1>3, DialogFollowsConnection DEF SlotInv, SlotCore
<1>5. SlotInv(r) BY <1>2, <1>3, QueriesOwn DEF DialogUp
<1>6. r \in State /\ SameWorld(s, r) /\ SameOrActive(s, r)
  BY <1>2, <1>4 DEF Queried, Changes, Fields, SameWorld, SameOrActive, SameJob
<1>7. GrowsBy(s, r) /\ SlotKept(s, r) BY <1>2, <1>4 DEF Queried, GrowsBy, SlotKept
<1>8. NewCalls(s, r) /\ InBounds(s, r) BY <1>7, GrowthIsInBounds
<1>9. Sound(r) BY <1>5, <1>6, <1>8, SoundStays
<1> QED BY <1>8, <1>9 DEF Keeps

\* The connection is lost.
LEMMA ConnectionLostKeeps ==
    ASSUME NEW s, Sound(s), NEW r, r = Down([s EXCEPT !.connecting = FALSE, !.up = FALSE])
    PROVE  Keeps(s, r)
<1>0. s \in State /\ SlotInv(s) BY DEF Sound
<1> PICK v : v = [s EXCEPT !.connecting = FALSE, !.up = FALSE] OBVIOUS
<1>1. Changes(s, v, {"up", "connecting"}) /\ ~v.up /\ ~v.connecting BY <1>0 DEF Changes, State, Fields
<1>2. /\ v \in State /\ v.calls = s.calls /\ v.dialog = s.dialog /\ v.slot = s.slot /\ v.desired = s.desired
      /\ v.pending = s.pending /\ Changes(s, v, {"up", "connecting", "host"}) BY <1>1 DEF Changes, Fields
<1>3. SlotCore(v) BY <1>0, <1>1, <1>2, SlotOutlivesConnection DEF SlotInv
<1>4. /\ Changes(v, r, {"running", "socks", "client", "desired", "dialog", "tools"})
      /\ SlotInv(r) /\ SameJob(v, r) /\ r.calls = v.calls /\ r.slot = v.slot
      /\ r.desired # v.desired => v.pending # 0 /\ ~r.running BY <1>2, <1>3, DownOwns
<1>5. r \in State /\ SameWorld(s, r) /\ SameOrActive(s, r)
  BY <1>1, <1>2, <1>4 DEF Changes, Fields, SameWorld, SameOrActive, SameJob
<1>6. NewCalls(s, r) /\ Submits(s, r) BY <1>2, <1>4 DEF NewCalls, Submits
<1>7. GivesUp(s, r) BY <1>0, <1>2, <1>4 DEF GivesUp, CancelledBy, SlotInv, SlotCore, Owned
<1>8. Sound(r) BY <1>4, <1>5, <1>6, SoundStays
<1> QED BY <1>6, <1>7, <1>8 DEF Keeps, InBounds

\* What outlives a program.
Lasting(s) ==
    /\ s.saved \in [Hosts -> Jobs \cup {NoJob}] /\ s.jobs \in [Jobs -> JobStates]
    /\ s.wire \in SUBSET Jobs /\ s.forgotten \in SUBSET Jobs /\ s.procs \in [Hosts -> Nat]
    /\ s.helper \in Helpers /\ s.struck \in BOOLEAN /\ s.other \in Others

\* A program that has just started.
LEMMA FreshOwns ==
    ASSUME NEW s, Lasting(s),
           NEW h \in Hosts, NEW r, r = Fresh(s, h)
    PROVE  /\ r \in State /\ SlotInv(r) /\ SameWorld(s, r) /\ r.calls = {} /\ r.slot = 0
           /\ r.dialog.target = NoHost /\ r.dialog.job = NoJob
<1>1. NoSocket \in SocketStates /\ NoDialog \in Dialogs /\ NoTools \in ToolStates
  BY DEF NoSocket, SocketStates, NoDialog, Dialogs, NoTools, ToolStates, NoProcess
<1>2. MaxLaunches \in Nat /\ 0 \in 0 .. MaxLaunches BY SlotAssumption
<1>3. <<>> \in Seq(Questions) /\ {} \in SUBSET Calls /\ [k \in Sockets |-> NoSocket] \in [Sockets -> SocketStates]
  BY <1>1
<1>4. r \in State BY <1>1, <1>2, <1>3 DEF Fresh, State, Lasting
<1>5. /\ SameWorld(s, r) /\ r.calls = {} /\ r.slot = 0 /\ r.modals = <<>> /\ r.pending = 0
      /\ r.socks = [k \in Sockets |-> NoSocket] /\ r.dialog = NoDialog /\ r.tools = NoTools /\ ~r.up
  BY DEF Fresh, SameWorld
<1>6. r.dialog.request = 0 /\ r.tools.request = 0 /\ r.dialog.target = NoHost /\ r.dialog.job = NoJob
  BY <1>5 DEF NoDialog, NoTools
<1>7. \A k \in Sockets : ToldOnce(r, k) BY <1>5 DEF ToldOnce, Untold, NoSocket
<1>8. Questioned(r) /\ Asked(r)
  <2>1. DOMAIN r.modals = {} BY <1>5
  <2> QED BY <2>1 DEF Questioned, Asked
<1>9. Numbered(r) /\ Owned(r) /\ Waiting(r) /\ Running(r) /\ Attached(r) /\ IsFiniteSet(r.calls)
  <2>1. IsFiniteSet({}) BY FS_EmptySet
  <2> QED BY <1>5, <1>6, <2>1 DEF Numbered, Owned, Waiting, Running, Attached
<1> QED BY <1>4, <1>5, <1>6, <1>7, <1>8, <1>9 DEF SlotInv, SlotCore, SocketsFit

\* The program starts again: the servers and the saved jobs are as they were.
LEMMA RestartKeeps ==
    ASSUME NEW s, Sound(s), NEW h \in Hosts, NEW r, r = Fresh(s, h)
    PROVE  Keeps(s, r)
<1>0. s \in State BY DEF Sound
<1>1. Lasting(s) BY <1>0 DEF State, Lasting
<1>2. /\ r \in State /\ SlotInv(r) /\ SameWorld(s, r) /\ r.calls = {} /\ r.slot = 0
      /\ r.dialog.target = NoHost /\ r.dialog.job = NoJob BY <1>1, FreshOwns
<1>3. InstallInv(r)
  <2>1. \A j \in Jobs : Working(r, j) = Working(s, j) BY <1>2 DEF Working, SameWorld
  <2>2. JobsFit(r) BY <1>2, <2>1 DEF Sound, InstallInv, JobsFit, SameWorld
  <2>3. Saved(r) BY <1>2, <2>1 DEF Sound, InstallInv, Saved, SameWorld
  <2>4. Followed(r) BY <1>2 DEF Sound, InstallInv, Followed, SameWorld
  <2> QED BY <2>2, <2>3, <2>4 DEF InstallInv
<1>4. SignalInv(r) BY <1>2 DEF Sound, SignalInv, SameWorld
<1>5. InBounds(s, r) BY <1>2, NothingIsInBounds DEF InBounds, Submits, GivesUp
<1> QED BY <1>2, <1>3, <1>4, <1>5 DEF Sound, Keeps

\* An answer to no call in the slot, and one that is passed on.
LEMMA AnswerDropped ==
    ASSUME NEW s, Sound(s), NEW c \in s.calls, c.id # s.slot,
           NEW r, r = [s EXCEPT !.calls = @ \ {c}]
    PROVE  Keeps(s, r)
<1>0. s \in State /\ SlotInv(s) BY DEF Sound
<1>1. Changes(s, r, {"calls"}) /\ r.calls = s.calls \ {c} BY <1>0 DEF Changes, State, Fields
<1>2. /\ r \in State /\ r.slot = s.slot /\ r.modals = s.modals /\ r.pending = s.pending
      /\ r.socks = s.socks /\ r.flag = s.flag /\ r.up = s.up /\ r.connecting = s.connecting
      /\ r.host = s.host /\ r.run = s.run /\ r.dialog = s.dialog /\ r.tools = s.tools /\ r.desired = s.desired
      /\ SameWorld(s, r) BY <1>1 DEF Changes, Fields, SameWorld
<1>3. IsFiniteSet(r.calls) BY <1>0, <1>1, FS_Subset DEF SlotInv, SlotCore
<1>4. Numbered(r) BY <1>0, <1>1, <1>2 DEF SlotInv, SlotCore, Numbered
<1>5. Questioned(r) /\ Attached(r) BY <1>0, <1>2 DEF SlotInv, SlotCore, Questioned, Attached
<1>6. Owned(r) BY <1>0, <1>2 DEF SlotInv, SlotCore, Owned
<1>7. SocketsFit(r)
  BY <1>0, <1>1, <1>2 DEF SlotInv, SlotCore, SocketsFit, Asked, Waiting, Running, ToldOnce, Untold
<1>8. SlotInv(r) BY <1>0, <1>2, <1>3, <1>4, <1>5, <1>6, <1>7 DEF SlotInv, SlotCore
<1>9. NewCalls(s, r) /\ InBounds(s, r) BY <1>1, <1>2, NothingIsInBounds
<1>10. Sound(r) BY <1>2, <1>8, <1>9, SoundStays DEF SameOrActive
<1> QED BY <1>9, <1>10 DEF Keeps

\* The call in the slot has ended.
Freed(s, c) == [s EXCEPT !.calls = @ \ {c}, !.slot = 0, !.flag = FALSE]

\* The answer to the call in the slot is passed to whoever waits for it.
LEMMA AnswerPassedOn ==
    ASSUME NEW s, Sound(s), NEW c \in s.calls, c.id = s.slot, NEW free \in BOOLEAN,
           NEW ans \in Answers, ans \in {"error", "result"} \/ ans = c.ans,
           NEW f, f = Freed(s, c),
           NEW r, r = Finish(f, c.id, c.who, ans, free)
    PROVE  Keeps(s, r)
<1>0. s \in State /\ SlotInv(s) BY DEF Sound
<1> PICK id \in Nat \ {0} : id = c.id BY <1>0 DEF State, Calls
<1> PICK who \in Nat : who = c.who BY <1>0 DEF State, Calls
<1>1. Changes(s, f, {"calls", "slot", "flag"}) /\ f.calls = s.calls \ {c} /\ f.slot = 0
  BY <1>0 DEF Changes, State, Fields, Freed
<1>2. /\ f \in State /\ f.modals = s.modals /\ f.pending = s.pending
      /\ f.socks = s.socks /\ f.up = s.up /\ f.connecting = s.connecting
      /\ f.host = s.host /\ f.run = s.run /\ f.dialog = s.dialog /\ f.tools = s.tools /\ f.desired = s.desired
      /\ SameWorld(s, f) BY <1>1 DEF Changes, Fields, SameWorld
<1>3. IsFiniteSet(f.calls) BY <1>0, <1>1, FS_Subset DEF SlotInv, SlotCore
<1>4. Numbered(f) /\ Questioned(f) /\ Attached(f)
  <2>1. Numbered(f) BY <1>0, <1>1 DEF SlotInv, SlotCore, Numbered
  <2>2. Questioned(f) BY <1>0, <1>2 DEF SlotInv, SlotCore, Questioned
  <2>3. Attached(f) BY <1>0, <1>2 DEF SlotInv, Attached
  <2> QED BY <2>1, <2>2, <2>3
<1>5. f.pending \in {0, id} /\ f.dialog.request \in {0, id} /\ f.tools.request \in {0, id}
  BY <1>0, <1>2 DEF SlotInv, SlotCore, Owned
<1>6. Asked(f) /\ Waiting(f) /\ \A k \in Sockets : ToldOnce(f, k)
  BY <1>0, <1>2 DEF SlotInv, SlotCore, SocketsFit, Asked, Waiting, ToldOnce, Untold
<1>7. f.pending # 0 => \A k \in Sockets : f.socks[k].req = id => ans = "error" \/ who = k
  BY <1>0, <1>2, <1>5 DEF SlotInv, SlotCore, SocketsFit, Running
<1>8. Ending(f, id, who, ans) BY <1>0, <1>1, <1>2, <1>3, <1>4, <1>5, <1>6, <1>7 DEF Ending, SlotInv, SlotCore
<1> PICK x : x = Finish(f, id, who, ans, free) OBVIOUS
<1>9. /\ Changes(f, x, FinishFields) /\ GrowsBy(f, x) /\ SlotInv(x) /\ SlotKept(f, x)
      /\ FollowsOn(f, x, who, ans) BY <1>2, <1>8, FinishOwns
<1>10. x = r OBVIOUS
<1>11. x \in State /\ SameWorld(s, x) BY <1>2, <1>9 DEF Changes, Fields, FinishFields, SameWorld
<1>12. GrowsBy(s, x) /\ NewCalls(s, x) BY <1>1, <1>9 DEF GrowsBy, Plain, NewCalls
<1>13. InstallInv(x)
  <2>1. \A j \in Jobs : Working(x, j) = Working(s, j) BY <1>11 DEF Working, SameWorld
  <2>2. \A d \in x.calls : /\ d.what = "status" => d.who \in Jobs
                           /\ Over([phase |-> d.ans]) => d.who \in Jobs /\ Over(x.jobs[d.who])
    BY <1>11, <1>12 DEF Sound, InstallInv, JobsFit, NewCalls, SameWorld, Over
  <2>3. JobsFit(x) BY <1>11, <2>1, <2>2 DEF Sound, InstallInv, JobsFit, SameWorld
  <2>4. Saved(x) BY <1>11, <2>1 DEF Sound, InstallInv, Saved, SameWorld
  <2>5. ans \in {"succeeded", "failed"} => Over(s.jobs[who]) BY DEF Sound, InstallInv, JobsFit, Over
  <2>6. Followed(x) BY <1>2, <1>9, <1>11, <2>5 DEF Sound, InstallInv, Followed, FollowsOn, SameWorld
  <2> QED BY <2>3, <2>4, <2>6 DEF InstallInv
<1>14. SignalInv(x) BY <1>11 DEF Sound, SignalInv, SameWorld
<1>15. InBounds(s, x) BY <1>1, <1>9, <1>12 DEF InBounds, Submits, GivesUp, SlotKept, GrowsBy, Plain
<1> QED BY <1>9, <1>10, <1>11, <1>13, <1>14, <1>15 DEF Sound, Keeps

----
(* The steps of the agent. *)

\* The agent submits nothing but when a question is decided.
LEMMA AgentKeeps ==
    ASSUME NEW s, Sound(s), NEW r, Changes(s, r, {"running", "run", "socks", "client", "modals", "desired"}),
           SlotInv(r), GivesUp(s, r)
    PROVE  Keeps(s, r)
<1>1. r \in State /\ r.calls = s.calls /\ SameWorld(s, r) /\ SameOrActive(s, r)
  BY DEF Changes, Fields, SameWorld, SameOrActive
<1>2. NewCalls(s, r) /\ Submits(s, r) BY <1>1 DEF NewCalls, Submits
<1>3. Sound(r) BY <1>1, <1>2, SoundStays
<1> QED BY <1>2, <1>3 DEF Keeps, InBounds

\* The agent is launched.
LEMMA LaunchKeeps ==
    ASSUME NEW s, Sound(s), s.modals = <<>>, s.run < MaxLaunches
    PROVE  Keeps(s, Launched(s))
<1> PICK r : r = Launched(s) OBVIOUS
<1>0. s \in State /\ SlotInv(s) BY DEF Sound
<1>1. s.run + 1 \in 0 .. MaxLaunches BY <1>0, SlotAssumption DEF State
<1>2. Changes(s, r, {"running", "run"}) BY <1>0, <1>1 DEF Launched, Changes, State, Fields
<1>3. /\ r.calls = s.calls /\ r.slot = s.slot /\ r.modals = s.modals /\ r.pending = s.pending
      /\ r.socks = s.socks /\ r.flag = s.flag /\ r.up = s.up /\ r.connecting = s.connecting
      /\ r.host = s.host /\ r.dialog = s.dialog /\ r.tools = s.tools /\ r.desired = s.desired
  BY <1>2 DEF Changes, Fields
<1>4. Asked(r) BY <1>3 DEF Asked
<1>5. Waiting(r) /\ Running(r) /\ \A k \in Sockets : ToldOnce(r, k)
  BY <1>0, <1>3 DEF SlotInv, SlotCore, SocketsFit, Waiting, Running, ToldOnce, Untold
<1>6. Questioned(r) /\ Attached(r) BY <1>0, <1>3 DEF SlotInv, SlotCore, Questioned, Attached
<1>7. Numbered(r) /\ Owned(r) BY <1>0, <1>3 DEF SlotInv, SlotCore, Numbered, Owned
<1>8. SlotInv(r) BY <1>0, <1>3, <1>4, <1>5, <1>6, <1>7 DEF SlotInv, SlotCore, SocketsFit
<1>9. GivesUp(s, r) BY <1>3 DEF GivesUp
<1>10. Changes(s, r, {"running", "run", "socks", "client", "modals", "desired"}) BY <1>2 DEF Changes, Fields
<1> QED BY <1>8, <1>9, <1>10, AgentKeeps

\* The agent ends, with or without the user giving up its command.
LEMMA AgentEndedKeeps ==
    ASSUME NEW s, Sound(s), NEW v, v = s \/ (s.pending # 0 /\ v = CancelAgentCommand(s))
    PROVE  Keeps(s, AgentEnded(v))
<1> PICK r : r = AgentEnded(v) OBVIOUS
<1>0. s \in State /\ SlotInv(s) BY DEF Sound
<1>1. Changes(s, v, {"desired"}) /\ (v.desired # s.desired => s.pending # 0)
  <2>1. Changes(s, s, {"desired"}) /\ Changes(s, CancelAgentCommand(s), {"desired"})
    BY <1>0, CancelChanges DEF Changes
  <2> QED BY <2>1
<1>2. SlotInv(v) /\ v \in State BY <1>0, <1>1, CancelOwns DEF Changes
<1>3. /\ Changes(v, r, {"running", "socks", "client", "desired"}) /\ SlotCore(r) /\ ~r.running
      /\ r.desired # v.desired => v.pending # 0 BY <1>2, AgentEndedChanges, AgentEndedOwns DEF SlotInv
<1>4. SlotInv(r) BY <1>2, <1>3 DEF SlotInv, Attached, Changes, Fields
<1>5. Changes(s, r, {"running", "run", "socks", "client", "modals", "desired"}) /\ v.pending = s.pending
  BY <1>1, <1>3 DEF Changes, Fields
<1>6. GivesUp(s, r) BY <1>0, <1>1, <1>3, <1>5 DEF GivesUp, CancelledBy, SlotInv, SlotCore, Owned
<1> QED BY <1>4, <1>5, <1>6, AgentKeeps

\* A client that connects was told nothing and is remembered by nobody.
LEMMA ClientJoins ==
    ASSUME NEW s \in State, SlotInv(s), NEW k \in Sockets, s.socks[k].state = "none",
           NEW r, Changes(s, r, {"socks"}), Untold(r, k), r.socks[k].req = 0,
           \A j \in Sockets \ {k} : r.socks[j] = s.socks[j]
    PROVE  SlotInv(r)
<1>1. /\ r.calls = s.calls /\ r.slot = s.slot /\ r.modals = s.modals /\ r.pending = s.pending
      /\ r.run = s.run /\ r.flag = s.flag /\ r.up = s.up /\ r.connecting = s.connecting
      /\ r.host = s.host /\ r.dialog = s.dialog /\ r.tools = s.tools BY DEF Changes, Fields
<1>2. \A i \in DOMAIN s.modals : s.modals[i].kind = "command" => s.modals[i].who # k
  BY DEF SlotInv, SlotCore, SocketsFit, Asked
<1>3. Asked(r) BY <1>1, <1>2 DEF SlotInv, SlotCore, SocketsFit, Asked, Untold
<1>4. Waiting(r) BY <1>1 DEF SlotInv, SlotCore, SocketsFit, Waiting, Untold
<1>5. Running(r) BY <1>1 DEF SlotInv, SlotCore, SocketsFit, Running
<1>6. \A j \in Sockets : ToldOnce(r, j) BY DEF SlotInv, SlotCore, SocketsFit, ToldOnce, Untold
<1>7. Questioned(r) /\ Attached(r) BY <1>1 DEF SlotInv, SlotCore, Questioned, Attached
<1>8. Numbered(r) /\ Owned(r) BY <1>1 DEF SlotInv, SlotCore, Numbered, Owned
<1> QED BY <1>1, <1>3, <1>4, <1>5, <1>6, <1>7, <1>8 DEF SlotInv, SlotCore, SocketsFit

\* A client connects with its line.
LEMMA ConnectedKeeps ==
    ASSUME NEW s, Sound(s), NEW k \in Sockets, NEW g \in Int, s.socks[k] = NoSocket
    PROVE  Keeps(s, Connected(s, k, g))
<1> PICK r : r = Connected(s, k, g) OBVIOUS
<1>0. s \in State /\ SlotInv(s) /\ s.socks[k].state = "none" BY DEF Sound, NoSocket
<1>1. /\ Changes(s, r, {"socks"}) /\ \A j \in Sockets \ {k} : r.socks[j] = s.socks[j]
      /\ Untold(r, k) /\ r.socks[k].req = 0
  <2> PICK x \in SocketStates : x = [NoSocket EXCEPT !.state = "open", !.asked = TRUE, !.token = g]
    BY DEF SocketStates, NoSocket
  <2>1. x.req = 0 /\ x.reply = 0 /\ x.said = 0 BY DEF NoSocket
  <2>2. Changes(s, r, {"socks"}) /\ r.socks[k] = x /\ \A j \in Sockets \ {k} : r.socks[j] = s.socks[j]
    BY <1>0 DEF Connected, Changes, State, Fields
  <2> QED BY <2>1, <2>2 DEF Untold
<1>2. SlotInv(r) BY <1>0, <1>1, ClientJoins
<1>3. GivesUp(s, r) BY <1>1 DEF GivesUp, Changes, Fields
<1>4. Changes(s, r, {"running", "run", "socks", "client", "modals", "desired"}) BY <1>1 DEF Changes, Fields
<1> QED BY <1>2, <1>3, <1>4, AgentKeeps

\* The line of a client is read.
LEMMA ReadLineKeeps ==
    ASSUME NEW s, Sound(s), NEW k \in Sockets, Open(s, k), s.socks[k].asked
    PROVE  Keeps(s, HandleBridgeRequest(s, k))
<1> PICK r : r = HandleBridgeRequest(s, k) OBVIOUS
<1>0. s \in State /\ SlotInv(s) BY DEF Sound
<1>1. /\ Changes(s, r, {"socks", "client", "modals", "desired"})
      /\ SlotInv(r) /\ r.desired = s.desired BY <1>0, HandleBridgeRequestChanges, HandleBridgeRequestOwns
<1>2. Changes(s, r, {"running", "run", "socks", "client", "modals", "desired"}) /\ GivesUp(s, r)
  BY <1>1 DEF Changes, Fields, GivesUp
<1> QED BY <1>1, <1>2, AgentKeeps

\* The command of a client that leaves is given up, and it is the client's own.
LEMMA ClientLeavesKeeps ==
    ASSUME NEW s, Sound(s), NEW k \in Sockets
    PROVE  Keeps(s, Closed(s, k))
<1> PICK r : r = Closed(s, k) OBVIOUS
<1>0. s \in State /\ SlotInv(s) BY DEF Sound
<1>1. /\ Changes(s, r, {"socks", "client", "desired"}) /\ SlotCore(r) /\ r.socks[k].state = "closed"
      /\ \A j \in Sockets : r.socks[j].req = s.socks[j].req
      /\ r.desired # s.desired => s.pending # 0 /\ s.pending = s.socks[k].req
  BY <1>0, ClosedChanges, ClosedOwns DEF SlotInv
<1>2. SlotInv(r) BY <1>0, <1>1 DEF SlotInv, Attached, Changes, Fields
<1>3. s.pending # 0 /\ s.pending = s.socks[k].req => \A j \in Sockets : s.socks[j].req = s.pending => j = k
  BY <1>0 DEF SlotInv, SlotCore, SocketsFit, Running, Owned, Numbered
<1>4. GivesUp(s, r) BY <1>0, <1>1, <1>3 DEF GivesUp, CancelledBy, SlotInv, SlotCore, Owned, Open
<1>5. Changes(s, r, {"running", "run", "socks", "client", "modals", "desired"}) BY <1>1 DEF Changes, Fields
<1> QED BY <1>2, <1>4, <1>5, AgentKeeps

----
(* The steps of the software dialog. *)

\* A query of the dialog.
LEMMA QueryKeeps ==
    ASSUME NEW s, Sound(s), NEW r, Queried(s, r), SlotInv(r)
    PROVE  Keeps(s, r)
<1>1. r \in State /\ SameWorld(s, r) /\ SameOrActive(s, r)
  BY DEF Queried, Changes, Fields, SameWorld, SameOrActive, SameJob
<1>2. NewCalls(s, r) /\ InBounds(s, r) BY GrowthIsInBounds DEF Queried
<1>3. Sound(r) BY <1>1, <1>2, SoundStays
<1> QED BY <1>2, <1>3 DEF Keeps

\* The queries that the user and the timer make.
LEMMA QueriesKeep ==
    ASSUME NEW s, Sound(s), NEW free \in BOOLEAN
    PROVE  /\ Keeps(s, Search(s, free)) /\ Keeps(s, Poll(s, free))
           /\ s.modals = <<>> => Keeps(s, Request(s, "plan", NoJob, free))
<1>0. s \in State /\ SlotInv(s) /\ IsFiniteSet(s.calls) BY DEF Sound, SlotInv, SlotCore
<1>1. Keeps(s, Search(s, free)) /\ Keeps(s, Poll(s, free)) BY <1>0, QueryChanges, QueriesOwn, QueryKeeps
<1>2. ASSUME s.modals = <<>>
      PROVE  Keeps(s, Request(s, "plan", NoJob, free))
  <2> PICK op \in Queries : op = "plan" BY DEF Queries
  <2> PICK who \in Nat : who = NoJob BY DEF NoJob
  <2> PICK x : x = Request(s, op, who, free) OBVIOUS
  <2> PICK r : r = Submit(s, op, who) OBVIOUS
  <2>1. op = "status" => who \in Jobs OBVIOUS
  <2>2. /\ Changes(s, x, {"slot", "desired", "calls", "dialog"})
        /\ IsFiniteSet(x.calls) /\ GrowsBy(s, x) /\ SameJob(s, x) /\ SlotKept(s, x)
    BY <1>0, <2>1, RequestChanges
  <2>3. \A i \in DOMAIN s.modals : s.modals[i].kind # "plan" BY <1>2
  <2>4. SlotInv(x) BY <1>0, <2>1, <2>3, RequestOwns
  <2>5. Keeps(s, x) BY <2>2, <2>4, QueryKeeps DEF Queried
  <2> QED BY <2>5
<1> QED BY <1>1, <1>2

\* The dialog is hidden.
LEMMA HiddenKeeps ==
    ASSUME NEW s, Sound(s)
    PROVE  Keeps(s, Hidden(s))
<1> PICK r : r = Hidden(s) OBVIOUS
<1>0. s \in State /\ SlotInv(s) BY DEF Sound
<1>1. /\ Changes(s, r, {"dialog", "desired"}) /\ SameJob(s, r)
      /\ r.dialog.request = s.dialog.request /\ r.dialog.op = s.dialog.op
      /\ r.desired # s.desired => s.dialog.request # 0 /\ r.dialog.ignore BY <1>0, HiddenChanges
<1>2. r \in State /\ SameSlot(s, r) /\ SameWorld(s, r) /\ SameOrActive(s, r) /\ r.calls = s.calls
  BY <1>1 DEF Changes, Fields, SameSlot, SameWorld, SameOrActive, SameJob
<1>3. SlotInv(r) BY <1>0, <1>2, SlotStays
<1>4. NewCalls(s, r) /\ Submits(s, r) BY <1>2 DEF NewCalls, Submits
<1>5. GivesUp(s, r) BY <1>0, <1>1 DEF GivesUp, CancelledBy, SlotInv, SlotCore, Owned
<1>6. Sound(r) BY <1>2, <1>3, <1>4, SoundStays
<1> QED BY <1>4, <1>5, <1>6 DEF Keeps, InBounds

\* The dialog is shown, and asks for the end of the job that it follows or for the packages.
LEMMA ShownOwns ==
    ASSUME NEW s \in State, SlotInv(s), NEW free \in BOOLEAN
    PROVE  SlotInv(Shown(s, free))
<1> PICK v : v = [s EXCEPT !.dialog.visible = TRUE] OBVIOUS
<1>1. Changes(s, v, {"dialog"}) /\ SameJob(s, v) /\ v.dialog.request = s.dialog.request /\ v.dialog.op = s.dialog.op
  <2> PICK o \in Dialogs : o = s.dialog BY DEF State
  <2> PICK d \in Dialogs : d = [o EXCEPT !.visible = TRUE] BY DEF Dialogs
  <2>1. d.job = o.job /\ d.target = o.target /\ d.active = o.active /\ d.request = o.request /\ d.op = o.op
    BY DEF Dialogs
  <2>2. Changes(s, v, {"dialog"}) /\ v.dialog = d BY DEF Changes, State, Fields
  <2> QED BY <2>1, <2>2 DEF SameJob
<1>2. v \in State /\ SameSlot(s, v) BY <1>1 DEF Changes, Fields, SameSlot, SameJob
<1>3. SlotInv(v) BY <1>2, SlotStays
<1>4. SlotInv(Poll(v, free)) /\ SlotInv(Search(v, free)) BY <1>2, <1>3, QueriesOwn
<1>5. Shown(s, free) \in {v, Poll(v, free), Search(v, free)} BY DEF Shown
<1> QED BY <1>3, <1>4, <1>5

\* A dialog of another host waits for nothing, and gives up nothing.
LEMMA OpenedKeeps ==
    ASSUME NEW s, Sound(s), NEW free \in BOOLEAN
    PROVE  Keeps(s, Opened(s, free))
<1> PICK r : r = Opened(s, free) OBVIOUS
<1>0. s \in State /\ SlotInv(s) BY DEF Sound
<1>1. CASE s.dialog.target = s.host
  <2>1. r = Shown(s, free) BY <1>1 DEF Opened
  <2>2. Queried(s, r) /\ SlotInv(r) BY <1>0, <2>1, ShownChanges, ShownOwns DEF SlotInv, SlotCore
  <2> QED BY <2>2, QueryKeeps
<1>2. CASE s.dialog.target # s.host
  <2> PICK off : off = IF s.dialog.target \notin {NoHost, s.host} THEN Hidden(s) ELSE s OBVIOUS
  <2> PICK new : new = DialogOf(off) OBVIOUS
  <2>1. s.dialog.request = 0 BY <1>0, <1>2 DEF SlotInv, Attached
  <2>2. Changes(s, off, {"dialog"}) /\ off.dialog.request = 0 /\ off.desired = s.desired
    <3>1. /\ Changes(s, Hidden(s), {"dialog", "desired"})
          /\ Hidden(s).dialog.request = s.dialog.request
          /\ Hidden(s).desired # s.desired => s.dialog.request # 0 /\ Hidden(s).dialog.ignore
      BY <1>0, HiddenChanges
    <3>2. Changes(s, Hidden(s), {"dialog"}) BY <2>1, <3>1 DEF Changes, Fields
    <3> QED BY <1>0, <2>1, <3>1, <3>2 DEF Changes
  <2>3. r = Shown(new, free) BY <1>2, <2>2 DEF Opened
  <2>4. off \in State /\ off.host = s.host /\ off.saved = s.saved BY <2>2 DEF Changes, Fields
  <2>5. /\ Changes(off, new, {"dialog"})
        /\ new.dialog = [NoDialog EXCEPT !.target = s.host, !.job = s.saved[s.host], !.active = s.saved[s.host] # NoJob]
    BY <2>4, DialogOfChanges
  <2>6. /\ new.dialog.target = s.host /\ new.dialog.job = s.saved[s.host] /\ new.dialog.request = 0
        /\ new.dialog.job = NoJob \/ new.dialog.active BY <2>5 DEF NoDialog
  <2>7. Changes(s, new, {"dialog"}) BY <2>2, <2>5 DEF Changes, Fields
  <2>8. /\ new \in State /\ SameSlot(s, new) /\ SameWorld(s, new) /\ new.calls = s.calls /\ new.slot = s.slot
        /\ new.desired = s.desired BY <2>6, <2>7 DEF Changes, Fields, SameSlot, SameWorld
  <2>9. SlotInv(new) BY <1>0, <2>8, SlotStays
  <2>10. InstallInv(new)
    <3>1. \A j \in Jobs : Working(new, j) = Working(s, j) BY <2>8 DEF Working, SameWorld
    <3>2. JobsFit(new) BY <2>8, <3>1 DEF Sound, InstallInv, JobsFit, SameWorld
    <3>3. Saved(new) BY <2>8, <3>1 DEF Sound, InstallInv, Saved, SameWorld
    <3>4. new.saved = s.saved /\ s.host # NoHost BY <1>0, <2>8, SlotAssumption DEF SameWorld, State
    <3>5. Followed(new) BY <2>6, <2>8, <3>4 DEF Sound, InstallInv, Followed, SameWorld
    <3> QED BY <3>2, <3>3, <3>5 DEF InstallInv
  <2>11. Sound(new) BY <2>8, <2>9, <2>10 DEF Sound, SignalInv, SameWorld
  <2>12. Queried(new, r) /\ SlotInv(r) BY <2>3, <2>8, <2>9, ShownChanges, ShownOwns DEF SlotInv, SlotCore
  <2>13. Sound(r) BY <2>11, <2>12, QueryKeeps DEF Keeps
  <2>14. GrowsBy(s, r) /\ SlotKept(s, r) BY <2>8, <2>12 DEF Queried, GrowsBy, SlotKept
  <2> QED BY <2>13, <2>14, GrowthIsInBounds DEF Keeps
<1> QED BY <1>1, <1>2

----
(* The steps that ask and that decide. *)

\* The user asks for something that needs an answer of his first.
LEMMA AskKeeps ==
    ASSUME NEW s, Sound(s), s.modals = <<>>, NEW q \in Questions, q.kind \notin {"command", "plan"}
    PROVE  Keeps(s, Ask(s, q))
<1> PICK r : r = Ask(s, q) OBVIOUS
<1>0. s \in State /\ SlotInv(s) BY DEF Sound
<1>1. Changes(s, r, {"modals"}) /\ r.modals = <<q>> \o s.modals
  <2>1. <<q>> \o s.modals \in Seq(Questions) BY <1>0 DEF State
  <2> QED BY <1>0, <2>1 DEF Ask, Changes, State, Fields
<1>2. /\ r \in State /\ r.calls = s.calls /\ r.slot = s.slot /\ r.pending = s.pending /\ r.socks = s.socks
      /\ r.run = s.run /\ r.flag = s.flag /\ r.up = s.up /\ r.connecting = s.connecting
      /\ r.host = s.host /\ r.dialog = s.dialog /\ r.tools = s.tools /\ r.desired = s.desired
      /\ SameWorld(s, r) /\ SameOrActive(s, r) BY <1>1 DEF Changes, Fields, SameWorld, SameOrActive
<1>3. DOMAIN s.modals = {} OBVIOUS
<1>4. Questioned(r) /\ \A i \in DOMAIN r.modals : r.modals[i] = q
  <2>1. Questioned(s) /\ \A i \in DOMAIN s.modals : s.modals[i].kind # q.kind
    BY <1>0, <1>3 DEF SlotInv, SlotCore
  <2>2. /\ q.kind \in {"command", "plan"} \/ s.modals = <<>>
        /\ r.dialog.request = 0 \/ (r.dialog.request = s.dialog.request /\ r.dialog.op = s.dialog.op)
        /\ q.kind = "plan" => r.dialog.request = 0 BY <1>2
  <2>3. /\ Questioned(r)
        /\ \A i \in DOMAIN r.modals : r.modals[i] = q \/ \E j \in DOMAIN s.modals : r.modals[i] = s.modals[j]
    BY <1>0, <1>1, <1>2, <2>1, <2>2, QuestionAsked
  <2> QED BY <1>3, <2>3
<1>5. Asked(r) BY <1>4 DEF Asked
<1>6. Waiting(r) /\ Running(r) /\ \A k \in Sockets : ToldOnce(r, k)
  BY <1>0, <1>2 DEF SlotInv, SlotCore, SocketsFit, Waiting, Running, ToldOnce, Untold
<1>7. Numbered(r) /\ Owned(r) /\ Attached(r) BY <1>0, <1>2 DEF SlotInv, SlotCore, Numbered, Owned, Attached
<1>8. SlotInv(r) BY <1>0, <1>2, <1>4, <1>5, <1>6, <1>7 DEF SlotInv, SlotCore, SocketsFit
<1>9. NewCalls(s, r) /\ InBounds(s, r) BY <1>2, NothingIsInBounds
<1>10. Sound(r) BY <1>2, <1>8, <1>9, SoundStays
<1> QED BY <1>9, <1>10 DEF Keeps

\* The decision about a command is the only step that submits one.
LEMMA CommandDecidedKeeps ==
    ASSUME NEW s, Sound(s), s.modals # <<>>, Head(s.modals).kind = "command",
           NEW yes \in BOOLEAN, NEW free \in BOOLEAN, NEW x, x = Decided(s, yes, free)
    PROVE  Keeps(s, x)
<1>0. s \in State /\ SlotInv(s) /\ IsFiniteSet(s.calls) BY DEF Sound, SlotInv, SlotCore
<1> PICK k : k = Head(s.modals).who OBVIOUS
<1>1. /\ SlotInv(x) /\ k \in Sockets /\ SlotKept(s, x)
      /\ x.calls = s.calls \/
            /\ x.calls \subseteq s.calls \cup {Call(x.slot, "command", k)}
            /\ Open(s, k) /\ s.running /\ s.up /\ s.socks[k].token = s.run
            /\ Head(s.modals).host = s.host BY <1>0, CommandDecidedOwns
<1>2. Changes(s, x, {"modals", "socks", "calls", "slot", "desired", "flag", "pending"})
  BY <1>0, <1>1, DecidedChanges
<1>3. x \in State /\ SameWorld(s, x) /\ SameOrActive(s, x) BY <1>2 DEF Changes, Fields, SameWorld, SameOrActive
<1>4. NewCalls(s, x) /\ Submits(s, x) BY <1>1 DEF NewCalls, Submits, ApprovedBy, Call
<1>5. GivesUp(s, x) BY <1>1 DEF SlotKept, GivesUp
<1>6. Sound(x) BY <1>1, <1>3, <1>4, SoundStays
<1> QED BY <1>4, <1>5, <1>6 DEF Keeps, InBounds

\* The question on top is taken off: the rest is as it was.
LEMMA RestKeeps ==
    ASSUME NEW s, Sound(s), s.modals # <<>>, NEW r, r = Rest(s)
    PROVE  /\ Sound(r) /\ Changes(s, r, {"modals"}) /\ r.modals = Tail(s.modals)
           /\ r.slot = s.slot /\ r.desired = s.desired /\ r.calls = s.calls /\ Keeps(s, r)
<1>1. s \in State /\ SlotInv(s) BY DEF Sound
<1>2. SlotInv(r) /\ Changes(s, r, {"modals"}) /\ r.modals = Tail(s.modals) BY <1>1, DecidedOwns
<1>3. /\ r \in State /\ SameWorld(s, r) /\ SameOrActive(s, r)
      /\ r.slot = s.slot /\ r.desired = s.desired /\ r.calls = s.calls
  BY <1>2 DEF Changes, Fields, SameWorld, SameOrActive
<1>4. NewCalls(s, r) /\ InBounds(s, r) BY <1>3, NothingIsInBounds
<1>5. Sound(r) BY <1>2, <1>3, <1>4, SoundStays
<1> QED BY <1>2, <1>3, <1>4, <1>5 DEF Keeps

\* The decision about a signal or a speed test.
LEMMA ToolsDecidedKeeps ==
    ASSUME NEW s, Sound(s), s.modals # <<>>, Head(s.modals).kind \in {"signal", "speed"},
           NEW yes \in BOOLEAN, NEW free \in BOOLEAN, NEW r, r = ToolsDecided(s, yes, free)
    PROVE  Keeps(s, r)
<1>0. s \in State /\ SlotInv(s) BY DEF Sound
<1> PICK e : e = Rest(s) OBVIOUS
<1>1. Sound(e) /\ Changes(s, e, {"modals"}) /\ e.modals = Tail(s.modals) /\ SlotInv(e) BY RestKeeps DEF Sound
<1>2. Head(s.modals).kind \in Kinds BY DEF Kinds
<1>3. /\ Changes(s, r, {"modals", "slot", "desired", "calls", "tools", "helper"})
      /\ GrowsBy(s, r) /\ SlotInv(r) /\ SlotKept(s, r)
      /\ r.helper = s.helper \/ \E who \in Nat : r.helper = Sent(s.host, who)
  BY <1>0, <1>1, <1>2, ToolsDecidedOwns
<1>4. /\ r \in State /\ SameOrActive(s, r) /\ r.jobs = s.jobs /\ r.wire = s.wire /\ r.forgotten = s.forgotten
      /\ r.saved = s.saved /\ r.procs = s.procs /\ r.struck = s.struck /\ r.other = s.other
  BY <1>3 DEF Changes, Fields, SameOrActive
<1>5. NewCalls(s, r) /\ InBounds(s, r) BY <1>3, GrowthIsInBounds
<1>6. InstallInv(r) BY <1>0, <1>4, <1>5, InstallStays DEF Sound
<1>7. SignalInv(r)
  <2>1. s.host \in Hosts BY <1>0 DEF State
  <2>2. \A who : Sent(s.host, who).stage = "sent" /\ Sent(s.host, who).host = s.host BY DEF Sent, NoHelper
  <2> QED BY <1>3, <1>4, <2>1, <2>2 DEF Sound, SignalInv
<1> QED BY <1>3, <1>4, <1>5, <1>6, <1>7 DEF Sound, Keeps

\* Forgetting a job forgets the saved one too.
LEMMA ForgottenKeeps ==
    ASSUME NEW s, Sound(s), s.modals # <<>>, NEW yes \in BOOLEAN, NEW x, x = Forgotten(s, yes)
    PROVE  Keeps(s, x)
<1> PICK r : r = Rest(s) OBVIOUS
<1>0. s \in State BY DEF Sound
<1>1. /\ Sound(r) /\ Changes(s, r, {"modals"}) /\ Keeps(s, r) /\ r \in State /\ SlotInv(r)
      /\ r.slot = s.slot /\ r.desired = s.desired /\ r.calls = s.calls BY RestKeeps DEF Sound
<1>2. \/ x = r
      \/ /\ Changes(r, x, {"forgotten", "saved", "dialog"})
         /\ x.forgotten = (s.forgotten \cup ({s.dialog.job} \ {NoJob})) \cup ((Jobs \cap {s.saved[s.dialog.target]}) \ {NoJob})
         /\ x.saved = [s.saved EXCEPT ![s.dialog.target] = NoJob]
         /\ x.dialog.job = NoJob /\ x.dialog.target = s.dialog.target
         /\ x.dialog.request = s.dialog.request /\ x.dialog.op = s.dialog.op BY <1>0, ForgottenChanges
<1>3. CASE x # r
  <2>1. /\ x \in State /\ x.slot = s.slot /\ x.desired = s.desired /\ x.calls = s.calls /\ x.jobs = s.jobs
        /\ x.wire = s.wire /\ x.procs = s.procs /\ x.helper = s.helper /\ x.struck = s.struck /\ x.other = s.other
    BY <1>1, <1>2, <1>3 DEF Changes, Fields
  <2>2. SlotInv(x)
    <3>1. r.dialog = s.dialog BY <1>1 DEF Changes, Fields
    <3>2. SameSlot(r, x) BY <1>2, <1>3, <3>1 DEF SameSlot, Changes, Fields
    <3> QED BY <1>1, <2>1, <3>2, SlotStays
  <2>3. \A j \in Jobs : Working(x, j) = Working(s, j) BY <2>1 DEF Working
  <2>4. JobsFit(x) BY <2>1, <2>3 DEF Sound, InstallInv, JobsFit
  <2>5. s.saved \in [Hosts -> Jobs \cup {NoJob}] /\ s.dialog.target \in Hosts \cup {NoHost}
    BY <1>0 DEF State, Dialogs
  <2>6. \A h \in Hosts : x.saved[h] = IF h = s.dialog.target THEN NoJob ELSE s.saved[h] BY <1>2, <1>3, <2>5
  <2>7. Saved(x)
    <3>1. \A h \in Hosts : x.saved[h] # NoJob => x.jobs[x.saved[h]].host = h
      BY <2>1, <2>6 DEF Sound, InstallInv, Saved
    <3>2. ASSUME NEW j \in Jobs, Working(s, j), j \notin x.forgotten
          PROVE  x.saved[x.jobs[j].host] = j
      <4>1. j \notin s.forgotten /\ j # s.saved[s.dialog.target] BY <1>2, <1>3, <3>2 DEF NoJob, Jobs
      <4>2. s.saved[s.jobs[j].host] = j BY <3>2, <4>1 DEF Sound, InstallInv, Saved
      <4>3. s.jobs[j].host \in Hosts \cup {NoHost} BY <1>0 DEF State, JobStates
      <4>4. s.jobs[j].host \in Hosts BY <3>2, <4>3 DEF Sound, InstallInv, JobsFit, Working
      <4>5. s.jobs[j].host # s.dialog.target BY <4>1, <4>2
      <4> QED BY <2>1, <2>6, <4>2, <4>4, <4>5
    <3> QED BY <2>3, <3>1, <3>2 DEF Saved
  <2>8. Followed(x) BY <1>2, <1>3, <2>1 DEF Sound, InstallInv, Followed
  <2>9. NewCalls(s, x) /\ InBounds(s, x) BY <2>1, NothingIsInBounds
  <2>10. SignalInv(x) BY <2>1 DEF Sound, SignalInv
  <2> QED BY <2>1, <2>2, <2>4, <2>7, <2>8, <2>9, <2>10 DEF Sound, InstallInv, Keeps
<1> QED BY <1>1, <1>3

\* A submission for host h fits the other jobs: either nothing refers to it, or it is saved for its host,
\* and what was saved before is over or forgotten.
Begins(s, p, h, job) ==
    /\ s.jobs[job].host = NoHost /\ p.jobs = [s.jobs EXCEPT ![job].host = h] /\ p.wire = s.wire \cup {job}
    /\ s.forgotten \subseteq p.forgotten
    /\ \/ p.saved = s.saved /\ job \in p.forgotten
       \/ /\ p.saved = [s.saved EXCEPT ![h] = job]
          /\ s.saved[h] \in Jobs => Over(s.jobs[s.saved[h]]) \/ s.saved[h] \in p.forgotten

LEMMA BeginsFits ==
    ASSUME NEW s, Sound(s), NEW p, NEW h \in Hosts, NEW job \in Jobs, Begins(s, p, h, job), NewCalls(s, p)
    PROVE  JobsFit(p) /\ Saved(p) /\ \A j \in Jobs : Over(s.jobs[j]) => Over(p.jobs[j])
<1>0. s \in State /\ s.jobs \in [Jobs -> JobStates] /\ s.saved \in [Hosts -> Jobs \cup {NoJob}]
  BY DEF Sound, State
<1>1. h # NoHost /\ NoJob \notin Jobs BY SlotAssumption DEF NoJob, Jobs
<1>2. /\ \A j \in Jobs \ {job} : p.jobs[j] = s.jobs[j]
      /\ p.jobs[job].host = h /\ p.jobs[job].phase = s.jobs[job].phase
      /\ p.jobs[job].sup = s.jobs[job].sup /\ p.jobs[job].pkg = s.jobs[job].pkg
  <2> PICK f \in [Jobs -> JobStates] : f = s.jobs BY <1>0
  <2>1. p.jobs = [f EXCEPT ![job].host = h] BY DEF Begins
  <2> QED BY <2>1 DEF JobStates
<1>3. s.jobs[job].sup = "none" /\ s.jobs[job].phase = "none" /\ s.jobs[job].pkg = "none" /\ job \notin s.wire
  BY DEF Begins, Sound, InstallInv, JobsFit
<1>4. \A j \in Jobs \ {job} : Working(p, j) = Working(s, j) BY <1>2 DEF Begins, Working
<1>5. \A j \in Jobs : Over(p.jobs[j]) = Over(s.jobs[j]) BY <1>2 DEF Over
<1>6. JobsFit(p)
  <2>1. \A j \in Jobs :
      /\ p.jobs[j].host = NoHost => p.jobs[j].sup = "none" /\ j \notin p.wire
      /\ p.jobs[j].sup = "none" \/ j \in p.wire => p.jobs[j].sup = "none" /\ p.jobs[j].phase = "none" /\ p.jobs[j].pkg = "none"
    BY <1>1, <1>2, <1>3 DEF Begins, Sound, InstallInv, JobsFit
  <2>2. ~Over(p.jobs[job]) BY <1>2, <1>3 DEF Over
  <2>3. \A j \in Jobs : Over(p.jobs[j]) => ~Working(p, j) BY <1>4, <1>5, <2>2 DEF Sound, InstallInv, JobsFit
  <2>4. \A c \in p.calls : /\ c.what = "status" => c.who \in Jobs
                           /\ Over([phase |-> c.ans]) => c.who \in Jobs /\ Over(s.jobs[c.who])
    BY DEF Sound, InstallInv, JobsFit, NewCalls, Over
  <2> QED BY <1>5, <2>1, <2>3, <2>4 DEF JobsFit
<1>7. \A x \in Hosts : p.saved[x] \in {s.saved[x], job} /\ (p.saved[x] # s.saved[x] => x = h) BY <1>0 DEF Begins
<1>8. Saved(p)
  <2>1. ASSUME NEW x \in Hosts, p.saved[x] # NoJob
        PROVE  p.jobs[p.saved[x]].host = x
    <3>1. CASE p.saved[x] # s.saved[x] BY <1>2, <1>7, <3>1
    <3>2. CASE p.saved[x] = s.saved[x]
      <4>1. s.saved[x] \in Jobs /\ s.jobs[s.saved[x]].host = x BY <1>0, <2>1, <3>2 DEF Sound, InstallInv, Saved
      <4>2. s.saved[x] # job BY <4>1, SlotAssumption DEF Begins
      <4> QED BY <1>2, <3>2, <4>1, <4>2
    <3> QED BY <3>1, <3>2
  <2>2. ASSUME NEW j \in Jobs, Working(p, j)
        PROVE  j \in p.forgotten \/ p.saved[p.jobs[j].host] = j
    <3>1. CASE j = job BY <1>0, <1>2, <3>1 DEF Begins
    <3>2. CASE j # job
      <4>1. Working(s, j) /\ p.jobs[j] = s.jobs[j] BY <1>2, <1>4, <2>2, <3>2
      <4>2. s.jobs[j].host \in Hosts BY <1>0, <4>1 DEF Sound, InstallInv, JobsFit, Working, JobStates
      <4>3. j \in s.forgotten \/ s.saved[s.jobs[j].host] = j BY <4>1 DEF Sound, InstallInv, Saved
      <4>4. CASE s.jobs[j].host # h \/ p.saved = s.saved BY <1>7, <4>1, <4>2, <4>3, <4>4 DEF Begins
      <4>5. CASE s.jobs[j].host = h /\ p.saved # s.saved
        BY <4>1, <4>3, <4>5 DEF Begins, Sound, InstallInv, JobsFit
      <4> QED BY <4>4, <4>5
    <3> QED BY <3>1, <3>2
  <2> QED BY <2>1, <2>2 DEF Saved
<1> QED BY <1>5, <1>6, <1>8

\* A program that is killed after it has submitted a job, and before it has saved it.
Sends(s, p) ==
    \/ p.wire = s.wire /\ p.jobs = s.jobs
    \/ \E h \in Hosts, job \in Jobs :
          s.jobs[job].host = NoHost /\ p.jobs = [s.jobs EXCEPT ![job].host = h] /\ p.wire = s.wire \cup {job}

LEMMA UnsavedKeeps ==
    ASSUME NEW b, Sound(t), Keeps(t, b), b.jobs = t.jobs, b.wire = t.wire, NEW p, Sends(t, p)
    PROVE  Keeps(t, Unsaved(b, p))
<1> PICK s, w, js : s = t /\ w = p.wire /\ js = p.jobs OBVIOUS
<1> PICK x : x = Unsaved(b, p) OBVIOUS
<1>a. /\ Sound(s) /\ Keeps(s, b) /\ b.jobs = s.jobs /\ b.wire = s.wire
      /\ \/ w = s.wire /\ js = s.jobs
         \/ \E h \in Hosts, job \in Jobs :
               s.jobs[job].host = NoHost /\ js = [s.jobs EXCEPT ![job].host = h] /\ w = s.wire \cup {job}
      /\ x = [b EXCEPT !.wire = w, !.jobs = js, !.forgotten = @ \cup (w \ s.wire)] BY DEF Sends, Unsaved
<1> USE <1>a
<1>0. s \in State /\ b \in State /\ Sound(b) BY DEF Sound, Keeps
<1> PICK f : f = b.forgotten \cup (w \ s.wire) OBVIOUS
<1>1. js \in [Jobs -> JobStates] /\ w \in SUBSET Jobs /\ f \in SUBSET Jobs
  <2>1. s.jobs \in [Jobs -> JobStates] /\ s.wire \in SUBSET Jobs /\ b.forgotten \in SUBSET Jobs
    BY <1>0 DEF State
  <2>2. ASSUME NEW h \in Hosts, NEW job \in Jobs, js = [s.jobs EXCEPT ![job].host = h]
        PROVE  js \in [Jobs -> JobStates]
    <3> PICK g \in [Jobs -> JobStates] : g = s.jobs BY <2>1
    <3>1. [g[job] EXCEPT !.host = h] \in JobStates BY DEF JobStates
    <3>2. [g EXCEPT ![job] = [g[job] EXCEPT !.host = h]] \in [Jobs -> JobStates] BY <3>1
    <3> QED BY <2>2, <3>2
  <2>3. w \in SUBSET Jobs BY <2>1
  <2> QED BY <2>1, <2>2, <2>3
<1>2. Changes(b, x, {"wire", "jobs", "forgotten"}) /\ x.wire = w /\ x.jobs = js /\ x.forgotten = f
  BY <1>0, <1>1 DEF Changes, State, Fields
<1>3. /\ x \in State /\ SameSlot(b, x) /\ NewCalls(b, x) /\ x.saved = b.saved /\ x.other = b.other
      /\ x.dialog = b.dialog /\ x.procs = b.procs /\ x.helper = b.helper /\ x.struck = b.struck
      /\ x.slot = b.slot /\ x.desired = b.desired /\ x.calls = b.calls /\ x.running = b.running
      /\ x.socks = b.socks /\ x.tools = b.tools BY <1>2 DEF Changes, Fields, SameSlot, NewCalls
<1>4. JobsFit(x) /\ Saved(x) /\ \A j \in Jobs : Over(b.jobs[j]) => Over(x.jobs[j])
  <2>1. CASE w = s.wire /\ js = s.jobs
    <3>1. x.jobs = b.jobs /\ x.wire = b.wire /\ x.forgotten = b.forgotten BY <1>2, <2>1
    <3>2. InstallInv(x) BY <1>0, <1>3, <3>1, InstallStays DEF Sound, SameOrActive
    <3> QED BY <3>1, <3>2 DEF InstallInv
  <2>2. ASSUME NEW h \in Hosts, NEW job \in Jobs, s.jobs[job].host = NoHost,
               js = [s.jobs EXCEPT ![job].host = h], w = s.wire \cup {job}
        PROVE  JobsFit(x) /\ Saved(x) /\ \A j \in Jobs : Over(b.jobs[j]) => Over(x.jobs[j])
    <3>1. job \notin s.wire BY <2>2 DEF Sound, InstallInv, JobsFit
    <3>2. Begins(b, x, h, job) BY <1>2, <1>3, <2>2, <3>1 DEF Begins
    <3> QED BY <1>0, <1>3, <3>2, BeginsFits
  <2> QED BY <2>1, <2>2
<1>5. Followed(x) BY <1>0, <1>3, <1>4 DEF Sound, InstallInv, Followed, State, Dialogs, Others
<1>6. SlotInv(x) /\ SignalInv(x) BY <1>0, <1>3, SlotStays DEF Sound, SignalInv
<1>7. InBounds(s, x) BY <1>3 DEF Keeps, InBounds, Submits, GivesUp, CancelledBy, Open
<1>8. Keeps(s, x) BY <1>3, <1>4, <1>5, <1>6, <1>7 DEF Keeps, Sound, InstallInv
<1> QED BY <1>8

\* An approved plan becomes the saved job of its host.
LEMMA PlannedKeeps ==
    ASSUME NEW s, Sound(s), s.modals # <<>>, NEW yes \in BOOLEAN, NEW free \in BOOLEAN,
           yes => \E j \in Jobs : s.jobs[j].host = NoHost,
           NEW p, p = Planned(s, yes, free)
    PROVE  Keeps(s, p)
<1> PICK r : r = Rest(s) OBVIOUS
<1>0. s \in State /\ SlotInv(s) /\ IsFiniteSet(s.calls) BY DEF Sound, SlotInv, SlotCore
<1>1. /\ Sound(r) /\ Changes(s, r, {"modals"}) /\ Keeps(s, r) /\ r \in State /\ SlotInv(r)
      /\ r.slot = s.slot /\ r.desired = s.desired /\ r.calls = s.calls BY RestKeeps DEF Sound
<1>2. CASE p # r
  <2> PICK job \in Jobs : \E sent : SubmittedAs(s, r, p, job, sent, free) BY <1>0, <1>2, PlannedChanges
  <2> PICK sent : SubmittedAs(s, r, p, job, sent, free) OBVIOUS
  <2>0. /\ sent = Request(r, "install", job, free)
        /\ s.jobs[job].host = NoHost
        /\ Queried(r, sent) /\ Changes(sent, p, {"dialog", "saved", "wire", "jobs", "forgotten"})
        /\ sent # r /\ s.up /\ s.dialog.target = s.host /\ ~s.dialog.active
        /\ p.dialog = [sent.dialog EXCEPT !.job = job, !.active = TRUE, !.unknown = FALSE]
        /\ p.saved = [s.saved EXCEPT ![s.host] = job] /\ p.wire = s.wire \cup {job}
        /\ p.jobs = [s.jobs EXCEPT ![job].host = s.host]
        /\ p.forgotten = s.forgotten \cup ((Jobs \cap {s.saved[s.host]}) \ {s.dialog.job}) BY DEF SubmittedAs
  <2> USE <2>0
  <2>1. /\ sent \in State /\ p \in State /\ p.calls = sent.calls /\ p.slot = sent.slot /\ p.desired = sent.desired
        /\ p.procs = s.procs /\ p.helper = s.helper /\ p.struck = s.struck /\ p.other = s.other
        /\ sent.dialog.target = s.dialog.target BY <1>1 DEF Changes, Fields, Queried, SameJob
  <2>2. /\ p.dialog.job = job /\ p.dialog.active /\ p.dialog.target = sent.dialog.target
        /\ p.dialog.request = sent.dialog.request /\ p.dialog.op = sent.dialog.op
    <3> PICK o \in Dialogs : o = sent.dialog BY <2>1 DEF State
    <3> QED BY DEF Dialogs
  <2>3. SlotInv(sent)
    <3> PICK op \in Queries : op = "install" BY DEF Queries
    <3>1. job \in Nat /\ op \notin {"status", "plan"} BY DEF Jobs
    <3>2. SlotInv(Request(r, op, job, free)) BY <1>1, <3>1, RequestOwns
    <3> QED BY <3>2
  <2>4. SlotInv(p)
    <3>1. SameSlot(sent, p) BY <2>2 DEF SameSlot, Changes, Fields
    <3> QED BY <2>1, <2>3, <3>1, SlotStays
  <2>5. GrowsBy(s, p) /\ SlotKept(s, p) BY <1>1, <2>1 DEF Queried, GrowsBy, SlotKept
  <2>6. NewCalls(s, p) /\ InBounds(s, p) BY <2>5, GrowthIsInBounds
  <2>7. s.host \in Hosts /\ NoJob \notin Jobs BY <1>0 DEF State, NoJob, Jobs
  <2>8. Begins(s, p, s.host, job)
    <3>1. s.saved[s.host] \in Jobs => s.saved[s.host] \in p.forgotten \/ Over(s.jobs[s.saved[s.host]])
      BY <2>7 DEF Sound, InstallInv, Followed
    <3> QED BY <3>1 DEF Begins
  <2>9. JobsFit(p) /\ Saved(p) /\ \A j \in Jobs : Over(s.jobs[j]) => Over(p.jobs[j])
    <3> PICK h \in Hosts : h = s.host BY <2>7
    <3>1. Begins(s, p, h, job) BY <2>8
    <3> QED BY <2>6, <3>1, BeginsFits
  <2>10. Followed(p)
    <3>1. s.other.job \in Jobs \cup {NoJob} BY <1>0 DEF State, Others
    <3> QED BY <2>1, <2>2, <2>9, <3>1 DEF Sound, InstallInv, Followed
  <2>11. SignalInv(p) BY <2>1 DEF Sound, SignalInv
  <2> QED BY <2>1, <2>4, <2>6, <2>9, <2>10, <2>11 DEF Sound, InstallInv, Keeps
<1> QED BY <1>1, <1>2

----
(* The steps of the server tools. *)

\* What the tools may change concerns neither the installations nor the signals.
LEMMA ToolsKeep ==
    ASSUME NEW s, Sound(s), NEW r, Refreshed(s, r), SlotInv(r), SlotKept(s, r) \/ ToolsGiveUp(s, r)
    PROVE  Keeps(s, r)
<1>1. r \in State /\ SameWorld(s, r) /\ SameOrActive(s, r)
  BY DEF Refreshed, Changes, Fields, SameWorld, SameOrActive
<1>2. NewCalls(s, r) /\ InBounds(s, r) BY GrowthIsInBounds, GivenUpIsInBounds DEF Refreshed, Sound
<1>3. Sound(r) BY <1>1, <1>2, SoundStays
<1> QED BY <1>2, <1>3 DEF Keeps

\* Each of what the user and the timer do with the tools.
LEMMA ToolsStepsKeep ==
    ASSUME NEW s, Sound(s), NEW page \in {0, 1}, NEW free \in BOOLEAN
    PROVE  /\ Keeps(s, PageShown(s, page, free)) /\ Keeps(s, RefreshTools(s, free))
           /\ Keeps(s, TaskCancelled(s)) /\ Keeps(s, ToolsClosed(s))
<1>0. s \in State /\ SlotInv(s) /\ IsFiniteSet(s.calls) BY DEF Sound, SlotInv, SlotCore
<1>1. Keeps(s, PageShown(s, page, free))
  <2> PICK r : r = PageShown(s, page, free) OBVIOUS
  <2>1. Refreshed(s, r) /\ SlotInv(r) /\ ToolsGiveUp(s, r) BY <1>0, PageShownOwns
  <2>2. Keeps(s, r) BY <2>1, ToolsKeep
  <2> QED BY <2>2
<1>2. Keeps(s, RefreshTools(s, free))
  <2> PICK r : r = RefreshTools(s, free) OBVIOUS
  <2>1. Refreshed(s, r) /\ SlotInv(r) /\ SlotKept(s, r) BY <1>0, RefreshChanges, QueriesOwn
  <2>2. Keeps(s, r) BY <2>1, ToolsKeep
  <2> QED BY <2>2
<1>3. Keeps(s, TaskCancelled(s))
  <2> PICK r : r = TaskCancelled(s) OBVIOUS
  <2>1. Refreshed(s, r) /\ SlotInv(r) /\ ToolsGiveUp(s, r) BY <1>0, TaskCancelledOwns
  <2>2. Keeps(s, r) BY <2>1, ToolsKeep
  <2> QED BY <2>2
<1>4. Keeps(s, ToolsClosed(s))
  <2> PICK r : r = ToolsClosed(s) OBVIOUS
  <2>1. Refreshed(s, r) /\ SlotInv(r) /\ ToolsGiveUp(s, r) BY <1>0, ToolsClosedOwns
  <2>2. Keeps(s, r) BY <2>1, ToolsKeep
  <2> QED BY <2>2
<1> QED BY <1>1, <1>2, <1>3, <1>4

\* Automatic refreshing is switched on or off.
LEMMA ToggleKeeps ==
    ASSUME NEW s, Sound(s), NEW r, r = [s EXCEPT !.tools.auto = ~@]
    PROVE  Keeps(s, r)
<1>0. s \in State /\ SlotInv(s) BY DEF Sound
<1> PICK o \in ToolStates : o = s.tools BY <1>0 DEF State
<1> PICK b \in BOOLEAN : b = ~o.auto BY DEF ToolStates
<1> PICK w : w = [o EXCEPT !.auto = b] OBVIOUS
<1>a. w \in ToolStates /\ w.request = o.request BY DEF ToolStates
<1>b. r = [s EXCEPT !.tools = w] BY <1>0
<1>1. Changes(s, r, {"tools"}) /\ r.tools = w BY <1>0, <1>a, <1>b DEF Changes, State, Fields
<1>2. /\ Changes(s, r, {"tools", "desired"}) /\ r.tools.request = s.tools.request
      /\ r.calls = s.calls /\ r.slot = s.slot /\ r.desired = s.desired BY <1>a, <1>1 DEF Changes, Fields
<1>3. SlotInv(r) BY <1>0, <1>2, ToolsChangeOwns
<1>4. Refreshed(s, r) /\ SlotKept(s, r)
  BY <1>0, <1>1, <1>2 DEF Refreshed, Changes, Fields, GrowsBy, SlotInv, SlotCore, SlotKept
<1> QED BY <1>3, <1>4, ToolsKeep

----
(* The steps of the servers. *)

\* The servers answer calls of the pane, but leave the pane itself alone.
Serves(s, r) ==
    /\ Changes(s, r, {"calls"}) /\ IsFiniteSet(r.calls)
    /\ \A d \in r.calls : \E c \in s.calls : d.id = c.id /\ d.what = c.what /\ d.who = c.who
                                             /\ (d = c \/ d.ans # "none")
    /\ \A c \in s.calls : \E d \in r.calls : d.id = c.id
    /\ \A c, d \in r.calls : c.id = d.id => c = d

\* What the servers do keeps what holds of the slot: a call that runs keeps its number.
LEMMA ServesOwns ==
    ASSUME NEW s, Sound(s), NEW r, Serves(s, r)
    PROVE  SlotInv(r)
<1>0. s \in State /\ SlotInv(s) BY DEF Sound
<1>1. /\ r.slot = s.slot /\ r.modals = s.modals /\ r.pending = s.pending /\ r.socks = s.socks /\ r.flag = s.flag
      /\ r.up = s.up /\ r.connecting = s.connecting /\ r.host = s.host /\ r.run = s.run /\ r.dialog = s.dialog
      /\ r.tools = s.tools /\ r \in State BY DEF Serves, Changes, Fields
<1>2. Questioned(r) /\ Attached(r) BY <1>0, <1>1 DEF SlotInv, SlotCore, Questioned, Attached
<1>3. Numbered(r) BY <1>0, <1>1 DEF Serves, SlotInv, SlotCore, Numbered
<1>4. Owned(r) BY <1>0, <1>1 DEF SlotInv, SlotCore, Owned
<1>5. Asked(r) /\ Waiting(r) /\ \A k \in Sockets : ToldOnce(r, k)
  BY <1>0, <1>1 DEF SlotInv, SlotCore, SocketsFit, Asked, Waiting, ToldOnce, Untold
<1>6. Running(r) BY <1>0, <1>1 DEF Serves, SlotInv, SlotCore, SocketsFit, Running
<1> QED BY <1>0, <1>1, <1>2, <1>3, <1>4, <1>5, <1>6 DEF Serves, SlotInv, SlotCore, SocketsFit

\* A call that has run keeps its number.
RanWith(c, ans) == [c EXCEPT !.ans = ans]

\* A call that runs is answered, and is otherwise the same.
LEMMA ExecutesServes ==
    ASSUME NEW s, Sound(s), NEW c \in s.calls, NEW ans \in Answers \ {"none"},
           NEW r, r = Executes(s, c, ans)
    PROVE  /\ Serves(s, r)
           /\ \A d \in r.calls : d \in s.calls \/ (d.ans = ans /\ d.what = c.what /\ d.who = c.who)
<1>0. s \in State /\ SlotInv(s) /\ c \in Calls BY DEF Sound, State
<1> PICK d : d = RanWith(c, ans) OBVIOUS
<1>a. d \in Calls /\ d.id = c.id /\ d.what = c.what /\ d.who = c.who /\ d.ans = ans
  <2> PICK o \in Calls : o = c BY <1>0
  <2>1. [o EXCEPT !.ans = ans] \in Calls BY DEF Calls
  <2> QED BY <2>1 DEF Calls, RanWith
<1>1. (s.calls \ {c}) \cup {d} \in SUBSET Calls BY <1>0, <1>a DEF State
<1>2. Changes(s, r, {"calls"}) /\ r.calls = (s.calls \ {c}) \cup {d}
  BY <1>0, <1>1 DEF RanWith, Executes, Changes, State, Fields
<1>3. IsFiniteSet(r.calls)
  <2>1. IsFiniteSet(s.calls \ {c}) BY <1>0, FS_Subset DEF SlotInv, SlotCore
  <2>2. IsFiniteSet((s.calls \ {c}) \cup {d}) BY <2>1, FS_AddElement
  <2> QED BY <1>2, <2>2
<1>4. \A x, y \in s.calls : x.id = y.id => x = y BY <1>0 DEF SlotInv, SlotCore, Numbered
<1>5. \A x, y \in r.calls : x.id = y.id => x = y BY <1>a, <1>2, <1>4
<1>7. \A x \in r.calls : \E y \in s.calls : x.id = y.id /\ x.what = y.what /\ x.who = y.who /\ (x = y \/ x.ans # "none")
  BY <1>a, <1>2
<1>8. \A y \in s.calls : \E x \in r.calls : x.id = y.id BY <1>a, <1>2
<1> QED BY <1>a, <1>2, <1>3, <1>5, <1>7, <1>8 DEF Serves

\* A step of the servers submits no call and gives up none.
Still(s, r) ==
    r.slot = s.slot /\ r.desired = s.desired /\ \A d \in r.calls \ s.calls : d.ans # "none"

\* A step of the servers is in bounds.
LEMMA StillKeeps ==
    ASSUME NEW s, NEW r, Sound(r), Still(s, r)
    PROVE  Keeps(s, r)
BY DEF Still, Keeps, InBounds, Submits, GivesUp

\* A call runs, and is told of no end of a job that has not ended.
LEMMA CallRuns ==
    ASSUME NEW s, Sound(s), NEW c \in s.calls, NEW ans \in Answers \ {"none"},
           Over([phase |-> ans]) => c.who \in Jobs /\ Over(s.jobs[c.who]),
           NEW r, r = Executes(s, c, ans)
    PROVE  Sound(r) /\ Still(s, r) /\ Changes(s, r, {"calls"})
<1>0. s \in State /\ SlotInv(s) /\ InstallInv(s) BY DEF Sound
<1>4. /\ Serves(s, r)
      /\ \A d \in r.calls : d \in s.calls \/ (d.ans = ans /\ d.what = c.what /\ d.who = c.who) BY ExecutesServes
<1>5. SlotInv(r) BY <1>4, ServesOwns
<1>6. /\ r \in State /\ r.jobs = s.jobs /\ r.wire = s.wire /\ r.forgotten = s.forgotten /\ r.saved = s.saved
      /\ r.dialog = s.dialog /\ r.procs = s.procs /\ r.helper = s.helper /\ r.struck = s.struck
      /\ r.slot = s.slot /\ r.desired = s.desired /\ r.other = s.other BY <1>4 DEF Serves, Changes, Fields
<1>7. \A j \in Jobs : Working(r, j) = Working(s, j) BY <1>6 DEF Working
<1>8. \A d \in r.calls : /\ d.what = "status" => d.who \in Jobs
                         /\ Over([phase |-> d.ans]) => d.who \in Jobs /\ Over(r.jobs[d.who])
  BY <1>0, <1>4, <1>6 DEF InstallInv, JobsFit
<1>9. JobsFit(r) BY <1>0, <1>6, <1>7, <1>8 DEF InstallInv, JobsFit
<1>10. Saved(r) /\ Followed(r) BY <1>0, <1>6, <1>7 DEF InstallInv, Saved, Followed
<1>11. SignalInv(r) BY <1>6 DEF Sound, SignalInv
<1> QED BY <1>4, <1>5, <1>6, <1>9, <1>10, <1>11 DEF Sound, InstallInv, Still, Serves

\* A status reports the phase of its job.
LEMMA StatusRunsKeeps ==
    ASSUME NEW s, Sound(s), NEW c \in s.calls, c.what = "status", NEW ans \in StatusOf(s.jobs[c.who])
    PROVE  Keeps(s, Executes(s, c, ans))
<1> PICK r : r = Executes(s, c, ans) OBVIOUS
<1>0. s \in State /\ InstallInv(s) BY DEF Sound
<1>1. c.who \in Jobs BY <1>0 DEF InstallInv, JobsFit
<1>2. s.jobs[c.who] \in JobStates BY <1>0, <1>1 DEF State
<1>3. ans \in Answers \ {"none"} /\ (Over([phase |-> ans]) => Over(s.jobs[c.who]))
  BY <1>2 DEF StatusOf, Answers, Phases, JobStates, Over
<1>4. Sound(r) /\ Still(s, r) BY <1>1, <1>3, CallRuns
<1>5. Keeps(s, r) BY <1>4, StillKeeps
<1> QED BY <1>5

\* A job goes on: it was approved for a host, and it ends only when nobody works on it any more.
GoesOn(s, j, job) ==
    /\ s.jobs[j].host # NoHost /\ job.host = s.jobs[j].host /\ job.sup # "none"
    /\ Over(job) => job.sup = "gone" /\ job.pkg # "alive"
    /\ ~Over(s.jobs[j])
    /\ Working(s, j)

\* A job that goes on is still the saved one, and one that ends has nobody at work on it.
LEMMA JobKeeps ==
    ASSUME NEW s, Sound(s), NEW j \in Jobs, NEW job \in JobStates, GoesOn(s, j, job),
           NEW r, Changes(s, r, {"jobs", "wire"}), r.jobs = [s.jobs EXCEPT ![j] = job], r.wire = s.wire \ {j}
    PROVE  Sound(r) /\ Still(s, r)
<1>0. s \in State /\ SlotInv(s) /\ InstallInv(s) /\ s.jobs \in [Jobs -> JobStates] BY DEF Sound, State
<1>1. /\ r \in State /\ r.calls = s.calls /\ r.slot = s.slot /\ r.desired = s.desired /\ r.dialog = s.dialog
      /\ r.saved = s.saved /\ r.forgotten = s.forgotten /\ r.procs = s.procs /\ r.helper = s.helper
      /\ r.struck = s.struck /\ r.other = s.other /\ SameSlot(s, r) BY DEF Changes, Fields, SameSlot
<1>2. SlotInv(r) BY <1>0, <1>1, SlotStays
<1>3. /\ r.jobs[j] = job /\ \A i \in Jobs \ {j} : r.jobs[i] = s.jobs[i]
      /\ \A i \in Jobs : r.jobs[i].host = s.jobs[i].host BY <1>0 DEF GoesOn
<1>4. \A i \in Jobs \ {j} : Working(r, i) = Working(s, i) /\ Over(r.jobs[i]) = Over(s.jobs[i])
  BY <1>3 DEF Working, Over
<1>5. \A i \in Jobs : Working(r, i) => Working(s, i) BY <1>4 DEF GoesOn
<1>6. Over(job) => ~Working(r, j) BY <1>3 DEF GoesOn, Working
<1>7. \A i \in Jobs :
        /\ r.jobs[i].host = NoHost => r.jobs[i].sup = "none" /\ i \notin r.wire
        /\ r.jobs[i].sup = "none" \/ i \in r.wire => r.jobs[i].sup = "none" /\ r.jobs[i].phase = "none" /\ r.jobs[i].pkg = "none"
  BY <1>0, <1>3 DEF InstallInv, JobsFit, GoesOn
<1>8. \A i \in Jobs : Over(s.jobs[i]) => Over(r.jobs[i]) BY <1>4 DEF GoesOn
<1>9. \A i \in Jobs : Over(r.jobs[i]) => ~Working(r, i) BY <1>0, <1>3, <1>4, <1>6 DEF InstallInv, JobsFit
<1>10. JobsFit(r) BY <1>0, <1>1, <1>7, <1>8, <1>9 DEF InstallInv, JobsFit
<1>11. Saved(r)
  <2>1. \A h \in Hosts : s.saved[h] # NoJob => s.saved[h] \in Jobs BY <1>0 DEF State
  <2> QED BY <1>0, <1>1, <1>3, <1>5, <2>1 DEF InstallInv, Saved
<1>12. Followed(r)
  <2>1. s.dialog.job \in Jobs \cup {NoJob} /\ s.other.job \in Jobs \cup {NoJob}
    BY <1>0 DEF State, Dialogs, Others
  <2> QED BY <1>0, <1>1, <1>8, <2>1 DEF InstallInv, Followed
<1>13. SignalInv(r) BY <1>1 DEF Sound, SignalInv
<1> QED BY <1>1, <1>2, <1>10, <1>11, <1>12, <1>13 DEF Sound, InstallInv, Still

\* A submission that the server gets makes a job of it, and one that gets lost none.
LEMMA InstallBeginsKeeps ==
    ASSUME NEW s, Sound(s), NEW j \in s.wire, NEW forked \in BOOLEAN, NEW r, r = InstallBegins(s, j, forked)
    PROVE  Sound(r) /\ Still(s, r) /\ Changes(s, r, {"jobs", "wire"})
<1>0. s \in State /\ InstallInv(s) /\ s.jobs \in [Jobs -> JobStates] /\ j \in Jobs BY DEF Sound, State
<1> PICK o \in JobStates : o = s.jobs[j] BY <1>0
<1>1. o.sup = "none" /\ o.phase = "none" /\ o.pkg = "none" /\ o.host # NoHost BY <1>0 DEF InstallInv, JobsFit
<1> PICK phase \in Phases, sup \in {"new", "gone"} :
        /\ phase = IF forked THEN "starting" ELSE "failed"
        /\ sup = IF forked THEN "new" ELSE "gone" BY DEF Phases
<1> PICK job : job = [o EXCEPT !.phase = phase, !.sup = sup] OBVIOUS
<1>2. /\ job \in JobStates /\ job.host = o.host /\ job.sup = sup /\ job.phase = phase /\ job.pkg = o.pkg
  BY DEF JobStates, Phases
<1>3. r = [s EXCEPT !.wire = @ \ {j}, !.jobs[j] = job] BY DEF InstallBegins
<1>4. s.wire \ {j} \in SUBSET Jobs /\ [s.jobs EXCEPT ![j] = job] \in [Jobs -> JobStates] BY <1>0, <1>2 DEF State
<1>5. Changes(s, r, {"jobs", "wire"}) /\ r.jobs = [s.jobs EXCEPT ![j] = job] /\ r.wire = s.wire \ {j}
  BY <1>0, <1>3, <1>4 DEF Changes, State, Fields
<1>6. GoesOn(s, j, job) BY <1>1, <1>2 DEF GoesOn, Over, Working
<1> QED BY <1>0, <1>2, <1>5, <1>6, JobKeeps

\* A submission that gets lost is no job.
LEMMA InstallDroppedKeeps ==
    ASSUME NEW s, Sound(s), NEW j \in s.wire, NEW r, r = [s EXCEPT !.wire = @ \ {j}]
    PROVE  Keeps(s, r)
<1>0. s \in State /\ SlotInv(s) /\ InstallInv(s) BY DEF Sound
<1>1. Changes(s, r, {"wire"}) /\ r.wire = s.wire \ {j}
  <2>1. s.wire \ {j} \in SUBSET Jobs BY <1>0 DEF State
  <2> QED BY <1>0, <2>1 DEF Changes, State, Fields
<1>2. /\ r \in State /\ r.calls = s.calls /\ r.slot = s.slot /\ r.desired = s.desired /\ r.dialog = s.dialog
      /\ r.saved = s.saved /\ r.forgotten = s.forgotten /\ r.procs = s.procs /\ r.helper = s.helper
      /\ r.struck = s.struck /\ r.jobs = s.jobs /\ r.other = s.other /\ SameSlot(s, r)
  BY <1>1 DEF Changes, Fields, SameSlot
<1>3. SlotInv(r) BY <1>0, <1>2, SlotStays
<1>4. \A i \in Jobs : Working(r, i) => Working(s, i) BY <1>1, <1>2 DEF Working
<1>5. JobsFit(r) BY <1>0, <1>1, <1>2, <1>4 DEF InstallInv, JobsFit
<1>6. Saved(r) /\ Followed(r) BY <1>0, <1>2, <1>4 DEF InstallInv, Saved, Followed
<1>7. SignalInv(r) BY <1>2 DEF Sound, SignalInv
<1>8. InBounds(s, r) BY <1>2, NothingIsInBounds
<1> QED BY <1>2, <1>3, <1>5, <1>6, <1>7, <1>8 DEF Sound, InstallInv, Keeps

\* What the supervisor of a job does, and how it fails.
LEMMA SupervisorKeeps ==
    ASSUME NEW s, Sound(s), NEW j \in Jobs, NEW job, NEW o, o = s.jobs[j],
           \/ o.sup = "new" /\ job = SupervisorBegins(o)
           \/ o.sup = "alive" /\ o.pkg = "none" /\ job = PackageBegins(o)
           \/ o.pkg = "alive" /\ job = PackageEnds(o)
           \/ /\ o.sup = "alive" /\ o.pkg = "ended"
              /\ \E phase \in {"succeeded", "failed"} : job = SupervisorReports(o, phase)
           \/ o.sup = "alive" /\ job = SupervisorFails(o)
           \/ o.sup \in {"new", "alive"} /\ job = SupervisorDies(o),
           NEW r, r = [s EXCEPT !.jobs[j] = job]
    PROVE  Keeps(s, r)
<1>0. s \in State /\ InstallInv(s) /\ s.jobs \in [Jobs -> JobStates] /\ o \in JobStates BY DEF Sound, State
<1>1. o.host # NoHost /\ ~Over(o) /\ j \notin s.wire /\ o.sup # "none" /\ Working(s, j)
  BY <1>0 DEF InstallInv, JobsFit, Working
<1>2. /\ job \in JobStates /\ job.host = o.host /\ job.sup # "none"
      /\ Over(job) => job.sup = "gone" /\ job.pkg # "alive"
  <2>1. CASE o.sup = "new" /\ job = SupervisorBegins(o)
    BY <1>0, <2>1 DEF SupervisorBegins, JobStates, Phases, Over
  <2>2. CASE o.sup = "alive" /\ o.pkg = "none" /\ job = PackageBegins(o)
    BY <1>0, <1>1, <2>2 DEF PackageBegins, JobStates, Phases, Over
  <2>3. CASE o.pkg = "alive" /\ job = PackageEnds(o)
    BY <1>0, <1>1, <2>3 DEF PackageEnds, JobStates, Phases, Over
  <2>4. ASSUME NEW phase \in {"succeeded", "failed"}, o.sup = "alive", o.pkg = "ended",
               job = SupervisorReports(o, phase)
        PROVE  /\ job \in JobStates /\ job.host = o.host /\ job.sup # "none"
               /\ Over(job) => job.sup = "gone" /\ job.pkg # "alive"
    BY <1>0, <2>4 DEF SupervisorReports, JobStates, Phases, Over
  <2>5. CASE o.sup = "alive" /\ job = SupervisorFails(o)
    BY <1>0, <2>5 DEF SupervisorFails, SupervisorReports, JobStates, Phases, Over
  <2>6. CASE o.sup \in {"new", "alive"} /\ job = SupervisorDies(o)
    BY <1>0, <1>1, <2>6 DEF SupervisorDies, JobStates, Phases, Over
  <2> QED BY <2>1, <2>2, <2>3, <2>4, <2>5, <2>6
<1>3. /\ Changes(s, r, {"jobs", "wire"}) /\ r.jobs = [s.jobs EXCEPT ![j] = job] /\ r.wire = s.wire \ {j}
  <2>1. [s.jobs EXCEPT ![j] = job] \in [Jobs -> JobStates] BY <1>0, <1>2
  <2> QED BY <1>0, <1>1, <2>1 DEF Changes, State, Fields
<1>4. GoesOn(s, j, job) BY <1>1, <1>2 DEF GoesOn
<1>5. Sound(r) /\ Still(s, r) BY <1>2, <1>3, <1>4, JobKeeps
<1> QED BY <1>5, StillKeeps

\* The helper and the processes.
LEMMA ProcessesKeep ==
    ASSUME NEW s, Sound(s), NEW r, Changes(s, r, {"helper", "procs", "struck"}), SignalInv(r)
    PROVE  Sound(r) /\ Still(s, r)
<1>0. s \in State /\ SlotInv(s) /\ InstallInv(s) BY DEF Sound
<1>1. /\ r \in State /\ r.calls = s.calls /\ r.slot = s.slot /\ r.desired = s.desired /\ r.dialog = s.dialog
      /\ r.saved = s.saved /\ r.forgotten = s.forgotten /\ r.wire = s.wire /\ r.jobs = s.jobs /\ SameSlot(s, r)
      /\ r.other = s.other BY DEF Changes, Fields, SameSlot
<1>2. SlotInv(r) BY <1>0, <1>1, SlotStays
<1>3. NewCalls(s, r) /\ SameOrActive(s, r) BY <1>1 DEF NewCalls, SameOrActive
<1>4. InstallInv(r) BY <1>0, <1>1, <1>3, InstallStays
<1> QED BY <1>1, <1>2, <1>4 DEF Sound, Still

\* The helper looks at the process only after it has a handle of it: when the process it wants is
\* still there, the handle is of that process.
LEMMA HelperKeeps ==
    ASSUME NEW s, Sound(s), NEW r,
           \/ s.helper.stage = "sent" /\ r = HelperOpens(s)
           \/ s.helper.stage = "opened" /\ r = HelperChecks(s)
           \/ s.helper.stage = "checked" /\ r = HelperSignals(s)
           \/ r = [s EXCEPT !.helper = NoHelper]
    PROVE  Sound(r) /\ Still(s, r)
<1>0. s \in State /\ SignalInv(s) /\ s.procs \in [Hosts -> Nat] /\ ~s.struck BY DEF Sound, State, SignalInv
<1> PICK o \in Helpers : o = s.helper BY <1>0 DEF State
<1>1. CASE s.helper.stage = "sent" /\ r = HelperOpens(s)
  <2>1. s.procs[o.host] \in Nat /\ o.host \in Hosts BY <1>0, <1>1 DEF SignalInv
  <2> PICK h : h = [o EXCEPT !.stage = "opened", !.handle = s.procs[o.host]] OBVIOUS
  <2>2. h \in Helpers /\ h.stage = "opened" /\ h.handle = s.procs[o.host] /\ h.host = o.host /\ h.want = o.want
    BY <2>1 DEF Helpers
  <2>3. r = [s EXCEPT !.helper = h] BY <1>0, <1>1 DEF HelperOpens, State
  <2>4. Changes(s, r, {"helper", "procs", "struck"}) /\ r.helper = h /\ r.procs = s.procs /\ r.struck = s.struck
    BY <1>0, <2>2, <2>3 DEF Changes, State, Fields
  <2>5. SignalInv(r) BY <1>0, <2>1, <2>2, <2>4 DEF SignalInv
  <2> QED BY <2>4, <2>5, ProcessesKeep
<1>2. CASE s.helper.stage = "opened" /\ r = HelperChecks(s)
  <2> PICK stage \in {"checked", "ended"} : stage = IF s.procs[o.host] = o.want THEN "checked" ELSE "ended"
    OBVIOUS
  <2> PICK h : h = [o EXCEPT !.stage = stage] OBVIOUS
  <2>2. h \in Helpers /\ h.stage = stage /\ h.handle = o.handle /\ h.host = o.host /\ h.want = o.want
    BY DEF Helpers
  <2>3. r = [s EXCEPT !.helper = h] BY <1>0, <1>2 DEF HelperChecks, State
  <2>4. Changes(s, r, {"helper", "procs", "struck"}) /\ r.helper = h /\ r.procs = s.procs /\ r.struck = s.struck
    BY <1>0, <2>2, <2>3 DEF Changes, State, Fields
  <2>5. SignalInv(r) BY <1>0, <1>2, <2>2, <2>4 DEF SignalInv
  <2> QED BY <2>4, <2>5, ProcessesKeep
<1>3. CASE s.helper.stage = "checked" /\ r = HelperSignals(s)
  <2> PICK h : h = [o EXCEPT !.stage = "ended"] OBVIOUS
  <2>2. h \in Helpers /\ h.stage = "ended" /\ h.host = o.host BY DEF Helpers
  <2>3. Reached(s) \in {NoProcess, s.helper.want} BY <1>0, <1>3 DEF SignalInv, Reached
  <2>4. r = [s EXCEPT !.helper = h, !.struck = FALSE] BY <1>0, <1>3, <2>3 DEF HelperSignals, State
  <2>5. Changes(s, r, {"helper", "procs", "struck"}) /\ r.helper = h /\ r.procs = s.procs /\ r.struck = FALSE
    BY <1>0, <2>2, <2>4 DEF Changes, State, Fields
  <2>6. SignalInv(r) BY <1>0, <1>3, <2>2, <2>5 DEF SignalInv
  <2> QED BY <2>5, <2>6, ProcessesKeep
<1>4. CASE r = [s EXCEPT !.helper = NoHelper]
  <2>1. NoHelper \in Helpers /\ NoHelper.stage = "none" BY DEF NoHelper, Helpers, NoProcess
  <2>2. Changes(s, r, {"helper", "procs", "struck"}) /\ r.helper = NoHelper /\ r.struck = s.struck
    BY <1>0, <1>4, <2>1 DEF Changes, State, Fields
  <2>3. SignalInv(r) BY <1>0, <2>1, <2>2 DEF SignalInv
  <2> QED BY <2>2, <2>3, ProcessesKeep
<1> QED BY <1>1, <1>2, <1>3, <1>4

\* A process that dies is not one that somebody will reach by its handle.
LEMMA PidReusedKeeps ==
    ASSUME NEW s, Sound(s), NEW h \in Hosts, NEW n \in Nat, n # s.helper.want,
           NEW r, r = [s EXCEPT !.procs[h] = n]
    PROVE  Keeps(s, r)
<1>0. s \in State /\ SignalInv(s) /\ s.procs \in [Hosts -> Nat] BY DEF Sound, State
<1> PICK f \in [Hosts -> Nat] : f = [s.procs EXCEPT ![h] = n] BY <1>0
<1>1. Changes(s, r, {"helper", "procs", "struck"}) /\ r.procs = f /\ r.struck = s.struck /\ r.helper = s.helper
  BY <1>0 DEF Changes, State, Fields
<1>2. \A x \in Hosts : f[x] = IF x = h THEN n ELSE s.procs[x] BY <1>0
<1>3. SignalInv(r) BY <1>0, <1>1, <1>2 DEF SignalInv
<1> QED BY <1>1, <1>3, ProcessesKeep, StillKeeps

\* Few processes have been seen.
LEMMA SeenIsFinite ==
    ASSUME t \in State
    PROVE  IsFiniteSet(Range(t.procs) \cup Seen)
<1>1. t.procs \in [Hosts -> Nat] /\ t.modals \in Seq(Questions) BY DEF State
<1>2. IsFiniteSet(Range(t.procs))
  <2>1. t.procs \in Surjection(Hosts, Range(t.procs)) BY <1>1 DEF Surjection, Range
  <2> QED BY <2>1, FS_Surjection, SlotAssumption
<1> DEFINE who == {q.who : q \in {t.modals[i] : i \in DOMAIN t.modals}}
           f == [i \in 1 .. Len(t.modals) |-> t.modals[i].who]
<1>3. IsFiniteSet(who)
  <2>1. DOMAIN t.modals = 1 .. Len(t.modals) /\ Len(t.modals) \in Nat BY <1>1
  <2>2. f \in Surjection(1 .. Len(t.modals), who)
    <3> DEFINE D == 1 .. Len(t.modals)
    <3>1. who = {t.modals[i].who : i \in D} BY <2>1
    <3>2. \A i \in D : f[i] = t.modals[i].who OBVIOUS
    <3>3. f \in [D -> who] BY <3>1, <3>2
    <3>4. \A w \in who : \E i \in D : f[i] = w BY <3>1, <3>2
    <3> HIDE DEF f, D, who
    <3> QED BY <3>3, <3>4 DEF Surjection, D
  <2>3. IsFiniteSet(1 .. Len(t.modals))
    <3> PICK n \in Nat : n = Len(t.modals) BY <2>1
    <3>1. IsFiniteSet(1 .. n) BY FS_Interval
    <3> QED BY <3>1
  <2> QED BY <2>2, <2>3, FS_Surjection
<1>4. IsFiniteSet({t.tools.shown, t.helper.want, t.helper.handle})
  <2>1. IsFiniteSet({t.tools.shown}) BY FS_Singleton
  <2>2. IsFiniteSet({t.tools.shown} \cup {t.helper.want}) BY <2>1, FS_AddElement
  <2>3. IsFiniteSet({t.tools.shown} \cup {t.helper.want} \cup {t.helper.handle}) BY <2>2, FS_AddElement
  <2>4. {t.tools.shown, t.helper.want, t.helper.handle} = {t.tools.shown} \cup {t.helper.want} \cup {t.helper.handle}
    OBVIOUS
  <2> QED BY <2>3, <2>4
<1>5. IsFiniteSet({t.tools.shown, t.helper.want, t.helper.handle} \cup who) BY <1>3, <1>4, FS_Union
<1>6. IsFiniteSet(Range(t.procs) \cup ({t.tools.shown, t.helper.want, t.helper.handle} \cup who))
  BY <1>2, <1>5, FS_Union
<1> QED BY <1>6 DEF Seen

\* Two steps of the servers, of which one answers a call.
LEMMA StillAddsUp ==
    ASSUME NEW s, NEW r, NEW x, Still(s, r), Still(r, x), r.calls = s.calls \/ x.calls = r.calls
    PROVE  Still(s, x)
BY DEF Still

\* The server answers the call of the submission that it got.
LEMMA InstallRunsKeeps ==
    ASSUME NEW s, Sound(s), NEW j \in s.wire, NEW forked \in BOOLEAN,
           NEW b, b = InstallBegins(s, j, forked),
           NEW mine, mine = {c \in s.calls : c.what = "install" /\ c.who = j}
    PROVE  /\ Keeps(s, b)
           /\ mine # {} => Keeps(s, Executes(b, CHOOSE c \in mine : TRUE, IF forked THEN "result" ELSE "error"))
<1>1. Sound(b) /\ Still(s, b) /\ b.calls = s.calls BY InstallBeginsKeeps DEF Changes, Fields
<1>2. Keeps(s, b) BY <1>1, StillKeeps
<1>3. ASSUME mine # {}
      PROVE  Keeps(s, Executes(b, CHOOSE c \in mine : TRUE, IF forked THEN "result" ELSE "error"))
  <2> PICK c \in b.calls : c = CHOOSE x \in mine : TRUE BY <1>1, <1>3
  <2> PICK ans \in {"result", "error"} : ans = IF forked THEN "result" ELSE "error" OBVIOUS
  <2> PICK r : r = Executes(b, c, ans) OBVIOUS
  <2>1. ans \in Answers \ {"none"} /\ ~Over([phase |-> ans]) BY DEF Answers, Over
  <2>2. Sound(r) /\ Still(b, r) BY <1>1, <2>1, CallRuns
  <2>3. Keeps(s, r) BY <1>1, <2>2, StillAddsUp, StillKeeps
  <2> QED BY <2>3
<1> QED BY <1>2, <1>3

\* The helper that has ended answers its call.
LEMMA HelperToldKeeps ==
    ASSUME NEW s, Sound(s), NEW r, r = [HelperTold(s) EXCEPT !.helper = NoHelper]
    PROVE  Keeps(s, r)
<1> PICK mine : mine = {c \in s.calls : c.what = "signal" /\ c.ans = "none"} OBVIOUS
<1> PICK x : x = HelperTold(s) OBVIOUS
<1>1. Sound(x) /\ Still(s, x)
  <2>1. CASE mine = {} BY <2>1 DEF HelperTold, Still
  <2>2. CASE mine # {}
    <3> PICK c \in s.calls : c = CHOOSE y \in mine : TRUE BY <2>2
    <3> PICK ans : ans = "result" OBVIOUS
    <3>1. ans \in Answers \ {"none"} /\ ~Over([phase |-> ans]) BY DEF Answers, Over
    <3> PICK y : y = Executes(s, c, ans) OBVIOUS
    <3>2. Sound(y) /\ Still(s, y) BY <3>1, CallRuns
    <3>3. x = y BY <2>2 DEF HelperTold
    <3> QED BY <3>2, <3>3
  <2> QED BY <2>1, <2>2
<1>2. r = [x EXCEPT !.helper = NoHelper] OBVIOUS
<1>3. Sound(r) /\ Still(x, r) BY <1>1, <1>2, HelperKeeps
<1>4. r.calls = x.calls BY <1>1, <1>2 DEF Sound, State
<1>5. Still(s, r) BY <1>1, <1>3, <1>4, StillAddsUp
<1> QED BY <1>3, <1>5, StillKeeps

----
(* Every step, and what is tidied up after it. *)

\* What is left when the user connects again, and when the connection is up.
Reconnecting(s, h, free) == [Disconnected(s, free) EXCEPT !.host = h, !.connecting = TRUE]
FollowedUp(s, free) == DialogUp([s EXCEPT !.connecting = FALSE, !.up = TRUE], free)

\* Automatic refreshing is switched on or off.
Toggled(s) == [s EXCEPT !.tools.auto = ~@]

\* The steps of the session.
LEMMA SessionSteps ==
    ASSUME Sound(t),
           Connect \/ Disconnect \/ ConnectionUp \/ ConnectionLost \/ Restart \/ Answer
    PROVE  Sound(t') /\ InBounds(t, t')
<1>0. t \in State BY DEF Sound
<1>1. CASE Connect
  <2>0. \E h \in Hosts, free \in BOOLEAN : Becomes(Reconnecting(t, h, free)) BY <1>1 DEF Connect, Reconnecting
  <2> PICK h \in Hosts, free \in BOOLEAN : t' = Tidied(Reconnecting(t, h, free)) BY <2>0 DEF Becomes
  <2>1. Keeps(t, Reconnecting(t, h, free)) BY ConnectKeeps DEF Reconnecting
  <2> QED BY <2>1, TidiedIsSound DEF Keeps
<1>2. CASE Disconnect
  <2> QED BY <1>2, DisconnectKeeps, TidiedIsSound DEF Disconnect, Becomes, Keeps
<1>3. CASE ConnectionUp
  <2>0. t.connecting /\ \E free \in BOOLEAN : Becomes(FollowedUp(t, free))
    BY <1>3 DEF ConnectionUp, Quietly, FollowedUp
  <2> PICK free \in BOOLEAN : t' = Tidied(FollowedUp(t, free)) BY <2>0 DEF Becomes
  <2>1. Keeps(t, FollowedUp(t, free)) BY <2>0, ConnectionUpKeeps DEF FollowedUp
  <2> QED BY <2>1, TidiedIsSound DEF Keeps
<1>4. CASE ConnectionLost
  <2> QED BY <1>4, ConnectionLostKeeps, TidiedIsSound DEF ConnectionLost, Quietly, Becomes, Keeps
<1>5. CASE Restart
  <2> QED BY <1>5, RestartKeeps, TidiedIsSound DEF Restart, Quietly, Becomes, Keeps
<1>6. ASSUME NEW c \in t.calls, NEW ans \in Answers, ans \in {"error", "result"} \/ ans = c.ans, AnswerWith(c, ans)
      PROVE  Sound(t') /\ InBounds(t, t')
  <2>1. CASE c.id # t.slot
    <3>1. Becomes([t EXCEPT !.calls = @ \ {c}]) BY <1>6, <2>1 DEF AnswerWith, Quietly
    <3> QED BY <2>1, <3>1, AnswerDropped, TidiedIsSound DEF Becomes, Keeps
  <2>2. CASE c.id = t.slot
    <3>1. PICK free \in BOOLEAN : Becomes(Finish(Freed(t, c), c.id, c.who, ans, free))
      BY <1>0, <1>6, <2>2 DEF AnswerWith, Quietly, Freed, State
    <3> QED BY <1>6, <2>2, <3>1, AnswerPassedOn, TidiedIsSound DEF Becomes, Keeps
  <2> QED BY <2>1, <2>2
<1>7. CASE Answer
  <2>1. \A c \in t.calls : c.ans \in Answers BY <1>0 DEF State, Calls
  <2>2. "error" \in Answers /\ "result" \in Answers BY DEF Answers
  <2> QED BY <1>6, <1>7, <2>1, <2>2 DEF Answer
<1> QED BY <1>1, <1>2, <1>3, <1>4, <1>5, <1>7

\* The steps of the agent.
LEMMA AgentSteps ==
    ASSUME Sound(t),
           Launch \/ StopAgent \/ AgentExits \/ ClientAsks \/ ReadLine \/ ClientLeaves
    PROVE  Sound(t') /\ InBounds(t, t')
<1>0. t \in State BY DEF Sound
<1>1. CASE Launch BY <1>1, LaunchKeeps, TidiedIsSound DEF Launch, User, Becomes, Keeps
<1>2. CASE StopAgent BY <1>2, AgentEndedKeeps, TidiedIsSound DEF StopAgent, User, Becomes, Keeps
<1>3. CASE AgentExits BY <1>3, AgentEndedKeeps, TidiedIsSound DEF AgentExits, Quietly, Becomes, Keeps
<1>4. CASE ClientAsks
  <2>1. t.run \in Nat BY <1>0, SlotAssumption DEF State
  <2> QED BY <1>4, <2>1, ConnectedKeeps, TidiedIsSound DEF ClientAsks, Becomes, Keeps
<1>5. CASE ReadLine BY <1>5, ReadLineKeeps, TidiedIsSound DEF ReadLine, Quietly, Becomes, Keeps
<1>6. CASE ClientLeaves BY <1>6, ClientLeavesKeeps, TidiedIsSound DEF ClientLeaves, Quietly, Becomes, Keeps
<1> QED BY <1>1, <1>2, <1>3, <1>4, <1>5, <1>6

\* The steps of the dialog of the installations.
LEMMA DialogSteps ==
    ASSUME Sound(t),
           OpenSoftware \/ CloseSoftware \/ ClickSearch \/ ClickInstall \/ ClickRefresh \/ ClickForget \/ TimerFires
    PROVE  Sound(t') /\ InBounds(t, t')
<1>0. t \in State /\ t.host \in Hosts /\ t.dialog.job \in Nat BY DEF Sound, State, Dialogs, Jobs, NoJob
<1>1. CASE OpenSoftware BY <1>1, OpenedKeeps, TidiedIsSound DEF OpenSoftware, Becomes, Keeps
<1>2. CASE CloseSoftware BY <1>2, HiddenKeeps, TidiedIsSound DEF CloseSoftware, Becomes, Keeps
<1>3. CASE ClickSearch BY <1>3, QueriesKeep, TidiedIsSound DEF ClickSearch, Becomes, Keeps
<1>4. CASE ClickInstall BY <1>4, QueriesKeep, TidiedIsSound DEF ClickInstall, User, Becomes, Keeps
<1>5. CASE ClickRefresh BY <1>5, QueriesKeep, TidiedIsSound DEF ClickRefresh, Becomes, Keeps
<1>6. CASE ClickForget
  <2> PICK q : q = Question("forget", t.dialog.job, t.host) OBVIOUS
  <2>1. q \in Questions /\ q.kind \notin {"command", "plan"} BY <1>0 DEF Question, Questions
  <2>2. t.modals = <<>> /\ t' = Tidied(Ask(t, q)) BY <1>6 DEF ClickForget, User, Becomes
  <2>3. Keeps(t, Ask(t, q)) BY <2>1, <2>2, AskKeeps
  <2> QED BY <2>2, <2>3, TidiedIsSound DEF Keeps
<1>7. CASE TimerFires BY <1>7, QueriesKeep, TidiedIsSound DEF TimerFires, Quietly, Becomes, Keeps
<1> QED BY <1>1, <1>2, <1>3, <1>4, <1>5, <1>6, <1>7

\* The steps of the dialog of the tools.
LEMMA ToolsSteps ==
    ASSUME Sound(t),
           \/ ShowTools \/ RefreshPage \/ ToggleAuto \/ CancelTask \/ CloseTools \/ ClickSignal
           \/ ClickSpeed \/ ToolsTimerFires
    PROVE  Sound(t') /\ InBounds(t, t')
<1>0. t \in State /\ t.host \in Hosts /\ t.tools.shown \in Nat /\ NoProcess \in Nat
  BY DEF Sound, State, ToolStates, NoProcess
<1>1. CASE ShowTools BY <1>1, ToolsStepsKeep, TidiedIsSound DEF ShowTools, Becomes, Keeps
<1>2. CASE RefreshPage BY <1>2, ToolsStepsKeep, TidiedIsSound DEF RefreshPage, Becomes, Keeps
<1>3. CASE ToggleAuto
  <2>0. Becomes(Toggled(t)) BY <1>3 DEF ToggleAuto, Toggled
  <2>1. Keeps(t, Toggled(t)) BY ToggleKeeps DEF Toggled
  <2> QED BY <2>0, <2>1, TidiedIsSound DEF Keeps, Becomes
<1>4. CASE CancelTask BY <1>4, ToolsStepsKeep, TidiedIsSound DEF CancelTask, Becomes, Keeps
<1>5. CASE CloseTools BY <1>5, ToolsStepsKeep, TidiedIsSound DEF CloseTools, Becomes, Keeps
<1>6. CASE ClickSignal
  <2> PICK q : q = Question("signal", t.tools.shown, t.host) OBVIOUS
  <2>1. q \in Questions /\ q.kind \notin {"command", "plan"} BY <1>0 DEF Question, Questions
  <2>2. t.modals = <<>> /\ t' = Tidied(Ask(t, q)) BY <1>6 DEF ClickSignal, User, Becomes
  <2>3. Keeps(t, Ask(t, q)) BY <2>1, <2>2, AskKeeps
  <2> QED BY <2>2, <2>3, TidiedIsSound DEF Keeps
<1>7. CASE ClickSpeed
  <2> PICK q : q = Question("speed", NoProcess, t.host) OBVIOUS
  <2>1. q \in Questions /\ q.kind \notin {"command", "plan"} BY <1>0 DEF Question, Questions
  <2>2. t.modals = <<>> /\ t' = Tidied(Ask(t, q)) BY <1>7 DEF ClickSpeed, User, Becomes
  <2>3. Keeps(t, Ask(t, q)) BY <2>1, <2>2, AskKeeps
  <2> QED BY <2>2, <2>3, TidiedIsSound DEF Keeps
<1>8. CASE ToolsTimerFires BY <1>8, ToolsStepsKeep, TidiedIsSound DEF ToolsTimerFires, Quietly, Becomes, Keeps
<1> QED BY <1>1, <1>2, <1>3, <1>4, <1>5, <1>6, <1>7, <1>8

\* The user decides.
LEMMA DecideStep ==
    ASSUME Sound(t), Decide
    PROVE  Sound(t') /\ InBounds(t, t')
<1> PICK yes \in BOOLEAN, free \in BOOLEAN :
        \/ Top(t) = "command" /\ Quietly(Decided(t, yes, free))
        \/ Top(t) = "plan" /\ (yes => JobsLeft) /\ Quietly(Planned(t, yes, free))
        \/ /\ Top(t) = "plan" /\ yes /\ JobsLeft
           /\ \E h \in Hosts : Quietly(Unsaved(Fresh(t, h), Planned(t, yes, free)))
        \/ Top(t) = "forget" /\ Quietly(Forgotten(t, yes))
        \/ Top(t) \in {"signal", "speed"} /\ Quietly(ToolsDecided(t, yes, free)) BY DEF Decide
<1>1. Top(t) # "none" => t.modals # <<>> /\ Top(t) = Head(t.modals).kind BY DEF Top
<1>2. CASE Top(t) = "command" /\ Quietly(Decided(t, yes, free))
  BY <1>1, <1>2, CommandDecidedKeeps, TidiedIsSound DEF Quietly, Becomes, Keeps
<1>3. CASE Top(t) = "plan" /\ (yes => JobsLeft) /\ Quietly(Planned(t, yes, free))
  BY <1>1, <1>3, PlannedKeeps, TidiedIsSound DEF Quietly, Becomes, Keeps, JobsLeft
<1>4. CASE Top(t) = "forget" /\ Quietly(Forgotten(t, yes))
  BY <1>1, <1>4, ForgottenKeeps, TidiedIsSound DEF Quietly, Becomes, Keeps
<1>5. CASE Top(t) \in {"signal", "speed"} /\ Quietly(ToolsDecided(t, yes, free))
  BY <1>1, <1>5, ToolsDecidedKeeps, TidiedIsSound DEF Quietly, Becomes, Keeps
<1>6. ASSUME Top(t) = "plan", yes, JobsLeft, NEW h \in Hosts, Quietly(Unsaved(Fresh(t, h), Planned(t, yes, free)))
      PROVE  Sound(t') /\ InBounds(t, t')
  <2> PICK b : b = Fresh(t, h) OBVIOUS
  <2> PICK p : p = Planned(t, yes, free) OBVIOUS
  <2>1. Keeps(t, b) /\ b.jobs = t.jobs /\ b.wire = t.wire BY RestartKeeps DEF Fresh
  <2>2. Sends(t, p)
    <3> PICK r : r = Rest(t) OBVIOUS
    <3>1. t \in State /\ IsFiniteSet(t.calls) /\ t.modals # <<>> /\ t.host \in Hosts
      BY <1>1, <1>6 DEF Sound, SlotInv, SlotCore, State
    <3>2. r.wire = t.wire /\ r.jobs = t.jobs BY <3>1, TailChanges DEF Changes, Fields
    <3>3. p = r \/ \E job \in Jobs : \E sent : SubmittedAs(t, r, p, job, sent, free)
      BY <1>6, <3>1, PlannedChanges DEF JobsLeft
    <3> QED BY <3>1, <3>2, <3>3 DEF SubmittedAs, Sends
  <2>3. Keeps(t, Unsaved(b, p)) BY <2>1, <2>2, UnsavedKeeps
  <2> QED BY <1>6, <2>3, TidiedIsSound DEF Quietly, Becomes, Keeps
<1> QED BY <1>2, <1>3, <1>4, <1>5, <1>6

\* The dialog of another pane changes no more than the jobs and what is saved of them.
LEMMA OtherKeeps ==
    ASSUME NEW s, Sound(s), NEW r, Changes(s, r, {"other", "saved", "jobs", "wire", "forgotten"}), InstallInv(r)
    PROVE  Keeps(s, r)
<1>1. /\ r \in State /\ SameSlot(s, r) /\ r.procs = s.procs /\ r.helper = s.helper /\ r.struck = s.struck
      /\ r.calls = s.calls /\ r.desired = s.desired BY DEF Changes, Fields, SameSlot
<1>2. SlotInv(r) /\ SignalInv(r) BY <1>1, SlotStays DEF Sound, SignalInv
<1>3. InBounds(s, r) BY <1>1, NothingIsInBounds
<1> QED BY <1>1, <1>2, <1>3 DEF Sound, Keeps

\* It takes up another job, or learns of the end of its own.
LEMMA OtherFollows ==
    ASSUME NEW s, Sound(s), NEW o \in Others, o.job = NoJob \/ o.active \/ Over(s.jobs[o.job]),
           NEW r, r = [s EXCEPT !.other = o]
    PROVE  Keeps(s, r)
<1>1. s \in State BY DEF Sound
<1>2. Changes(s, r, {"other"}) /\ r.other = o BY <1>1 DEF Changes, State, Fields
<1>3. /\ r.jobs = s.jobs /\ r.wire = s.wire /\ r.forgotten = s.forgotten /\ r.saved = s.saved
      /\ r.calls = s.calls /\ r.dialog = s.dialog BY <1>2 DEF Changes, Fields
<1>4. \A j \in Jobs : Working(r, j) = Working(s, j) BY <1>3 DEF Working
<1>5. JobsFit(r) BY <1>3, <1>4 DEF Sound, InstallInv, JobsFit
<1>6. Saved(r) BY <1>3, <1>4 DEF Sound, InstallInv, Saved
<1>7. Followed(r) BY <1>2, <1>3 DEF Sound, InstallInv, Followed
<1> QED BY <1>2, <1>5, <1>6, <1>7, OtherKeeps DEF InstallInv, Changes

\* It forgets its job.
LEMMA OtherForgottenKeeps ==
    ASSUME NEW s, Sound(s), s.other.job # NoJob, NEW x, x = OtherForgotten(s)
    PROVE  Keeps(s, x)
<1> PICK o : o = [s.other EXCEPT !.job = NoJob, !.active = FALSE] OBVIOUS
<1> PICK f : f = s.forgotten \cup {s.other.job} OBVIOUS
<1> PICK u : u = [s EXCEPT !.forgotten = f, !.other = o] OBVIOUS
<1> PICK h : h = s.other.target OBVIOUS
<1>0. s \in State /\ s.other \in Others /\ s.other.job \in Jobs BY DEF Sound, State, Others
<1>1. o \in Others /\ o.job = NoJob /\ o.target = h
  <2> PICK v \in Others : v = s.other BY <1>0
  <2> QED BY DEF Others
<1>2. f \in SUBSET Jobs BY <1>0 DEF State
<1>3. Changes(s, u, {"forgotten", "other"}) /\ u.forgotten = f /\ u.other = o
  BY <1>0, <1>1, <1>2 DEF Changes, State, Fields
<1>4. u \in State /\ u.saved = s.saved BY <1>3 DEF Changes, Fields
<1>5. x = SaveJob(u, h, NoJob, NoJob) BY <1>1 DEF OtherForgotten
<1>6. /\ Changes(u, x, {"saved", "forgotten"}) /\ x.saved = [s.saved EXCEPT ![h] = NoJob]
      /\ x.forgotten = f \cup ((Jobs \cap {s.saved[h]}) \ {NoJob})
  <2>1. SavedAs(u, h, NoJob, NoJob, x) BY <1>4, <1>5, SaveJobChanges
  <2> QED BY <1>3, <1>4, <2>1 DEF SavedAs
<1>7. /\ Changes(s, x, {"other", "saved", "forgotten"}) /\ x.other = o /\ x.calls = s.calls
      /\ x.jobs = s.jobs /\ x.wire = s.wire /\ x.dialog = s.dialog BY <1>3, <1>6 DEF Changes, Fields
<1>8. \A j \in Jobs : Working(x, j) = Working(s, j) BY <1>7 DEF Working
<1>9. JobsFit(x) BY <1>7, <1>8 DEF Sound, InstallInv, JobsFit
<1>10. Saved(x)
  <2>1. s.saved \in [Hosts -> Jobs \cup {NoJob}] /\ NoJob \notin Jobs BY <1>0 DEF State, NoJob, Jobs
  <2>2. \A k \in Hosts : x.saved[k] = IF k = h THEN NoJob ELSE s.saved[k] BY <1>6, <2>1
  <2>3. ASSUME NEW j \in Jobs, Working(s, j), j \notin x.forgotten
        PROVE  x.saved[x.jobs[j].host] = j
    <3>1. s.saved[s.jobs[j].host] = j /\ j # s.saved[h] BY <1>6, <2>1, <2>3 DEF Sound, InstallInv, Saved
    <3>2. s.jobs[j].host \in Hosts BY <1>0, <2>3 DEF Sound, InstallInv, JobsFit, Working, State, JobStates
    <3> QED BY <1>7, <2>2, <3>1, <3>2
  <2> QED BY <1>7, <1>8, <2>2, <2>3 DEF Sound, InstallInv, Saved
<1>11. Followed(x) BY <1>1, <1>7 DEF Sound, InstallInv, Followed
<1> QED BY <1>7, <1>9, <1>10, <1>11, OtherKeeps DEF InstallInv, Changes

\* It submits an installation.
LEMMA OtherPlannedKeeps ==
    ASSUME NEW s, Sound(s), s.other.target # NoHost, ~s.other.active,
           NEW job \in Jobs, s.jobs[job].host = NoHost, NEW x, x = OtherPlanned(s, job)
    PROVE  Keeps(s, x) /\ Sends(s, x)
<1> PICK o : o = [s.other EXCEPT !.job = job, !.active = TRUE] OBVIOUS
<1> PICK u : u = [s EXCEPT !.other = o] OBVIOUS
<1> PICK h : h = s.other.target OBVIOUS
<1> PICK known : known = s.other.job OBVIOUS
<1> PICK w : w = OnWire(u, h, job) OBVIOUS
<1>0. s \in State /\ s.other \in Others /\ h \in Hosts /\ NoJob \notin Jobs
  BY DEF Sound, State, Others, NoJob, Jobs
<1>1. o \in Others /\ o.job = job /\ o.active
  <2> PICK v \in Others : v = s.other BY <1>0
  <2> QED BY DEF Others
<1>2. Changes(s, u, {"other"}) /\ u.other = o BY <1>0, <1>1 DEF Changes, State, Fields
<1>3. u \in State /\ u.saved = s.saved /\ u.forgotten = s.forgotten /\ u.wire = s.wire /\ u.jobs = s.jobs
  BY <1>2 DEF Changes, Fields
<1>4. Changes(u, w, {"wire", "jobs"}) /\ w.wire = s.wire \cup {job} /\ w.jobs = [s.jobs EXCEPT ![job].host = h]
  <2>1. WiredAs(u, h, job, w) BY <1>0, <1>3, OnWireChanges
  <2> QED BY <1>3, <2>1 DEF WiredAs
<1>5. w \in State /\ w.saved = s.saved /\ w.forgotten = s.forgotten BY <1>3, <1>4 DEF Changes, Fields
<1>6. x = SaveJob(w, h, job, known) BY DEF OtherPlanned
<1>7. /\ Changes(w, x, {"saved", "forgotten"}) /\ x.saved = [s.saved EXCEPT ![h] = job]
      /\ x.forgotten = s.forgotten \cup ((Jobs \cap {s.saved[h]}) \ {known})
  <2>1. SavedAs(w, h, job, known, x) BY <1>5, <1>6, SaveJobChanges
  <2> QED BY <1>5, <2>1 DEF SavedAs
<1>8. /\ Changes(s, x, {"other", "saved", "jobs", "wire", "forgotten"}) /\ x.other = o /\ x.calls = s.calls
      /\ x.wire = s.wire \cup {job} /\ x.jobs = [s.jobs EXCEPT ![job].host = h] /\ x.dialog = s.dialog
  <2>1. Changes(s, x, {"other", "saved", "jobs", "wire", "forgotten"}) BY <1>2, <1>4, <1>7 DEF Changes
  <2>2. w.other = u.other /\ x.other = w.other /\ x.wire = w.wire /\ x.jobs = w.jobs
    BY <1>4, <1>7 DEF Changes, Fields
  <2>3. x.calls = s.calls /\ x.dialog = s.dialog BY <2>1 DEF Changes, Fields
  <2> QED BY <1>2, <1>4, <2>1, <2>2, <2>3
<1>9. Begins(s, x, h, job)
  <2>1. s.saved[h] \in Jobs => s.saved[h] \in x.forgotten \/ Over(s.jobs[s.saved[h]])
    BY <1>0, <1>7 DEF Sound, InstallInv, Followed
  <2> QED BY <1>7, <1>8, <2>1 DEF Begins
<1>10. JobsFit(x) /\ Saved(x) /\ \A j \in Jobs : Over(s.jobs[j]) => Over(x.jobs[j])
  BY <1>0, <1>8, <1>9, BeginsFits DEF NewCalls
<1>11. Followed(x) BY <1>0, <1>1, <1>8, <1>10 DEF Sound, InstallInv, Followed, State, Dialogs
<1>12. Sends(s, x) BY <1>0, <1>8 DEF Sends
<1> QED BY <1>8, <1>10, <1>11, <1>12, OtherKeeps DEF InstallInv

\* The steps of the dialog of another pane.
LEMMA OtherSteps ==
    ASSUME Sound(t), OtherOpens \/ OtherInstalls \/ OtherForgets \/ OtherHears
    PROVE  Sound(t') /\ InBounds(t, t')
<1>0. t \in State /\ t.other \in Others /\ t.jobs \in [Jobs -> JobStates] BY DEF Sound, State
<1>1. ASSUME NEW h \in Hosts, Becomes(OtherOpened(t, h))
      PROVE  Sound(t') /\ InBounds(t, t')
  <2> PICK o : o = [target |-> h, job |-> t.saved[h], active |-> t.saved[h] # NoJob] OBVIOUS
  <2> PICK r : r = [t EXCEPT !.other = o] OBVIOUS
  <2>1. o \in Others /\ (o.job = NoJob \/ o.active) BY <1>0 DEF Others, State
  <2>2. Keeps(t, r) /\ t' = Tidied(r) BY <1>1, <2>1, OtherFollows DEF OtherOpened, Becomes
  <2> QED BY <2>2, TidiedIsSound DEF Keeps
<1>2. ASSUME NEW phase \in StatusOf(t.jobs[t.other.job]) \ {"error"}, t.other.job # NoJob, Becomes(OtherTold(t, phase))
      PROVE  Sound(t') /\ InBounds(t, t')
  <2> PICK o : o = [t.other EXCEPT !.active = phase \notin {"succeeded", "failed"}] OBVIOUS
  <2> PICK r : r = [t EXCEPT !.other = o] OBVIOUS
  <2>1. /\ o \in Others /\ o.job = t.other.job /\ t.other.job \in Jobs
        /\ o.active \/ phase \in {"succeeded", "failed"}
    <3> PICK v \in Others : v = t.other BY <1>0
    <3> PICK a \in BOOLEAN : a = (phase \notin {"succeeded", "failed"}) OBVIOUS
    <3> QED BY <1>2 DEF Others
  <2>2. t.jobs[t.other.job] \in JobStates BY <1>0, <2>1
  <2>3. phase \in {"succeeded", "failed"} => Over(t.jobs[t.other.job])
    BY <1>2, <2>2 DEF StatusOf, JobStates, Phases, Over
  <2>4. r = OtherTold(t, phase) BY <1>0 DEF OtherTold, State
  <2>5. Keeps(t, r) /\ t' = Tidied(r) BY <1>2, <2>1, <2>3, <2>4, OtherFollows DEF Becomes
  <2> QED BY <2>5, TidiedIsSound DEF Keeps
<1>3. ASSUME t.other.job # NoJob, Becomes(OtherForgotten(t))
      PROVE  Sound(t') /\ InBounds(t, t') BY <1>3, OtherForgottenKeeps, TidiedIsSound DEF Becomes, Keeps
<1>4. CASE OtherInstalls
  <2> PICK job \in Jobs : job = NextJob(t) /\ t.jobs[job].host = NoHost
    BY <1>4 DEF OtherInstalls, JobsLeft, NextJob
  <2> PICK p : p = OtherPlanned(t, job) OBVIOUS
  <2> PICK b : b = [t EXCEPT !.other = NoOther] OBVIOUS
  <2>1. t' = Tidied(p) \/ t' = Tidied(Unsaved(b, p)) BY <1>4 DEF OtherInstalls, Becomes
  <2>2. t.other.target # NoHost /\ ~t.other.active BY <1>4 DEF OtherInstalls
  <2>3. Keeps(t, p) /\ Sends(t, p) BY <2>2, OtherPlannedKeeps
  <2>4. Keeps(t, b)
    <3>1. NoOther \in Others /\ NoOther.job = NoJob BY DEF NoOther, Others
    <3> PICK o \in Others : o = NoOther BY <3>1
    <3>2. b = [t EXCEPT !.other = o] /\ o.job = NoJob BY <3>1
    <3> QED BY <3>2, OtherFollows
  <2>5. b.jobs = t.jobs /\ b.wire = t.wire BY <1>0 DEF State
  <2>6. Keeps(t, Unsaved(b, p)) BY <2>3, <2>4, <2>5, UnsavedKeeps
  <2> QED BY <2>1, <2>3, <2>6, TidiedIsSound DEF Keeps
<1>5. OtherOpens => \E h \in Hosts : Becomes(OtherOpened(t, h)) BY DEF OtherOpens
<1>6. OtherHears => t.other.job # NoJob /\ \E phase \in StatusOf(t.jobs[t.other.job]) \ {"error"} : Becomes(OtherTold(t, phase))
  BY DEF OtherHears, Quietly
<1>7. OtherForgets => t.other.job # NoJob /\ Becomes(OtherForgotten(t)) BY DEF OtherForgets
<1> QED BY <1>1, <1>2, <1>3, <1>4, <1>5, <1>6, <1>7

\* What the servers leave behind.
Dropped(s, j) == [s EXCEPT !.wire = @ \ {j}]
WithJob(s, j, job) == [s EXCEPT !.jobs[j] = job]
Unhelped(s) == [s EXCEPT !.helper = NoHelper]
Reused(s, h, n) == [s EXCEPT !.procs[h] = n]

\* The supervisor of a job.
LEMMA JobStep ==
    ASSUME Sound(t), JobRuns \/ JobBreaks
    PROVE  Sound(t') /\ InBounds(t, t')
<1>1. \E j \in Jobs : \E job :
        /\ \/ t.jobs[j].sup = "new" /\ job = SupervisorBegins(t.jobs[j])
           \/ t.jobs[j].sup = "alive" /\ t.jobs[j].pkg = "none" /\ job = PackageBegins(t.jobs[j])
           \/ t.jobs[j].pkg = "alive" /\ job = PackageEnds(t.jobs[j])
           \/ /\ t.jobs[j].sup = "alive" /\ t.jobs[j].pkg = "ended"
              /\ \E phase \in {"succeeded", "failed"} : job = SupervisorReports(t.jobs[j], phase)
           \/ t.jobs[j].sup = "alive" /\ job = SupervisorFails(t.jobs[j])
           \/ t.jobs[j].sup \in {"new", "alive"} /\ job = SupervisorDies(t.jobs[j])
        /\ Becomes(WithJob(t, j, job))
  <2>1. CASE JobRuns
    <3> PICK j \in Jobs :
           \/ t.jobs[j].sup = "new" /\ Becomes(WithJob(t, j, SupervisorBegins(t.jobs[j])))
           \/ t.jobs[j].sup = "alive" /\ t.jobs[j].pkg = "none" /\ Becomes(WithJob(t, j, PackageBegins(t.jobs[j])))
           \/ t.jobs[j].pkg = "alive" /\ Becomes(WithJob(t, j, PackageEnds(t.jobs[j])))
           \/ /\ t.jobs[j].sup = "alive" /\ t.jobs[j].pkg = "ended"
              /\ \E phase \in {"succeeded", "failed"} : Becomes(WithJob(t, j, SupervisorReports(t.jobs[j], phase)))
      BY <2>1 DEF JobRuns, Quietly, WithJob
    <3> QED OBVIOUS
  <2>2. CASE JobBreaks
    <3> PICK j \in Jobs :
           \/ t.jobs[j].sup = "alive" /\ Becomes(WithJob(t, j, SupervisorFails(t.jobs[j])))
           \/ t.jobs[j].sup \in {"new", "alive"} /\ Becomes(WithJob(t, j, SupervisorDies(t.jobs[j])))
      BY <2>2 DEF JobBreaks, Quietly, WithJob
    <3> QED OBVIOUS
  <2> QED BY <2>1, <2>2
<1>2. ASSUME NEW j \in Jobs, NEW job,
             \/ t.jobs[j].sup = "new" /\ job = SupervisorBegins(t.jobs[j])
             \/ t.jobs[j].sup = "alive" /\ t.jobs[j].pkg = "none" /\ job = PackageBegins(t.jobs[j])
             \/ t.jobs[j].pkg = "alive" /\ job = PackageEnds(t.jobs[j])
             \/ /\ t.jobs[j].sup = "alive" /\ t.jobs[j].pkg = "ended"
                /\ \E phase \in {"succeeded", "failed"} : job = SupervisorReports(t.jobs[j], phase)
             \/ t.jobs[j].sup = "alive" /\ job = SupervisorFails(t.jobs[j])
             \/ t.jobs[j].sup \in {"new", "alive"} /\ job = SupervisorDies(t.jobs[j])
      PROVE  Keeps(t, WithJob(t, j, job)) BY <1>2, SupervisorKeeps DEF WithJob
<1> QED BY <1>1, <1>2, TidiedIsSound DEF Becomes, Keeps

\* The other steps of the servers.
LEMMA ServerSteps ==
    ASSUME Sound(t),
           HelperRuns \/ HelperStops \/ PidReused \/ StatusRuns \/ InstallRuns \/ InstallDropped
    PROVE  Sound(t') /\ InBounds(t, t')
<1>0. t \in State BY DEF Sound
<1>1. CASE HelperRuns
  <2>1. \/ t.helper.stage = "sent" /\ Becomes(HelperOpens(t))
        \/ t.helper.stage = "opened" /\ Becomes(HelperChecks(t))
        \/ t.helper.stage = "checked" /\ Becomes(HelperSignals(t))
        \/ Becomes(Unhelped(HelperTold(t))) BY <1>1 DEF HelperRuns, Quietly, Unhelped
  <2>2. Keeps(t, Unhelped(HelperTold(t))) BY HelperToldKeeps DEF Unhelped
  <2>3. ASSUME NEW r,
               \/ t.helper.stage = "sent" /\ r = HelperOpens(t)
               \/ t.helper.stage = "opened" /\ r = HelperChecks(t)
               \/ t.helper.stage = "checked" /\ r = HelperSignals(t)
        PROVE  Keeps(t, r) BY <2>3, HelperKeeps, StillKeeps
  <2> QED BY <2>1, <2>2, <2>3, TidiedIsSound DEF Becomes, Keeps
<1>2. CASE HelperStops
  <2>1. Becomes(Unhelped(t)) BY <1>2 DEF HelperStops, Quietly, Unhelped
  <2>2. Keeps(t, Unhelped(t)) BY HelperKeeps, StillKeeps DEF Unhelped
  <2> QED BY <2>1, <2>2, TidiedIsSound DEF Becomes, Keeps
<1>3. CASE PidReused
  <2> PICK n : n = Unused(Range(t.procs) \cup Seen) OBVIOUS
  <2>1. n \in Nat /\ n # t.helper.want BY <1>0, SeenIsFinite, UnusedIsNew DEF Seen
  <2>2. \E h \in Hosts : Becomes(Reused(t, h, n)) BY <1>3 DEF PidReused, Quietly, Reused
  <2>3. \A h \in Hosts : Keeps(t, Reused(t, h, n)) BY <2>1, PidReusedKeeps DEF Reused
  <2> QED BY <2>2, <2>3, TidiedIsSound DEF Becomes, Keeps
<1>4. CASE StatusRuns
  <2>1. \E c \in t.calls : c.what = "status" /\ \E ans \in StatusOf(t.jobs[c.who]) : Becomes(Executes(t, c, ans))
    BY <1>4 DEF StatusRuns, Quietly
  <2> QED BY <2>1, StatusRunsKeeps, TidiedIsSound DEF Becomes, Keeps
<1>5. CASE InstallRuns
  <2> PICK j \in t.wire, forked \in BOOLEAN :
         LET begun == InstallBegins(t, j, forked)
             mine == {c \in t.calls : c.what = "install" /\ c.who = j}
         IN  Becomes(IF mine = {} THEN begun
                     ELSE Executes(begun, CHOOSE c \in mine : TRUE, IF forked THEN "result" ELSE "error"))
    BY <1>5 DEF InstallRuns, Quietly
  <2> PICK b : b = InstallBegins(t, j, forked) OBVIOUS
  <2> PICK mine : mine = {c \in t.calls : c.what = "install" /\ c.who = j} OBVIOUS
  <2> PICK r : r = Executes(b, CHOOSE c \in mine : TRUE, IF forked THEN "result" ELSE "error") OBVIOUS
  <2>1. Keeps(t, b) /\ (mine # {} => Keeps(t, r)) BY InstallRunsKeeps
  <2>2. t' = Tidied(IF mine = {} THEN b ELSE r) BY DEF Becomes
  <2>3. CASE mine = {} BY <2>1, <2>2, <2>3, TidiedIsSound DEF Keeps
  <2>4. CASE mine # {} BY <2>1, <2>2, <2>4, TidiedIsSound DEF Keeps
  <2> QED BY <2>3, <2>4
<1>6. CASE InstallDropped
  <2>1. \E j \in t.wire : Becomes(Dropped(t, j)) BY <1>6 DEF InstallDropped, Quietly, Dropped
  <2>2. \A j \in t.wire : Keeps(t, Dropped(t, j)) BY InstallDroppedKeeps DEF Dropped
  <2> QED BY <2>1, <2>2, TidiedIsSound DEF Becomes, Keeps
<1> QED BY <1>1, <1>2, <1>3, <1>4, <1>5, <1>6

\* What a step counts.
LEMMA ActsAreCounted ==
    ASSUME Next, acts \in 0 .. MaxActs
    PROVE  acts' \in 0 .. MaxActs
<1>1. UNCHANGED acts \/ Counted
  <2>1. CASE Connect \/ Disconnect \/ Launch \/ StopAgent \/ ClientAsks
    BY <2>1 DEF Connect, Disconnect, Launch, StopAgent, ClientAsks, User
  <2>2. CASE \/ OpenSoftware \/ CloseSoftware \/ ClickSearch \/ ClickInstall \/ ClickRefresh \/ ClickForget
    BY <2>2 DEF OpenSoftware, CloseSoftware, ClickSearch, ClickInstall, ClickRefresh, ClickForget, User
  <2>3. CASE \/ ShowTools \/ RefreshPage \/ ToggleAuto \/ CancelTask \/ CloseTools \/ ClickSignal \/ ClickSpeed
    BY <2>3 DEF ShowTools, RefreshPage, ToggleAuto, CancelTask, CloseTools, ClickSignal, ClickSpeed, User
  <2>4. CASE ConnectionUp \/ ConnectionLost \/ Restart \/ AgentExits \/ ReadLine \/ ClientLeaves
    BY <2>4 DEF ConnectionUp, ConnectionLost, Restart, AgentExits, ReadLine, ClientLeaves, Quietly
  <2>5. CASE Answer BY <2>5 DEF Answer, AnswerWith, Quietly
  <2>6. CASE TimerFires \/ Decide \/ ToolsTimerFires BY <2>6 DEF TimerFires, Decide, ToolsTimerFires, Quietly
  <2>7. CASE HelperRuns \/ HelperStops \/ PidReused \/ StatusRuns
    BY <2>7 DEF HelperRuns, HelperStops, PidReused, StatusRuns, Quietly
  <2>8. CASE InstallRuns \/ InstallDropped \/ JobRuns \/ JobBreaks
    BY <2>8 DEF InstallRuns, InstallDropped, JobRuns, JobBreaks, Quietly
  <2>9. CASE OtherOpens \/ OtherInstalls \/ OtherForgets \/ OtherHears
    BY <2>9 DEF OtherOpens, OtherInstalls, OtherForgets, OtherHears, User, Quietly
  <2> QED BY <2>1, <2>2, <2>3, <2>4, <2>5, <2>6, <2>7, <2>8, <2>9 DEF Next
<1> QED BY <1>1, SlotAssumption DEF Counted

\* Every step from a sound state leads to one, and stays in bounds.
LEMMA StepKeeps ==
    ASSUME IInv, Next
    PROVE  IInv' /\ InBounds(t, t')
<1>1. Sound(t) /\ acts \in 0 .. MaxActs BY DEF IInv
<1>2. Sound(t') /\ InBounds(t, t')
  BY <1>1, SessionSteps, AgentSteps, DialogSteps, ToolsSteps, DecideStep, OtherSteps, JobStep, ServerSteps DEF Next
<1>3. acts' \in 0 .. MaxActs BY <1>1, ActsAreCounted
<1> QED BY <1>2, <1>3 DEF IInv

\* The pane begins connected, with nothing asked and nothing installed.
LEMMA InitIsSound ==
    ASSUME Init
    PROVE  IInv
<1>1. acts \in 0 .. MaxActs BY SlotAssumption DEF Init
<1> PICK h \in Hosts, procs \in Injection(Hosts, 1 .. Cardinality(Hosts)) :
           t = [Fresh(Start(procs), h) EXCEPT !.up = TRUE] BY DEF Init
<1> PICK s : s = Start(procs) OBVIOUS
<1> PICK r : r = Fresh(s, h) OBVIOUS
<1>2. procs \in [Hosts -> Nat]
  <2>1. procs \in [Hosts -> 1 .. Cardinality(Hosts)] BY DEF Injection, IsInjective
  <2>2. Cardinality(Hosts) \in Nat BY SlotAssumption, FS_CardinalityType
  <2> QED BY <2>1, <2>2
<1>3. /\ s.saved = [x \in Hosts |-> NoJob] /\ s.jobs = [j \in Jobs |-> NewJob] /\ s.wire = {} /\ s.forgotten = {}
      /\ s.procs = procs /\ s.helper = NoHelper /\ s.struck = FALSE /\ s.other = NoOther BY DEF Start
<1>4. NewJob \in JobStates /\ NoHelper \in Helpers /\ NoOther \in Others /\ NoOther.job = NoJob
  BY DEF NewJob, JobStates, NoHelper, Helpers, NoProcess, NoOther, Others
<1>5. /\ r \in State /\ SlotInv(r) /\ SameWorld(s, r) /\ r.calls = {} /\ r.slot = 0
      /\ r.dialog.target = NoHost /\ r.dialog.job = NoJob
  <2>1. Lasting(s) BY <1>2, <1>3, <1>4 DEF Lasting
  <2> QED BY <2>1, FreshOwns
<1>6. Changes(r, t, {"up", "connecting", "host"}) /\ t.connecting = r.connecting
  <2>1. t = [r EXCEPT !.up = TRUE] /\ r \in State BY <1>5
  <2> QED BY <2>1 DEF Changes, State, Fields
<1>7. ~r.connecting BY DEF Fresh
<1>8. SlotInv(t)
  <2>1. SlotCore(t) BY <1>5, <1>6, <1>7, SlotOutlivesConnection DEF SlotInv
  <2>2. t.dialog.request = 0 BY <1>6 DEF Changes, Fields, Fresh, NoDialog
  <2> QED BY <2>1, <2>2 DEF SlotInv, Attached
<1>9. /\ t \in State /\ t.calls = {} /\ t.dialog.target = NoHost /\ t.dialog.job = NoJob /\ SameWorld(s, t)
  BY <1>5, <1>6 DEF Changes, Fields, SameWorld
<1>10. InstallInv(t)
  <2>1. \A j \in Jobs : t.jobs[j] = NewJob /\ ~Working(t, j) BY <1>3, <1>9 DEF SameWorld, Working, NewJob
  <2>2. JobsFit(t)
    <3>1. \A j \in Jobs : /\ j \notin t.wire /\ t.jobs[j].sup = "none" /\ t.jobs[j].phase = "none"
                           /\ t.jobs[j].pkg = "none" /\ ~Over(t.jobs[j])
      BY <1>3, <1>9, <2>1 DEF SameWorld, NewJob, Over
    <3> QED BY <1>9, <2>1, <3>1 DEF JobsFit
  <2>3. Saved(t)
    <3>1. \A x \in Hosts : t.saved[x] = NoJob BY <1>3, <1>9 DEF SameWorld
    <3> QED BY <2>1, <3>1 DEF Saved
  <2>4. Followed(t) BY <1>3, <1>4, <1>9 DEF Followed, SameWorld
  <2> QED BY <2>2, <2>3, <2>4 DEF InstallInv
<1>11. SignalInv(t) BY <1>3, <1>9 DEF SameWorld, SignalInv, NoHelper
<1> QED BY <1>1, <1>8, <1>9, <1>10, <1>11 DEF IInv, Sound

----
(* The theorems. *)

\* Whatever the user, the clients, the servers and the connection do, the tools of a pane stay in a
\* sound state.
THEOREM Invariance == Spec => []IInv
<1>1. Init => IInv BY InitIsSound
<1>2. IInv /\ [Next]_vars => IInv'
  <2>1. ASSUME IInv, UNCHANGED vars
        PROVE  IInv' BY <2>1 DEF IInv, vars
  <2> QED BY <2>1, StepKeeps
<1> QED BY <1>1, <1>2, PTL DEF Spec

\* The tools never wait for nothing, and never take an answer meant for another: who waits waits
\* for the call in the slot, that call is under way, and a client is told once, of its own command
\* or of an error (ToolsAreBacked).
THEOREM AlwaysBacked == Spec => []ToolsAreBacked
<1>1. IInv => ToolsAreBacked
  <2> SUFFICES ASSUME IInv PROVE ToolsAreBacked OBVIOUS
  <2>0. t \in State /\ SlotCore(t) /\ acts \in 0 .. MaxActs BY DEF IInv, Sound, SlotInv
  <2>1. Len(t.modals) <= 3
    <3>1. t.modals \in Seq(Questions) /\ DOMAIN t.modals = 1 .. Len(t.modals) /\ Len(t.modals) \in Nat
      BY <2>0 DEF State
    <3> PICK n \in Nat : n = Len(t.modals) BY <3>1
    <3>2. ASSUME n > 3
          PROVE  FALSE
      <4>1. {1, 2, 3} \subseteq DOMAIN t.modals BY <3>1, <3>2
      <4>2. \A i \in {1, 2, 3} : t.modals[i].kind \in {"command", "plan"}
        BY <2>0, <3>2, <4>1 DEF SlotCore, Questioned
      <4>3. \A i, k \in {1, 2, 3} : t.modals[i].kind = t.modals[k].kind => i = k
        BY <2>0, <4>1 DEF SlotCore, Questioned
      <4> QED BY <4>2, <4>3
    <3> QED BY <3>2
  <2>2. TypeOK BY <2>0, <2>1 DEF TypeOK, State, Dialogs, SlotCore
  <2>3. /\ t.slot # 0 => \E c \in t.calls : c.id = t.slot
        /\ t.pending # 0 => t.slot = t.pending /\ t.flag
        /\ t.dialog.request # 0 => t.slot = t.dialog.request
        /\ t.tools.request # 0 => t.slot = t.tools.request BY <2>0 DEF SlotCore, Numbered, Owned
  <2>4. \A k \in Sockets : t.socks[k].reply \in {0, Refused, k} /\ t.socks[k].said <= 1
    BY <2>0 DEF SlotCore, SocketsFit, ToldOnce
  <2> QED BY <2>2, <2>3, <2>4 DEF ToolsAreBacked
<1> QED BY <1>1, Invariance, PTL

\* While the package manager works on an installation of a host, no other of that host is under way,
\* in whichever pane it was approved: each is the one saved for its host, unless nothing refers to it
\* any more, because the user chose to forget it, the program was killed before it was saved, or the
\* dialog of another pane that did not know of it saved or removed its own (InstallsOneAtATime).
THEOREM OneInstallAtATime == Spec => []InstallsOneAtATime
<1>1. IInv => InstallsOneAtATime
  <2> SUFFICES ASSUME IInv, NEW i \in Jobs, NEW j \in Jobs, i < j, Working(t, i), Working(t, j),
                      t.jobs[i].host = t.jobs[j].host
               PROVE  t.forgotten \cap {i, j} # {} BY DEF InstallsOneAtATime
  <2>1. (i \in t.forgotten \/ t.saved[t.jobs[i].host] = i) /\ (j \in t.forgotten \/ t.saved[t.jobs[j].host] = j)
    BY DEF IInv, Sound, InstallInv, Saved
  <2>2. i # j BY DEF Jobs
  <2> QED BY <2>1, <2>2
<1> QED BY <1>1, Invariance, PTL

\* A signal reaches the process that the user approved or none: the helper looks at the process
\* after it has taken its handle, and sends the signal to the handle (SignalsReachTheirProcess).
THEOREM SignalsReach == Spec => []SignalsReachTheirProcess
<1>1. IInv => SignalsReachTheirProcess BY DEF IInv, Sound, SignalInv, SignalsReachTheirProcess
<1> QED BY <1>1, Invariance, PTL

\* A command is submitted only in the step in which the user approves it, for its host and its
\* client, and a call is given up only by its own tool (AgentStaysInBounds).
THEOREM AgentInBounds == Spec => AgentStaysInBounds
<1>1. IInv /\ [Next]_vars => [(\A c \in Submitted : Approved(c)) /\ (GivenUp => OwnCancel)]_vars
  <2> SUFFICES ASSUME IInv, Next
               PROVE  (\A c \in Submitted : Approved(c)) /\ (GivenUp => OwnCancel) OBVIOUS
  <2>1. Submits(t, t') /\ GivesUp(t, t') BY StepKeeps DEF InBounds
  <2>2. ASSUME NEW c \in Submitted
        PROVE  Approved(c)
    <3>1. ApprovedBy(t, c) BY <2>1 DEF Submitted, Submits
    <3> QED BY <3>1 DEF ApprovedBy, Approved, Top
  <2>3. ASSUME GivenUp
        PROVE  OwnCancel
    <3>1. CancelledBy(t, t') BY <2>1, <2>3 DEF GivenUp, GivesUp
    <3> QED BY <3>1 DEF CancelledBy, OwnCancel
  <2> QED BY <2>2, <2>3
<1> QED BY <1>1, Invariance, PTL DEF Spec, AgentStaysInBounds
=============================================================================
